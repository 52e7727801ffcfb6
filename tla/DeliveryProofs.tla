--------------------------- MODULE DeliveryProofs ---------------------------
(***************************************************************************)
(* No order is lost and no unit is sold twice, with one instance and       *)
(* faults of the delivery only (Kafka, leases, rebalances).  The inductive *)
(* invariant is DeliveryInv, next to SagaInv: first what no step takes     *)
(* back, then one lemma for each part of DeliveryInv, then what follows.   *)
(* The last sections are about any number of instances and any faults: the *)
(* saga implements AtomicWallet and AtomicStock, its books balance, and a  *)
(* row marked SUCCESS was published or compensated.                        *)
(***************************************************************************)
EXTENDS OrderSagaProofs, FiniteSetTheorems

\* One process of the application.  With two neither property holds: both may
\* restock the same order, and a handler that meets the other's lock drops its
\* message.
OneInstance == \A i, j \in Instances : i = j

LEMMA LeqTransitive == \A a, b, c \in Nat : a <= b /\ b <= c => a <= c
OBVIOUS

\* Faults are counted and never forgotten.
LEMMA NoOtherFault ==
  ASSUME TypeOK, OnlyDeliveryFaults', NEW k \in {"db", "redis", "crash"}
  PROVE  ~Fault(k)
<1>1. faults \in [FaultKinds -> Nat] /\ k \in FaultKinds
  BY DEF TypeOK, FaultKinds
<1>2. ASSUME Fault(k) PROVE FALSE
  <2>1. faults'[k] = faults[k] + 1
    BY <1>1, <1>2 DEF Fault
  <2>2. faults'[k] = 0
    BY DEF OnlyDeliveryFaults
  <2> QED BY <1>1, <2>1, <2>2
<1> QED BY <1>2

LEMMA FaultCases == [Next]_vars => UNCHANGED faults \/ \E k \in FaultKinds : Fault(k)
<1> SUFFICES ASSUME [Next]_vars
             PROVE  UNCHANGED faults \/ \E k \in FaultKinds : Fault(k)
  OBVIOUS
<1>k. FaultKinds = {"db", "kafka", "redis", "lease", "rebalance", "crash"}
  BY DEF FaultKinds
<1> USE <1>k DEF Heard, Unheard
<1>1. ASSUME NEW o \in Orders, PlaceOrder(o)
      PROVE  UNCHANGED faults
  BY <1>1 DEF PlaceOrder
<1>2. ASSUME NEW i \in Instances, PollerStep(i)
      PROVE  UNCHANGED faults \/ Fault("db")
  BY <1>2 DEF PollerStep, PollerRow, PollerOrder, FindEventsByStatus, ProduceEvent,
              ProduceRefused, SkipProduce, FailOrder, MarkSuccess, HandleFailedEvent,
              RestoreStock
<1>3. ASSUME NEW i \in Instances, PollerFault(i)
      PROVE  Fault("db") \/ Fault("kafka")
  BY <1>3 DEF PollerFault, FindFails, BatchAborts, ProduceUncertain, FailOrderFails,
              MarkFails, RestoreConflict
<1>4. ASSUME NEW i \in Instances, ConsumerStep(i)
      PROVE  UNCHANGED faults \/ Fault("db") \/ Fault("redis")
  BY <1>4 DEF ConsumerStep, HandlerStep, Receive, AcquireLock, LockFails, CommitOffset,
              DeductStock, OutOfStock, DeductRejected, ReopenOrderCreated, Pay, PayRejected,
              CreateFailedEvent, MarkPaid, MarkPaidFails
<1>5. ASSUME NEW i \in Instances, ConsumerFault(i)
      PROVE  Fault("db") \/ Fault("kafka")
  BY <1>5 DEF ConsumerFault, ReopenFails, CreateFailedEventFails, CommitFails
<1>6. CASE Environment
  BY <1>6 DEF Environment, LeaseEnds, Rebalance, Crash
<1>7. CASE UNCHANGED vars
  BY <1>7 DEF vars
<1> QED
  BY <1>1, <1>2, <1>3, <1>4, <1>5, <1>6, <1>7 DEF Next, InstanceNext

LEMMA FaultsKept ==
  ASSUME TypeOK, [Next]_vars, OnlyDeliveryFaults'
  PROVE  OnlyDeliveryFaults
<1>1. faults \in [FaultKinds -> Nat]
  BY DEF TypeOK
<1>2. ASSUME NEW j \in FaultKinds, Fault(j), NEW k \in {"db", "redis", "crash"}
      PROVE  faults[k] = 0
  <2>1. k \in FaultKinds
    BY DEF FaultKinds
  <2>2. faults'[k] = IF k = j THEN faults[k] + 1 ELSE faults[k]
    BY <1>1, <1>2, <2>1 DEF Fault
  <2>3. faults'[k] = 0
    BY DEF OnlyDeliveryFaults
  <2> QED BY <1>1, <2>1, <2>2, <2>3
<1>3. CASE UNCHANGED faults
  BY <1>3 DEF OnlyDeliveryFaults
<1> QED
  BY <1>2, <1>3, FaultCases DEF OnlyDeliveryFaults

-----------------------------------------------------------------------------
\* What stays: rows, messages, compensations

LEMMA LogGrows ==
  ASSUME [Next]_vars, TypeOK, NEW t \in Topics, NEW k \in Partitions
  PROVE  /\ Len(log[t][k]) \in Nat /\ Len(log'[t][k]) \in Nat
         /\ Len(log'[t][k]) >= Len(log[t][k])
         /\ \A n \in 1 .. Len(log[t][k]) : log'[t][k][n] = log[t][k][n]
         /\ \A n \in 1 .. Len(log'[t][k]) : log'[t][k][n] \in Orders
<1>t. /\ log \in [Topics -> [Partitions -> Seq(Orders)]]
      /\ log[t][k] \in Seq(Orders)
      /\ PartitionOf \in [Orders -> Partitions]
  BY OrdersAssumption DEF TypeOK, KafkaOK
<1>u. log'[t][k] \in Seq(Orders)
  BY StepTypeOK DEF TypeOK, KafkaOK
<1>1. CASE UNCHANGED log
  BY <1>1, <1>t
<1>2. ASSUME NEW i \in Instances, NEW u \in EventTypes, NEW q \in Orders, LogStep(i, u, q)
      PROVE  /\ Len(log'[t][k]) >= Len(log[t][k])
             /\ \A n \in 1 .. Len(log[t][k]) : log'[t][k][n] = log[t][k][n]
  <2>1. CASE ~(t = u /\ k = PartitionOf[q])
    <3>1. log'[t][k] = log[t][k]
      BY <1>2, <2>1, <1>t DEF LogStep, Append1
    <3> QED BY <3>1, <1>t
  <2>2. CASE t = u /\ k = PartitionOf[q] /\ log' = Append1(u, q)
    <3>1. log'[t][k] = Append(log[t][k], q)
      BY <2>2, <1>t DEF Append1
    <3> QED BY <3>1, <1>t
  <2>3. ASSUME t = u, k = PartitionOf[q], NEW m \in Nat,
               log' = [log EXCEPT ![u][PartitionOf[q]] = @ \o [j \in 1 .. m |-> q]]
        PROVE  /\ Len(log'[t][k]) >= Len(log[t][k])
               /\ \A n \in 1 .. Len(log[t][k]) : log'[t][k][n] = log[t][k][n]
    <3>1. log'[t][k] = log[t][k] \o [j \in 1 .. m |-> q]
      BY <2>3, <1>t
    <3>2. [j \in 1 .. m |-> q] \in Seq(Orders) /\ Len([j \in 1 .. m |-> q]) = m
      BY <2>3
    <3> QED BY <3>1, <3>2, <1>t
  <2> QED BY <1>2, <2>1, <2>2, <2>3 DEF LogStep
<1> QED
  BY <1>1, <1>2, <1>t, <1>u, LogCases

LEMMA PublishedStays ==
  ASSUME [Next]_vars, TypeOK, NEW t \in Topics, NEW o \in Orders, Published(t, o)
  PROVE  Published(t, o)'
<1>0. PICK k \in Partitions : \E n \in 1 .. Len(log[t][k]) : log[t][k][n] = o
  BY DEF Published
<1>1. PICK n \in 1 .. Len(log[t][k]) : log[t][k][n] = o
  BY <1>0
<1>2. n \in 1 .. Len(log'[t][k]) /\ log'[t][k][n] = o
  BY <1>1, LogGrows
<1> QED BY <1>2 DEF Published

LEMMA TakenStays ==
  ASSUME [Next]_vars, TypeOK, SagaInv, NEW t \in EventTypes, NEW o \in Orders, Taken(t, o)
  PROVE  Taken(t, o)'
<1>1. Stable(t, o)
  BY EvidenceStable DEF SagaInv
<1> QED BY <1>1 DEF Stable

LEMMA ProcessedStays ==
  ASSUME [Next]_vars, TypeOK, SagaInv, NEW t \in Topics, NEW o \in Orders, Processed(t, o)
  PROVE  Processed(t, o)'
<1>1. NextEvent(t) \in EventTypes
  BY DEF NextEvent, Topics, EventTypes
<1>2. Taken(NextEvent(t), o)'
  BY <1>1, TakenStays DEF Processed
<1> QED BY <1>2 DEF Processed

LEMMA RestoredCases ==
  ASSUME [Next]_vars, TypeOK, NEW o \in Orders
  PROVE  restored'[o] = restored[o] \/ \E i \in Instances : RestoreStock(i, o)
<1>1. UNCHANGED restored => restored'[o] = restored[o]
  OBVIOUS
<1>2. ASSUME NEW i \in Instances, NEW q \in Orders, RestoreStock(i, q), q # o
      PROVE  restored'[o] = restored[o]
  BY <1>2, Columns DEF RestoreStock
<1>3. ASSUME NEW i \in Instances, NEW q \in Orders,
             ReopenOrderCreated(i, q) \/ CreateFailedEvent(i, q) \/ DeductStock(i, q)
             \/ Pay(i, q) \/ MarkPaid(i, q)
      PROVE  UNCHANGED restored
  BY <1>3 DEF ReopenOrderCreated, CreateFailedEvent, DeductStock, Pay, MarkPaid, history
<1>4. ASSUME NEW i \in Instances, NEW t \in EventTypes, NEW q \in Orders,
             MarkSuccess(i, t, q) \/ HandleFailedEvent(i, t, q) \/ FailOrder(i, t, q)
      PROVE  UNCHANGED restored
  BY <1>4 DEF MarkSuccess, HandleFailedEvent, FailOrder, history
<1>5. ASSUME NEW q \in Orders, PlaceOrder(q)
      PROVE  UNCHANGED restored
  BY <1>5 DEF PlaceOrder, history
<1>6. UNCHANGED database => UNCHANGED restored
  BY DEF database, history
<1> QED
  BY DatabaseCases, <1>1, <1>2, <1>3, <1>4, <1>5, <1>6 DEF DatabaseStep

LEMMA RestoredGrows ==
  ASSUME [Next]_vars, TypeOK, NEW o \in Orders
  PROVE  restored'[o] \in Nat /\ restored'[o] >= restored[o]
<1>1. restored[o] \in Nat /\ restored'[o] \in Nat
  BY StepTypeOK DEF TypeOK, DatabaseOK
<1>2. ASSUME NEW i \in Instances, RestoreStock(i, o)
      PROVE  restored'[o] = restored[o] + 1
  BY <1>2, Columns DEF RestoreStock
<1> QED BY <1>1, <1>2, RestoredCases

LEMMA CompensatedStays ==
  ASSUME [Next]_vars, TypeOK, SagaInv, NEW t \in EventTypes, NEW o \in Orders, Compensated(t, o)
  PROVE  Compensated(t, o)'
<1>1. restored[o] \in Nat
  BY DEF TypeOK, DatabaseOK
<1> QED BY <1>1, RestoredGrows, StatusStep DEF Compensated

-----------------------------------------------------------------------------
\* The steps of the one handler

\* The message of i is processed after the step.
Done(i) == outbox'[NextEvent(msg[i].topic)][msg[i].order] # "none"

\* It has done a step of its work; or the message is done with.
Move(i, s) ==
  /\ pc[i] \in {"work", "reopen", "failrow"}
  /\ s \in {"reopen", "failrow", "ack"}
  /\ GoTo(i, s)
  /\ s # "failrow" => Done(i)
  /\ UNCHANGED <<msg, lock, log, consumed, committed>>

Leave(i) ==
  /\ pc[i] # "idle"
  /\ Done(i)
  /\ Drop(i)
  /\ Release(i)
  /\ UNCHANGED <<log, consumed>>
  /\ \/ UNCHANGED committed
     \/ committed' = [committed EXCEPT ![msg[i].topic][msg[i].part] = msg[i].idx - 1]

Stay ==
  /\ UNCHANGED <<pc, msg, consumed, committed>>
  /\ UNCHANGED lock \/ \E t \in LockedTopics : lock' = [lock EXCEPT ![t] = Free]

LEMMA DeliveryConsumer ==
  ASSUME [Next]_vars, TypeOK, SagaInv, OnlyDeliveryFaults', OneInstance,
         \A t \in LockedTopics : LockHeld(t),
         \A i \in Instances : HandlerSound(i)
  PROVE  \/ Stay
         \/ Rebalance
         \/ \E i \in Instances, t \in Topics, k \in Partitions : Receive(i, t, k)
         \/ \E i \in Instances : AcquireLock(i)
         \/ \E i \in Instances, s \in HandlerState : Move(i, s)
         \/ \E i \in Instances : Leave(i)
<1> DEFINE Goal ==
         \/ Stay
         \/ Rebalance
         \/ \E i \in Instances, t \in Topics, k \in Partitions : Receive(i, t, k)
         \/ \E i \in Instances : AcquireLock(i)
         \/ \E i \in Instances, s \in HandlerState : Move(i, s)
         \/ \E i \in Instances : Leave(i)
<1>f. ~Fault("db") /\ ~Fault("redis") /\ ~Fault("crash")
  BY NoOtherFault
<1>t. /\ pc \in [Instances -> HandlerState]
      /\ msg \in [Instances -> Messages \cup {NoMessage}]
      /\ lock \in [LockedTopics -> Instances \cup {Free, Leftover}]
      /\ \A i \in Instances : pc[i] # "idle" => msg[i] \in Messages
  BY DEF TypeOK, ConsumerOK
<1>m. ASSUME NEW i \in Instances, pc[i] # "idle"
      PROVE  msg[i].topic \in Topics /\ msg[i].order \in Orders
  BY <1>m, <1>t DEF Messages
<1>1. ASSUME NEW o \in Orders, PlaceOrder(o)
      PROVE  Stay
  BY <1>1 DEF PlaceOrder, consumer, kafka, Stay
<1>2. ASSUME NEW j \in Instances, PollerStep(j)
      PROVE  Stay
  BY <1>2 DEF PollerStep, PollerRow, PollerOrder, FindEventsByStatus, ProduceEvent,
              ProduceRefused, SkipProduce, FailOrder, MarkSuccess, HandleFailedEvent,
              RestoreStock, consumer, kafka, Stay
<1>3. ASSUME NEW j \in Instances, PollerFault(j)
      PROVE  Stay
  BY <1>3 DEF PollerFault, FindFails, BatchAborts, ProduceUncertain, FailOrderFails,
              MarkFails, RestoreConflict, consumer, kafka, Stay
<1>4. ASSUME NEW j \in Instances, ConsumerStep(j)
      PROVE  Goal
  <2>1. ASSUME NEW t \in Topics, NEW k \in Partitions, Receive(j, t, k)
        PROVE  Goal
    BY <2>1
  <2>2. CASE AcquireLock(j)
    BY <2>2
  \* The only instance does not meet its own lock.
  <2>3. CASE LockFails(j)
    <3>1. lock[msg[j].topic] # Free /\ pc[j] = "lock"
      BY <2>3, <1>f DEF LockFails
    <3>2. CASE msg[j].topic \in LockedTopics
      <4>1. lock[msg[j].topic] = j
        BY <3>1, <3>2 DEF LockHeld, OneInstance
      <4> QED BY <3>1, <3>2, <4>1 DEF LockHeld
    <3>3. msg[j].topic \in LockedTopics
      BY <3>1 DEF HandlerSound
    <3> QED BY <3>2, <3>3
  <2>4. ASSUME NEW o \in Orders, HandlerStep(j, o)
        PROVE  Goal
    <3>u. UNCHANGED <<log, consumed, committed>>
      BY <2>4 DEF HandlerStep, DeductStock, OutOfStock, DeductRejected, ReopenOrderCreated,
                  Pay, PayRejected, CreateFailedEvent, MarkPaid, MarkPaidFails, kafka
    <3>1. CASE DeductStock(j, o)
      <4>1. Taken("ORDER_DEDUCT_STOCK", o)'
        BY <3>1, Columns DEF DeductStock, SetRow, Taken
      <4> QED
        BY <3>1, <4>1, <3>u, <1>f
           DEF DeductStock, Heard, Unheard, Handling, Move, Done, Taken, NextEvent, HandlerState
    <3>2. CASE OutOfStock(j, o) \/ PayRejected(j, o)
      BY <3>2, <3>u DEF OutOfStock, PayRejected, Handling, Move, HandlerState
    <3>3. CASE DeductRejected(j, o)
      <4>1. Taken("ORDER_DEDUCT_STOCK", o)'
        BY <3>3, <1>f DEF DeductRejected, Taken, database
      <4> QED
        BY <3>3, <4>1, <3>u DEF DeductRejected, Handling, Move, Done, Taken, NextEvent, HandlerState
    <3>4. CASE ReopenOrderCreated(j, o)
      <4>1. pc[j] = "reopen" /\ pc[j] # "idle"
        BY <3>4 DEF ReopenOrderCreated
      <4>2. Processed(msg[j].topic, msg[j].order)
        BY <4>1 DEF HandlerSound
      <4>3. Done(j)
        BY <4>1, <4>2, <1>m, ProcessedStays DEF Done, Processed, Taken
      <4> QED
        BY <3>4, <4>3, <3>u DEF ReopenOrderCreated, Move, HandlerState
    <3>5. CASE Pay(j, o)
      <4>1. Taken("ORDER_PAYMENT", o)'
        BY <3>5, Columns DEF Pay, SetRow, Taken
      <4> QED
        BY <3>5, <4>1, <3>u, <1>f
           DEF Pay, Heard, Unheard, Handling, Move, Done, Taken, NextEvent, HandlerState
    <3>6. CASE CreateFailedEvent(j, o)
      <4>1. msg[j].topic \in Topics /\ msg[j].order = o /\ pc[j] = "failrow"
        BY <3>6, <1>m DEF CreateFailedEvent
      <4>2. NextEvent(msg[j].topic) \in EventTypes
        BY <4>1 DEF NextEvent, Topics, EventTypes
      <4>3. outbox'[NextEvent(msg[j].topic)][o] # "none"
        <5>1. CASE Taken(NextEvent(msg[j].topic), o)
          BY <3>6, <5>1 DEF CreateFailedEvent, Taken
        <5>2. CASE ~Taken(NextEvent(msg[j].topic), o)
          <6>1. SetRow(NextEvent(msg[j].topic), o, "FAIL")
            BY <3>6, <5>2 DEF CreateFailedEvent
          <6> QED
            BY <6>1, <4>2, Columns, RowAfterSet
        <5> QED
          BY <5>1, <5>2
      <4> QED
        BY <3>6, <4>1, <4>3, <3>u DEF CreateFailedEvent, Move, Done, HandlerState
    <3>7. CASE MarkPaid(j, o)
      <4>1. Taken("ORDER_SUCCESS", o)'
        BY <3>7, Columns DEF MarkPaid, SetRow, Taken
      <4> QED
        BY <3>7, <4>1, <3>u, <1>f
           DEF MarkPaid, Heard, Unheard, Handling, Move, Done, Taken, NextEvent, HandlerState
    <3>8. CASE MarkPaidFails(j, o)
      <4>1. Taken("ORDER_SUCCESS", o)'
        BY <3>8, <1>f DEF MarkPaidFails, Taken, database
      <4>2. msg[j].topic = "ORDER_PAYMENT" /\ msg[j].order = o /\ pc[j] = "work"
        BY <3>8 DEF MarkPaidFails, Handling
      <4>3. Release(j)
        BY <3>8, <4>2, <1>t DEF MarkPaidFails, Release, LockedTopics
      <4> QED
        BY <3>8, <4>1, <4>2, <4>3, <3>u DEF MarkPaidFails, Leave, Done, Taken, NextEvent
    <3> QED
      BY <2>4, <3>1, <3>2, <3>3, <3>4, <3>5, <3>6, <3>7, <3>8 DEF HandlerStep
  <2>5. CASE CommitOffset(j)
    <3>1. pc[j] = "ack" /\ pc[j] # "idle"
      BY <2>5 DEF CommitOffset
    <3>2. Processed(msg[j].topic, msg[j].order)
      BY <3>1 DEF HandlerSound
    <3>3. UNCHANGED outbox
      BY <2>5 DEF CommitOffset, database
    <3> QED
      BY <2>5, <3>1, <3>2, <3>3 DEF CommitOffset, Leave, Done, Processed, Taken
  <2> QED
    BY <1>4, <2>1, <2>2, <2>3, <2>4, <2>5 DEF ConsumerStep
<1>5. ASSUME NEW j \in Instances, ConsumerFault(j)
      PROVE  Goal
  <2>1. CommitFails(j)
    BY <1>5, <1>f DEF ConsumerFault, ReopenFails, CreateFailedEventFails
  <2>2. pc[j] = "ack" /\ pc[j] # "idle"
    BY <2>1 DEF CommitFails
  <2>3. Processed(msg[j].topic, msg[j].order)
    BY <2>2 DEF HandlerSound
  <2> QED
    BY <2>1, <2>2, <2>3 DEF CommitFails, Leave, Done, kafka, database, Processed, Taken
<1>6. CASE Environment
  <2>1. ASSUME NEW t \in LockedTopics, LeaseEnds(t)
        PROVE  Stay
    BY <2>1 DEF LeaseEnds, kafka, Stay
  <2>2. ASSUME NEW i \in Instances, Crash(i)
        PROVE  FALSE
    BY <2>2, <1>f DEF Crash
  <2> QED BY <1>6, <2>1, <2>2 DEF Environment
<1>7. CASE UNCHANGED vars
  BY <1>7 DEF vars, consumer, kafka, Stay
<1> QED
  BY <1>1, <1>2, <1>3, <1>4, <1>5, <1>6, <1>7 DEF Next, InstanceNext

LEMMA LockStep ==
  ASSUME [Next]_vars, TypeOK, SagaInv, OnlyDeliveryFaults', OneInstance,
         \A u \in LockedTopics : LockHeld(u),
         \A i \in Instances : HandlerSound(i),
         NEW t \in LockedTopics
  PROVE  LockHeld(t)'
<1>t. /\ pc \in [Instances -> HandlerState]
      /\ msg \in [Instances -> Messages \cup {NoMessage}]
      /\ lock \in [LockedTopics -> Instances \cup {Free, Leftover}]
      /\ \A i \in Instances : pc[i] # "idle" => msg[i] \in Messages
  BY DEF TypeOK, ConsumerOK
<1>1. CASE Stay
  BY <1>1, <1>t DEF Stay, LockHeld
<1>2. CASE Rebalance
  BY <1>2 DEF Rebalance, consumer, LockHeld
<1>3. ASSUME NEW i \in Instances, NEW u \in Topics, NEW k \in Partitions, Receive(i, u, k)
      PROVE  LockHeld(t)'
  <2>1. lock[t] = Free
    BY <1>3 DEF Receive, LockHeld, OneInstance
  <2> QED BY <1>3, <2>1 DEF Receive, LockHeld
<1>4. ASSUME NEW i \in Instances, AcquireLock(i)
      PROVE  LockHeld(t)'
  <2>1. lock[t] = Free
    BY <1>4 DEF AcquireLock, LockHeld, OneInstance
  <2>2. pc'[i] = "work" /\ msg'[i] = msg[i]
    BY <1>4, <1>t DEF AcquireLock, GoTo
  <2>3. CASE msg[i].topic = t
    <3>1. lock'[t] = i
      BY <1>4, <2>3, <1>t DEF AcquireLock
    <3> QED BY <2>2, <2>3, <3>1 DEF LockHeld
  <2>4. CASE msg[i].topic # t
    BY <1>4, <2>1, <2>4, <1>t DEF AcquireLock, LockHeld
  <2> QED BY <2>3, <2>4
<1>5. ASSUME NEW i \in Instances, NEW s \in HandlerState, Move(i, s)
      PROVE  LockHeld(t)'
  <2>1. pc'[i] \in {"work", "reopen", "failrow", "ack"} /\ msg'[i] = msg[i]
    BY <1>5, <1>t DEF Move, GoTo
  <2> QED BY <1>5, <2>1 DEF Move, LockHeld, OneInstance
<1>6. ASSUME NEW i \in Instances, Leave(i)
      PROVE  LockHeld(t)'
  <2>1. lock'[t] = IF lock[t] = i /\ t = msg[i].topic THEN Free ELSE lock[t]
    BY <1>6 DEF Leave, Release
  <2>2. lock[t] # Free => lock[t] = i /\ t = msg[i].topic
    BY DEF LockHeld, OneInstance
  <2> QED BY <2>1, <2>2 DEF LockHeld
<1> QED
  BY <1>1, <1>2, <1>3, <1>4, <1>5, <1>6, DeliveryConsumer


\* Only Rebalance, Receive and the end of a message move an offset.
LEMMA OffsetsStep ==
  ASSUME [Next]_vars, TypeOK, SagaInv, OnlyDeliveryFaults', OneInstance,
         \A u \in LockedTopics : LockHeld(u),
         \A i \in Instances : HandlerSound(i),
         NEW t \in Topics, NEW k \in Partitions, OffsetsSound(t, k)
  PROVE  OffsetsSound(t, k)'
<1>t. /\ pc \in [Instances -> HandlerState]
      /\ msg \in [Instances -> Messages \cup {NoMessage}]
      /\ consumed \in [Topics -> [Partitions -> Nat]]
      /\ committed \in [Topics -> [Partitions -> Nat]]
      /\ consumed[t][k] \in Nat /\ committed[t][k] \in Nat
      /\ consumed'[t][k] \in Nat /\ committed'[t][k] \in Nat
  BY StepTypeOK DEF TypeOK, ConsumerOK, KafkaOK
<1>m. ASSUME NEW i \in Instances, pc[i] # "idle"
      PROVE  /\ msg[i].topic \in Topics /\ msg[i].part \in Partitions
             /\ msg[i].idx \in Nat /\ msg[i].idx > 0 /\ msg[i].order \in Orders
  <2>1. msg[i] \in Messages
    BY <1>m DEF TypeOK, ConsumerOK
  <2> QED BY <2>1 DEF Messages
<1>g. /\ Len(log[t][k]) \in Nat /\ Len(log'[t][k]) \in Nat
      /\ Len(log'[t][k]) >= Len(log[t][k])
      /\ \A n \in 1 .. Len(log[t][k]) : log'[t][k][n] = log[t][k][n]
      /\ \A n \in 1 .. Len(log'[t][k]) : log'[t][k][n] \in Orders
  BY LogGrows
<1> DEFINE At(n) == log[t][k][n]
           Now(n) == outbox'[NextEvent(t)][At(n)] # "none"
           Held(n) == \E i \in Instances, p \in {"lock", "work", "failrow"} :
                        Handling(i, p, t, At(n))
           HeldNow(n) == \E i \in Instances, p \in {"lock", "work", "failrow"} :
                           pc'[i] = p /\ msg'[i].topic = t /\ msg'[i].order = At(n)
           Was(n) == \/ Now(n)
                     \/ n > committed[t][k] /\ n > consumed[t][k]
                     \/ n > committed[t][k] /\ Held(n)
           Is(n) == \/ Now(n)
                    \/ n > committed'[t][k] /\ n > consumed'[t][k]
                    \/ n > committed'[t][k] /\ HeldNow(n)
<1>w. /\ consumed[t][k] <= Len(log[t][k]) /\ committed[t][k] <= Len(log[t][k])
      /\ \A n \in 1 .. Len(log[t][k]) : Was(n)
  <2>1. ASSUME NEW n \in 1 .. Len(log[t][k]), Processed(t, At(n))
        PROVE  Now(n)
    <3>1. At(n) \in Orders
      BY <1>g
    <3> QED BY <2>1, <3>1, ProcessedStays DEF Processed, Taken
  <2> QED BY <2>1 DEF OffsetsSound
<1>r. ASSUME consumed'[t][k] <= Len(log[t][k]), committed'[t][k] <= Len(log[t][k]),
             \A n \in 1 .. Len(log[t][k]) : Is(n)
      PROVE  OffsetsSound(t, k)'
  <2>1. consumed'[t][k] <= Len(log'[t][k]) /\ committed'[t][k] <= Len(log'[t][k])
    BY <1>r, <1>g, <1>t
  <2>2. ASSUME NEW n \in 1 .. Len(log'[t][k])
        PROVE  \/ outbox'[NextEvent(t)][log'[t][k][n]] # "none"
               \/ n > committed'[t][k] /\ n > consumed'[t][k]
               \/ /\ n > committed'[t][k]
                  /\ \E i \in Instances, p \in {"lock", "work", "failrow"} :
                       Handling(i, p, t, log[t][k][n])'
    <3>1. CASE n > Len(log[t][k])
      BY <3>1, <1>r, <1>g, <1>t
    <3>2. CASE n <= Len(log[t][k])
      <4>1. n \in 1 .. Len(log[t][k])
        BY <3>2, <1>g
      <4>2. Is(n) /\ log'[t][k][n] = At(n)
        BY <4>1, <1>r, <1>g
      <4> QED BY <4>2 DEF Handling
    <3> QED BY <3>1, <3>2, <1>g
  <2> QED BY <2>1, <2>2 DEF OffsetsSound, Processed, Taken
<1>1. CASE Stay
  BY <1>1, <1>r, <1>w DEF Stay, Handling
<1>2. CASE Rebalance
  BY <1>2, <1>r, <1>w DEF Rebalance, Reassign, consumer, Handling
<1>3. ASSUME NEW i \in Instances, NEW u \in Topics, NEW j \in Partitions, Receive(i, u, j)
      PROVE  OffsetsSound(t, k)'
  <2>1. \A n \in 1 .. Len(log[t][k]) : ~Held(n)
    BY <1>3 DEF Receive, Handling, OneInstance
  <2>2. committed'[t][k] = committed[t][k]
    BY <1>3 DEF Receive
  <2>3. CASE u = t /\ j = k
    <3>1. consumed'[t][k] = consumed[t][k] + 1 /\ consumed[t][k] < Len(log[t][k])
      BY <1>3, <2>3, <1>t DEF Receive
    <3>2. /\ pc'[i] \in {"lock", "work"}
          /\ msg'[i].topic = t
          /\ msg'[i].order = At(consumed[t][k] + 1)
      BY <1>3, <2>3, <1>t DEF Receive, GoTo
    <3>3. ASSUME NEW n \in 1 .. Len(log[t][k])
          PROVE  Is(n)
      <4>1. CASE n = consumed[t][k] + 1
        BY <4>1, <3>2, <2>1, <2>2, <1>w
      <4>2. CASE n # consumed[t][k] + 1
        BY <4>2, <3>1, <2>1, <2>2, <1>w, <1>t, <1>g
      <4> QED BY <4>1, <4>2
    <3> QED BY <3>1, <3>3, <2>2, <1>r, <1>w, <1>t, <1>g
  <2>4. CASE ~(u = t /\ j = k)
    <3>1. consumed'[t][k] = consumed[t][k]
      BY <1>3, <2>4, <1>t DEF Receive
    <3> QED BY <3>1, <2>1, <2>2, <1>r, <1>w
  <2> QED BY <2>3, <2>4
<1>4. ASSUME NEW i \in Instances, AcquireLock(i)
      PROVE  OffsetsSound(t, k)'
  <2>1. pc'[i] = "work" /\ UNCHANGED <<msg, consumed, committed>>
    BY <1>4, <1>t DEF AcquireLock, GoTo, kafka
  <2>2. ASSUME NEW n \in 1 .. Len(log[t][k]), Held(n)
        PROVE  HeldNow(n)
    BY <2>1, <2>2 DEF Handling, OneInstance
  <2> QED BY <2>1, <2>2, <1>r, <1>w
<1>5. ASSUME NEW i \in Instances, NEW s \in HandlerState, Move(i, s)
      PROVE  OffsetsSound(t, k)'
  <2>1. pc'[i] = s /\ UNCHANGED <<msg, consumed, committed>>
    BY <1>5, <1>t DEF Move, GoTo
  <2>2. ASSUME NEW n \in 1 .. Len(log[t][k]), Held(n)
        PROVE  HeldNow(n) \/ Now(n)
    <3>1. msg[i].topic = t /\ msg[i].order = At(n)
      BY <2>2 DEF Handling, OneInstance
    <3> QED BY <1>5, <2>1, <3>1 DEF Move, Done
  <2> QED BY <2>1, <2>2, <1>r, <1>w
<1>6. ASSUME NEW i \in Instances, Leave(i)
      PROVE  OffsetsSound(t, k)'
  <2>1. UNCHANGED consumed /\ pc[i] # "idle"
    BY <1>6 DEF Leave
  <2>2. ASSUME NEW n \in 1 .. Len(log[t][k]), Held(n)
        PROVE  Now(n)
    <3>1. msg[i].topic = t /\ msg[i].order = At(n)
      BY <2>2 DEF Handling, OneInstance
    <3> QED BY <1>6, <3>1 DEF Leave, Done
  <2>3. CASE committed'[t][k] = committed[t][k]
    BY <2>1, <2>2, <2>3, <1>r, <1>w
  <2>4. CASE /\ msg[i].topic = t /\ msg[i].part = k
             /\ committed'[t][k] = msg[i].idx - 1
    <3>1. msg[i].idx <= Len(log[t][k])
      BY <2>1, <2>4 DEF HandlerSound
    <3>2. ASSUME NEW n \in 1 .. (msg[i].idx - 1)
          PROVE  Now(n)
      <4>1. Processed(t, At(n))
        BY <2>1, <2>4 DEF HandlerSound
      <4>2. n \in 1 .. Len(log[t][k])
        BY <3>1, <2>1, <1>m, <1>g
      <4>3. At(n) \in Orders
        BY <4>2, <1>g
      <4> QED BY <4>1, <4>3, ProcessedStays DEF Processed, Taken
    <3>3. ASSUME NEW n \in 1 .. Len(log[t][k])
          PROVE  Is(n)
      <4>1. CASE n <= msg[i].idx - 1
        BY <4>1, <3>2, <2>1, <1>m
      <4>2. CASE n > msg[i].idx - 1
        BY <4>2, <2>1, <2>2, <2>4, <1>w
      <4> QED BY <4>1, <4>2, <2>1, <1>m
    <3> QED BY <3>1, <3>3, <2>1, <2>4, <1>r, <1>w, <1>m, <1>g
  <2> QED
    BY <1>6, <2>3, <2>4, <1>t, <1>m DEF Leave
<1> QED
  BY <1>1, <1>2, <1>3, <1>4, <1>5, <1>6, DeliveryConsumer

\* What a handler knows of the messages before its own stays true while it works.
LEMMA HandlerSoundStep ==
  ASSUME [Next]_vars, TypeOK, SagaInv, OnlyDeliveryFaults', OneInstance,
         \A u \in LockedTopics : LockHeld(u),
         \A u \in Topics, k \in Partitions : OffsetsSound(u, k),
         \A j \in Instances : HandlerSound(j),
         NEW i \in Instances
  PROVE  HandlerSound(i)'
<1>t. /\ pc \in [Instances -> HandlerState]
      /\ msg \in [Instances -> Messages \cup {NoMessage}]
      /\ consumed \in [Topics -> [Partitions -> Nat]]
  BY DEF TypeOK, ConsumerOK, KafkaOK
<1>m. ASSUME NEW j \in Instances, pc[j] # "idle"
      PROVE  /\ msg[j].topic \in Topics /\ msg[j].part \in Partitions
             /\ msg[j].idx \in Nat /\ msg[j].idx > 0 /\ msg[j].order \in Orders
  <2>1. msg[j] \in Messages
    BY <1>m DEF TypeOK, ConsumerOK
  <2> QED BY <2>1 DEF Messages
\* A handler that keeps its message.
<1>r. ASSUME pc[i] # "idle", UNCHANGED msg,
             pc'[i] = "lock" => pc[i] = "lock",
             pc'[i] \in {"reopen", "ack"} => pc[i] \in {"reopen", "ack"} \/ Done(i)
      PROVE  HandlerSound(i)'
  <2> DEFINE t == msg[i].topic
             k == msg[i].part
  <2>0. t \in Topics /\ k \in Partitions /\ msg[i].idx \in Nat
    BY <1>r, <1>m
  <2>1. /\ msg[i].idx <= Len(log[t][k])
        /\ \A n \in 1 .. (msg[i].idx - 1) : Processed(t, log[t][k][n])
        /\ pc[i] = "lock" => t \in LockedTopics
        /\ pc[i] \in {"reopen", "ack"} => Processed(t, msg[i].order)
    BY <1>r DEF HandlerSound
  <2>2. /\ Len(log[t][k]) \in Nat /\ Len(log'[t][k]) \in Nat
        /\ Len(log'[t][k]) >= Len(log[t][k])
        /\ \A n \in 1 .. Len(log[t][k]) : log'[t][k][n] = log[t][k][n]
        /\ \A n \in 1 .. Len(log'[t][k]) : log'[t][k][n] \in Orders
    BY <2>0, LogGrows
  <2>3. ASSUME NEW q \in Orders, Processed(t, q)
        PROVE  outbox'[NextEvent(t)][q] # "none"
    BY <2>0, <2>3, ProcessedStays DEF Processed, Taken
  <2>4. msg[i].idx <= Len(log'[t][k])
    <3>1. msg[i].idx \in Nat /\ msg[i].idx <= Len(log[t][k])
      BY <2>0, <2>1
    <3>2. /\ Len(log[t][k]) \in Nat /\ Len(log'[t][k]) \in Nat
          /\ Len(log[t][k]) <= Len(log'[t][k])
      BY <2>2
    <3> QED BY <3>1, <3>2, LeqTransitive
  <2>5. ASSUME NEW n \in 1 .. (msg[i].idx - 1)
        PROVE  outbox'[NextEvent(t)][log'[t][k][n]] # "none"
    <3>1. n \in 1 .. Len(log[t][k])
      BY <2>0, <2>1, <2>2
    <3>2. n \in 1 .. Len(log'[t][k])
      BY <3>1, <2>2
    <3>3. log'[t][k][n] = log[t][k][n]
      BY <3>1, <2>2
    <3>4. log[t][k][n] \in Orders
      <4>1. log'[t][k][n] \in Orders
        BY <3>2, <2>2
      <4> QED BY <4>1, <3>3
    <3> QED BY <3>3, <3>4, <2>1, <2>3
  <2>6. pc'[i] \in {"reopen", "ack"} => outbox'[NextEvent(t)][msg[i].order] # "none"
    <3>1. msg[i].order \in Orders
      BY <1>r, <1>m
    <3> QED BY <3>1, <1>r, <2>1, <2>3 DEF Done
  <2> QED
    BY <1>r, <2>1, <2>4, <2>5, <2>6 DEF HandlerSound, Processed, Taken
<1>1. CASE UNCHANGED <<pc, msg>>
  <2>1. CASE pc[i] = "idle"
    BY <1>1, <2>1 DEF HandlerSound
  <2>2. CASE pc[i] # "idle"
    BY <1>1, <2>2, <1>r
  <2> QED BY <2>1, <2>2
<1>2. CASE Stay
  BY <1>1, <1>2 DEF Stay
<1>3. CASE Rebalance
  BY <1>1, <1>3 DEF Rebalance, consumer
<1>4. ASSUME NEW j \in Instances, NEW u \in Topics, NEW k \in Partitions, Receive(j, u, k)
      PROVE  HandlerSound(i)'
  <2>1. j = i
    BY DEF OneInstance
  <2>2. /\ pc[i] = "idle" /\ UNCHANGED <<log, outbox>>
        /\ consumed[u][k] < Len(log[u][k])
    BY <1>4, <2>1 DEF Receive, database
  <2>3. /\ pc'[i] = IF u \in LockedTopics THEN "lock" ELSE "work"
        /\ msg'[i] = [topic |-> u, part |-> k, idx |-> consumed[u][k] + 1,
                      order |-> log[u][k][consumed[u][k] + 1]]
    BY <1>4, <2>1, <1>t DEF Receive, GoTo
  <2>4. consumed[u][k] \in Nat /\ Len(log[u][k]) \in Nat
    BY <1>t, LogGrows
  <2>5. ASSUME NEW n \in 1 .. consumed[u][k]
        PROVE  Processed(u, log[u][k][n])
    <3>1. n \in 1 .. Len(log[u][k])
      BY <2>2, <2>4
    <3> QED BY <3>1, <2>2, <2>4 DEF OffsetsSound, Handling, OneInstance
  <2>6. ASSUME NEW n \in 1 .. consumed[u][k]
        PROVE  outbox'[NextEvent(u)][log'[u][k][n]] # "none"
    BY <2>2, <2>5 DEF Processed, Taken
  <2>7. consumed[u][k] + 1 <= Len(log'[u][k])
    BY <2>2, <2>4
  <2> QED
    BY <2>3, <2>4, <2>6, <2>7 DEF HandlerSound, Processed, Taken
<1>5. ASSUME NEW j \in Instances, AcquireLock(j)
      PROVE  HandlerSound(i)'
  <2>1. j = i
    BY DEF OneInstance
  <2> QED BY <1>5, <2>1, <1>r, <1>t DEF AcquireLock, GoTo
<1>6. ASSUME NEW j \in Instances, NEW s \in HandlerState, Move(j, s)
      PROVE  HandlerSound(i)'
  <2>1. j = i
    BY DEF OneInstance
  <2>2. pc'[i] = s
    BY <1>6, <2>1, <1>t DEF Move, GoTo
  <2> QED BY <1>6, <2>1, <2>2, <1>r DEF Move
<1>7. ASSUME NEW j \in Instances, Leave(j)
      PROVE  HandlerSound(i)'
  <2>1. j = i
    BY DEF OneInstance
  <2> QED BY <1>7, <2>1, <1>t DEF Leave, Drop, GoTo, HandlerSound
<1> QED
  BY <1>2, <1>3, <1>4, <1>5, <1>6, <1>7, DeliveryConsumer

-----------------------------------------------------------------------------
\* Rows and jobs

\* What a step may write to a row, when no compensation is given up.
LEMMA RowCases ==
  ASSUME [Next]_vars, TypeOK, SagaInv,
         \A i \in Instances, u \in EventTypes, q \in Orders : job[i][u][q] # "giveup",
         NEW t \in EventTypes, NEW o \in Orders
  PROVE  \/ outbox'[t][o] = outbox[t][o]
         \/ outbox'[t][o] = "INIT" /\ (t = "ORDER_SUCCESS" => status'[o] = "PAID")
         \/ outbox'[t][o] = "FAIL" /\ ~Taken(t, o) /\ t # "ORDER_CREATED" /\ t # "ORDER_SUCCESS"
         \/ outbox'[t][o] = "SUCCESS" /\ \E i \in Instances : job[i][t][o] = "sent"
<1> DEFINE Goal ==
         \/ outbox'[t][o] = outbox[t][o]
         \/ outbox'[t][o] = "INIT" /\ (t = "ORDER_SUCCESS" => status'[o] = "PAID")
         \/ outbox'[t][o] = "FAIL" /\ ~Taken(t, o) /\ t # "ORDER_CREATED" /\ t # "ORDER_SUCCESS"
         \/ outbox'[t][o] = "SUCCESS" /\ \E i \in Instances : job[i][t][o] = "sent"
<1>1. CASE UNCHANGED outbox
  BY <1>1
<1>2. ASSUME NEW u \in EventTypes, NEW q \in Orders, NEW s, SetRow(u, q, s)
      PROVE  outbox'[t][o] = IF t = u /\ o = q THEN s ELSE outbox[t][o]
  BY <1>2, Columns, RowAfterSet
<1>3. ASSUME NEW q \in Orders,
             \/ PlaceOrder(q)
             \/ \E i \in Instances : \/ DeductStock(i, q)
                                     \/ ReopenOrderCreated(i, q)
                                     \/ Pay(i, q)
      PROVE  Goal
  <2>1. PICK u \in EventTypes \ {"ORDER_SUCCESS"} : SetRow(u, q, "INIT")
    BY <1>3, Columns DEF PlaceOrder, DeductStock, ReopenOrderCreated, Pay
  <2> QED BY <1>2, <2>1
<1>4. ASSUME NEW i \in Instances, NEW q \in Orders, MarkPaid(i, q)
      PROVE  Goal
  <2>1. status'[q] = "PAID"
    BY <1>4, Columns DEF MarkPaid
  <2> QED BY <1>2, <1>4, <2>1, Columns DEF MarkPaid
<1>5. ASSUME NEW i \in Instances, NEW q \in Orders, CreateFailedEvent(i, q)
      PROVE  Goal
  <2> DEFINE u == NextEvent(msg[i].topic)
  <2>1. HandlerInv(i) /\ pc[i] = "failrow"
    BY <1>5 DEF SagaInv, CreateFailedEvent
  <2>2. u \in {"ORDER_DEDUCT_STOCK", "ORDER_PAYMENT"}
    BY <2>1 DEF HandlerInv, LockedTopics, NextEvent
  <2>3. UNCHANGED outbox \/ (SetRow(u, q, "FAIL") /\ ~Taken(u, q))
    BY <1>5 DEF CreateFailedEvent
  <2> HIDE DEF u
  <2>4. u \in EventTypes
    BY <2>2, Columns
  <2>5. CASE SetRow(u, q, "FAIL") /\ ~Taken(u, q)
    <3>1. outbox'[t][o] = IF t = u /\ o = q THEN "FAIL" ELSE outbox[t][o]
      BY <2>4, <2>5, <1>2
    <3> QED BY <3>1, <2>2, <2>5
  <2> QED BY <1>1, <2>3, <2>5
<1>6. ASSUME NEW i \in Instances, NEW u \in EventTypes, NEW q \in Orders, MarkSuccess(i, u, q)
      PROVE  Goal
  BY <1>2, <1>6 DEF MarkSuccess
<1>7. ASSUME NEW i \in Instances, NEW u \in EventTypes, NEW q \in Orders,
             HandleFailedEvent(i, u, q)
      PROVE  Goal
  BY <1>7 DEF HandleFailedEvent
<1>8. ASSUME NEW i \in Instances, NEW q \in Orders,
             RestoreStock(i, q) \/ \E u \in EventTypes : FailOrder(i, u, q)
      PROVE  UNCHANGED outbox
  BY <1>8 DEF RestoreStock, FailOrder
<1>9. UNCHANGED database => UNCHANGED outbox
  BY DEF database
<1> QED
  BY DatabaseCases, <1>1, <1>3, <1>4, <1>5, <1>6, <1>7, <1>8, <1>9 DEF DatabaseStep

\* An order comes into being with its first row.
LEMMA PlacedWithRow ==
  ASSUME [Next]_vars, TypeOK, SagaInv, NEW o \in Orders,
         status[o] = "none", status'[o] # "none"
  PROVE  outbox'["ORDER_CREATED"][o] # "none"
<1>1. UNCHANGED status => FALSE
  OBVIOUS
<1>2. ASSUME NEW q \in Orders, PlaceOrder(q)
      PROVE  outbox'["ORDER_CREATED"][o] # "none"
  <2>1. q = o
    BY <1>2, Columns DEF PlaceOrder
  <2>2. SetRow("ORDER_CREATED", o, "INIT")
    BY <1>2, <2>1 DEF PlaceOrder
  <2> QED BY <2>2, Columns DEF SetRow
<1>3. ASSUME NEW i \in Instances, NEW q \in Orders, MarkPaid(i, q)
      PROVE  FALSE
  <2>1. q = o
    BY <1>3, Columns DEF MarkPaid
  <2>2. HandlerInv(i)
    BY DEF SagaInv
  <2> QED BY <1>3, <2>1, <2>2 DEF MarkPaid, Handling, HandlerInv, Backed
<1>4. ASSUME NEW i \in Instances, NEW t \in EventTypes, NEW q \in Orders, FailOrder(i, t, q)
      PROVE  FALSE
  <2>1. q = o
    BY <1>4, Columns DEF FailOrder
  <2>2. JobInv(i, t, q) /\ RowInv(t, q)
    BY DEF SagaInv
  <2> QED BY <1>4, <2>1, <2>2 DEF FailOrder, MayRun, JobInv, RowInv
<1>5. UNCHANGED database => UNCHANGED status
  BY DEF database
<1>6. ASSUME NEW i \in Instances, NEW q \in Orders,
             RestoreStock(i, q) \/ DeductStock(i, q) \/ ReopenOrderCreated(i, q)
             \/ Pay(i, q) \/ CreateFailedEvent(i, q)
      PROVE  UNCHANGED status
  BY <1>6 DEF RestoreStock, DeductStock, ReopenOrderCreated, Pay, CreateFailedEvent
<1>7. ASSUME NEW i \in Instances, NEW t \in EventTypes, NEW q \in Orders,
             MarkSuccess(i, t, q) \/ HandleFailedEvent(i, t, q)
      PROVE  UNCHANGED status
  BY <1>7 DEF MarkSuccess, HandleFailedEvent
<1> QED
  BY DatabaseCases, <1>1, <1>2, <1>3, <1>4, <1>5, <1>6, <1>7 DEF DatabaseStep

LEMMA RowSoundStep ==
  ASSUME [Next]_vars, TypeOK, SagaInv,
         \A i \in Instances, t \in EventTypes, q \in Orders : JobSound(i, t, q),
         NEW o \in Orders, RowSound(o)
  PROVE  RowSound(o)'
<1>t. /\ \A t \in Topics : t \in EventTypes
      /\ {"ORDER_CREATED", "ORDER_SUCCESS"} \subseteq EventTypes
      /\ pass \in [Instances -> {"INIT", "FAIL"}]
  BY DEF Topics, EventTypes, TypeOK, PollerOK
<1>g. \A i \in Instances, u \in EventTypes, q \in Orders : job[i][u][q] # "giveup"
  BY DEF JobSound
<1>1. status'[o] # "none" => Taken("ORDER_CREATED", o)'
  <2>1. CASE status[o] # "none"
    BY <2>1, <1>t, TakenStays DEF RowSound
  <2>2. CASE status[o] = "none"
    BY <2>2, PlacedWithRow DEF Taken
  <2> QED BY <2>1, <2>2
<1>2. Taken("ORDER_SUCCESS", o)' => status'[o] = "PAID"
  <2>1. CASE Taken("ORDER_SUCCESS", o)
    BY <2>1, StatusStep DEF RowSound
  <2>2. CASE ~Taken("ORDER_SUCCESS", o)
    <3>1. ~\E i \in Instances : job[i]["ORDER_SUCCESS"][o] = "sent"
      BY <2>2, <1>t DEF SagaInv, JobInv
    <3> QED BY <2>2, <3>1, <1>t, <1>g, RowCases DEF Taken
  <2> QED BY <2>1, <2>2
<1>3. ASSUME NEW t \in Topics, outbox'[t][o] = "SUCCESS"
      PROVE  Published(t, o)' \/ Compensated(t, o)'
  <2>1. outbox[t][o] = "SUCCESS" \/ \E i \in Instances : job[i][t][o] = "sent"
    BY <1>3, <1>t, <1>g, RowCases
  <2>2. ASSUME NEW i \in Instances, job[i][t][o] = "sent"
        PROVE  Published(t, o) \/ Compensated(t, o)
    BY <2>2, <1>t DEF JobSound
  <2>3. Published(t, o) \/ Compensated(t, o)
    BY <2>1, <2>2 DEF RowSound
  <2> QED BY <2>3, <1>t, PublishedStays, CompensatedStays
<1> QED BY <1>1, <1>2, <1>3 DEF RowSound

\* A job when nothing but the delivery fails: it ends, waits, starts in a new
\* pass, or is done and its effect is there.
JobMove(i, t, o) ==
  \/ job'[i][t][o] = "idle" /\ (job[i][t][o] = "sent" => outbox'[t][o] = "SUCCESS")
  \/ job'[i][t][o] = job[i][t][o] /\ pass'[i] = pass[i]
  \/ /\ job'[i][t][o] = "queued" /\ job[i][t][o] = "idle"
     /\ outbox[t][o] = pass'[i]
     /\ UNCHANGED database
  \/ /\ job'[i][t][o] = "sent" /\ job[i][t][o] = "queued" /\ pass'[i] = pass[i]
     /\ pass[i] = "INIT" /\ t \in Topics => Published(t, o)'
     /\ pass[i] = "FAIL" => Compensated(t, o)'

LEMMA JobMoves ==
  ASSUME [Next]_vars, TypeOK, SagaInv, OnlyDeliveryFaults',
         \A j \in Instances, u \in EventTypes, q \in Orders : job[j][u][q] # "giveup",
         NEW i \in Instances, NEW t \in EventTypes, NEW o \in Orders
  PROVE  JobMove(i, t, o)
<1> USE DEF poller
<1>f. ~Fault("db") /\ ~Fault("redis") /\ ~Fault("crash")
  BY NoOtherFault
<1>t. /\ PollerOK
      /\ pass \in [Instances -> {"INIT", "FAIL"}]
      /\ job \in [Instances -> [EventTypes -> [Orders -> JobState]]]
      /\ PartitionOf \in [Orders -> Partitions]
      /\ log \in [Topics -> [Partitions -> Seq(Orders)]]
      /\ \A q \in Orders : restored[q] \in Nat
  BY OrdersAssumption DEF TypeOK, PollerOK, KafkaOK, DatabaseOK
<1>a. ASSUME UNCHANGED <<pass, job>> PROVE JobMove(i, t, o)
  BY <1>a DEF JobMove
<1>b. ASSUME UNCHANGED pass, NEW j \in Instances, NEW u \in EventTypes, NEW q \in Orders,
             NEW s, SetJob(j, u, q, s),
             \/ s = "idle" /\ (job[j][u][q] = "sent" => outbox'[u][q] = "SUCCESS")
             \/ /\ s = "sent" /\ job[j][u][q] = "queued"
                /\ pass[j] = "INIT" /\ u \in Topics => Published(u, q)'
                /\ pass[j] = "FAIL" => Compensated(u, q)'
      PROVE  JobMove(i, t, o)
  <2>1. job'[i][t][o] = IF j = i /\ u = t /\ q = o THEN s ELSE job[i][t][o]
    BY <1>b, <1>t, JobAfterSet
  <2>2. CASE j = i /\ u = t /\ q = o
    BY <1>b, <2>1, <2>2 DEF JobMove
  <2>3. CASE ~(j = i /\ u = t /\ q = o)
    BY <1>b, <2>1, <2>3 DEF JobMove
  <2> QED BY <2>2, <2>3
<1>1. ASSUME NEW q \in Orders, PlaceOrder(q)
      PROVE  JobMove(i, t, o)
  BY <1>1, <1>a DEF PlaceOrder
<1>2. ASSUME NEW j \in Instances, PollerStep(j)
      PROVE  JobMove(i, t, o)
  <2>1. CASE FindEventsByStatus(j)
    <3>1. PICK page \in SUBSET Rows(NextPass(j)) :
            job' = [job EXCEPT ![j] = [u \in EventTypes |-> [q \in Orders |->
                      IF <<u, q>> \in page THEN "queued" ELSE "idle"]]]
      BY <2>1 DEF FindEventsByStatus
    <3>2. CASE i = j
      <4>1. pass'[i] = NextPass(j) /\ UNCHANGED database /\ job[i][t][o] = "idle"
        BY <2>1, <3>2, <1>t DEF FindEventsByStatus, PassOver, IdleJobs
      <4>2. job'[i][t][o] = IF <<t, o>> \in page THEN "queued" ELSE "idle"
        BY <3>1, <3>2, <1>t
      <4>3. <<t, o>> \in page => outbox[t][o] = NextPass(j)
        BY DEF Rows
      <4> QED
        BY <4>1, <4>2, <4>3 DEF JobMove
    <3>3. CASE i # j
      <4>1. pass'[i] = pass[i] /\ job'[i] = job[i]
        BY <2>1, <3>1, <3>3, <1>t DEF FindEventsByStatus
      <4> QED
        BY <4>1 DEF JobMove
    <3> QED
      BY <3>2, <3>3
  <2>2. ASSUME NEW u \in EventTypes, NEW q \in Orders, PollerRow(j, u, q)
        PROVE  JobMove(i, t, o)
    <3>1. CASE ProduceEvent(j, u, q)
      <4>1. u \in Topics /\ job[j][u][q] = "queued" /\ pass[j] = "INIT"
        BY <3>1 DEF ProduceEvent, MayRun
      <4>2. log' = [log EXCEPT ![u][PartitionOf[q]] = Append(@, q)]
        BY <3>1 DEF ProduceEvent, Append1
      <4>3. Published(u, q)'
        BY <4>1, <4>2, SentOnce DEF Append1
      <4> QED BY <3>1, <4>1, <4>3, <1>b DEF ProduceEvent
    <3>2. CASE ProduceRefused(j, u, q)
      BY <3>2, <1>b DEF ProduceRefused, MayRun
    <3>3. CASE FailOrder(j, u, q)
      <4>1. /\ job[j][u][q] = "queued" /\ pass[j] = "FAIL" /\ UNCHANGED pass
            /\ SetJob(j, u, q, "sent")
        BY <3>3, <1>f DEF FailOrder, MayRun, Heard, Unheard
      <4>2. Compensated(u, q)'
        BY <3>3, Columns DEF FailOrder, Compensated
      <4> QED BY <4>1, <4>2, <1>b
    <3>4. CASE MarkSuccess(j, u, q)
      <4>1. outbox'[u][q] = "SUCCESS"
        BY <3>4, Columns, RowAfterSet DEF MarkSuccess
      <4> QED BY <3>4, <4>1, <1>b, <1>f DEF MarkSuccess, Heard, Unheard, Finish
    <3>5. CASE HandleFailedEvent(j, u, q)
      BY <3>5 DEF HandleFailedEvent
    <3> QED
      BY <2>2, <3>1, <3>2, <3>3, <3>4, <3>5 DEF PollerRow
  <2>3. ASSUME NEW q \in Orders, PollerOrder(j, q)
        PROVE  JobMove(i, t, o)
    <3> "ORDER_SUCCESS" \in EventTypes /\ "ORDER_PAYMENT" \in EventTypes
      BY DEF EventTypes
    <3>1. CASE SkipProduce(j, q)
      <4>1. /\ job[j]["ORDER_SUCCESS"][q] = "queued" /\ pass[j] = "INIT" /\ UNCHANGED pass
            /\ SetJob(j, "ORDER_SUCCESS", q, "sent")
        BY <3>1 DEF SkipProduce, MayRun
      <4>2. "ORDER_SUCCESS" \notin Topics
        BY DEF Topics
      <4> QED BY <4>1, <4>2, <1>b
    <3>2. CASE RestoreStock(j, q)
      <4>1. /\ job[j]["ORDER_PAYMENT"][q] = "queued" /\ pass[j] = "FAIL" /\ UNCHANGED pass
            /\ SetJob(j, "ORDER_PAYMENT", q, "sent")
        BY <3>2 DEF RestoreStock, MayRun
      <4>2. restored'[q] > 0
        BY <3>2, <1>t, Columns DEF RestoreStock
      <4> QED BY <4>1, <4>2, <1>b DEF Compensated
    <3> QED
      BY <2>3, <3>1, <3>2 DEF PollerOrder
  <2> QED
    BY <1>2, <2>1, <2>2, <2>3 DEF PollerStep
<1>3. ASSUME NEW j \in Instances, PollerFault(j)
      PROVE  JobMove(i, t, o)
  <2>1. PICK u \in EventTypes, q \in Orders : ProduceUncertain(j, u, q)
    BY <1>3, <1>f DEF PollerFault, FindFails, BatchAborts, FailOrderFails, MarkFails,
                      RestoreConflict
  <2>2. PICK n \in 0 .. ProducerTries, s \in {"idle", "sent"} :
          /\ s = "sent" => n > 0
          /\ log' = [log EXCEPT ![u][PartitionOf[q]] = @ \o [m \in 1 .. n |-> q]]
          /\ SetJob(j, u, q, s)
    BY <2>1 DEF ProduceUncertain
  <2>3. u \in Topics /\ job[j][u][q] = "queued" /\ pass[j] = "INIT" /\ UNCHANGED pass
    BY <2>1 DEF ProduceUncertain, MayRun
  <2>4. CASE s = "sent"
    <3>1. n \in Nat /\ n > 0
      BY <2>2, <2>4, BoundsAssumption
    <3>2. Published(u, q)'
      BY <3>1, <2>2, <2>3, SentOften
    <3> QED BY <2>2, <2>3, <2>4, <3>2, <1>b
  <2>5. CASE s = "idle"
    BY <2>2, <2>3, <2>5, <1>b
  <2> QED BY <2>2, <2>4, <2>5
<1>4. ASSUME NEW j \in Instances, ConsumerStep(j) \/ ConsumerFault(j)
      PROVE  JobMove(i, t, o)
  <2> UNCHANGED poller
    BY <1>4 DEF ConsumerStep, HandlerStep, Receive, AcquireLock, LockFails, CommitOffset,
                DeductStock, OutOfStock, DeductRejected, ReopenOrderCreated, Pay, PayRejected,
                CreateFailedEvent, MarkPaid, MarkPaidFails,
                ConsumerFault, ReopenFails, CreateFailedEventFails, CommitFails
  <2> QED
    BY <1>a
<1>5. CASE Environment
  BY <1>5, <1>a, <1>f DEF Environment, LeaseEnds, Rebalance, Crash
<1>6. CASE UNCHANGED vars
  BY <1>6, <1>a DEF vars
<1> QED
  BY <1>1, <1>2, <1>3, <1>4, <1>5, <1>6 DEF Next, InstanceNext

LEMMA JobSoundStep ==
  ASSUME [Next]_vars, TypeOK, SagaInv, OnlyDeliveryFaults',
         \A j \in Instances, u \in EventTypes, q \in Orders : JobSound(j, u, q),
         NEW i \in Instances, NEW t \in EventTypes, NEW o \in Orders
  PROVE  JobSound(i, t, o)'
<1>1. JobMove(i, t, o)
  BY JobMoves DEF JobSound
<1>2. t \in Topics /\ Published(t, o) => Published(t, o)'
  BY PublishedStays
<1>3. Compensated(t, o) => Compensated(t, o)'
  BY CompensatedStays
<1> QED BY <1>1, <1>2, <1>3 DEF JobMove, JobSound

LEMMA RestockOnceStep ==
  ASSUME [Next]_vars, TypeOK, SagaInv, OnlyDeliveryFaults', OneInstance,
         \A j \in Instances, u \in EventTypes, q \in Orders : JobSound(j, u, q),
         NEW i \in Instances, NEW o \in Orders, RestockOnce(i, o)
  PROVE  RestockOnce(i, o)'
<1> DEFINE payment == job[i]["ORDER_PAYMENT"][o]
           row == outbox["ORDER_PAYMENT"][o]
<1>t. /\ "ORDER_PAYMENT" \in EventTypes
      /\ restored[o] \in Nat
      /\ PollerOK
      /\ pass \in [Instances -> {"INIT", "FAIL"}]
  BY DEF EventTypes, TypeOK, DatabaseOK, PollerOK
<1>g. \A j \in Instances, u \in EventTypes, q \in Orders : job[j][u][q] # "giveup"
  BY DEF JobSound
<1>m. JobMove(i, "ORDER_PAYMENT", o)
  BY <1>g, <1>t, JobMoves
<1>1. CASE restored'[o] = restored[o]
  <2>1. row' = "FAIL" /\ restored[o] > 0 => row = "FAIL"
    <3>1. row' = "FAIL" => row = "FAIL" \/ ~Taken("ORDER_PAYMENT", o)
      BY <1>t, <1>g, RowCases
    <3>2. HistoryInv(o)
      BY DEF SagaInv
    <3> QED BY <3>1, <3>2 DEF HistoryInv
  <2>2. row = "FAIL" /\ restored[o] > 0 => pass[i] = "FAIL" /\ payment = "sent"
    BY DEF RestockOnce
  <2>3. restored[o] <= 1 /\ (pass[i] = "FAIL" /\ payment = "queued" => restored[o] = 0)
    BY DEF RestockOnce
  <2>4. CASE payment' = "idle" /\ (payment = "sent" => row' = "SUCCESS")
    BY <1>1, <2>1, <2>2, <2>3, <2>4 DEF RestockOnce
  <2>5. CASE payment' = payment /\ pass'[i] = pass[i]
    BY <1>1, <2>1, <2>2, <2>3, <2>5 DEF RestockOnce
  <2>6. CASE payment' = "queued" /\ payment = "idle" /\ row = pass'[i] /\ UNCHANGED database
    <3>1. row' = row
      BY <2>6 DEF database
    <3>2. row = "FAIL" => restored[o] = 0
      BY <2>2, <2>6, <1>t
    <3> QED BY <1>1, <2>3, <2>6, <3>1, <3>2 DEF RestockOnce
  <2>7. CASE payment' = "sent" /\ payment = "queued" /\ pass'[i] = pass[i]
    BY <1>1, <2>1, <2>2, <2>3, <2>7 DEF RestockOnce
  <2> QED BY <2>4, <2>5, <2>6, <2>7, <1>m DEF JobMove
<1>2. ASSUME NEW j \in Instances, RestoreStock(j, o)
      PROVE  RestockOnce(i, o)'
  <2>1. j = i
    BY DEF OneInstance
  <2>2. pass[i] = "FAIL" /\ payment = "queued" /\ UNCHANGED pass
    BY <1>2, <2>1 DEF RestoreStock, MayRun
  <2>3. restored[o] = 0
    BY <2>2 DEF RestockOnce
  <2>4. restored'[o] = 1
    BY <1>2, <2>3, Columns DEF RestoreStock
  <2>5. payment' = "sent"
    BY <1>2, <2>1, <1>t, JobAfterSet DEF RestoreStock
  <2> QED BY <2>2, <2>4, <2>5 DEF RestockOnce
<1> QED BY <1>1, <1>2, RestoredCases

-----------------------------------------------------------------------------
\* Units

LEMMA UpTo ==
  ASSUME NEW n \in Nat
  PROVE  IsFiniteSet(1 .. n) /\ Cardinality(1 .. n) = n
<1>1. IsFiniteSet(1 .. n) /\ Cardinality(1 .. n) = IF 1 > n THEN 0 ELSE n - 1 + 1
  BY FS_Interval
<1> QED BY <1>1

\* One order more is f[o] things more.
LEMMA OneOrderMore ==
  ASSUME NEW S \in SUBSET Orders, NEW o \in Orders \ S, NEW f \in [Orders -> Nat],
         IsFiniteSet(Pile(S, f))
  PROVE  /\ IsFiniteSet(Pile(S \cup {o}, f))
         /\ Cardinality(Pile(S \cup {o}, f)) = Cardinality(Pile(S, f)) + f[o]
<1> DEFINE own == {o} \X (1 .. f[o])
<1>1. Cardinality(Pile(S, f)) \in Nat
  BY FS_CardinalityType
<1>2. IsFiniteSet(own) /\ Cardinality(own) = f[o] /\ f[o] \in Nat
  <2>0. f[o] \in Nat
    OBVIOUS
  <2>1. IsFiniteSet({o}) /\ Cardinality({o}) = 1
    BY FS_Singleton
  <2>2. IsFiniteSet(1 .. f[o]) /\ Cardinality(1 .. f[o]) = f[o]
    BY <2>0, UpTo
  <2>3. IsFiniteSet(own) /\ Cardinality(own) = Cardinality({o}) * Cardinality(1 .. f[o])
    BY <2>1, <2>2, FS_Product
  <2> QED BY <2>0, <2>1, <2>2, <2>3
<1>3. Pile(S \cup {o}, f) = Pile(S, f) \cup own
  BY DEF Pile
<1>4. Cardinality(Pile(S, f) \cap own) = 0
  <2>1. Pile(S, f) \cap own = {}
    BY DEF Pile
  <2> QED BY <2>1, FS_EmptySet
<1>5. /\ IsFiniteSet(Pile(S, f) \cup own)
      /\ Cardinality(Pile(S, f) \cup own) =
           Cardinality(Pile(S, f)) + Cardinality(own) - Cardinality(Pile(S, f) \cap own)
  BY <1>2, FS_Union
<1>6. Cardinality(Pile(S, f) \cup own) = Cardinality(Pile(S, f)) + f[o]
  <2> HIDE DEF own
  <2> QED BY <1>1, <1>2, <1>4, <1>5
<1> QED BY <1>3, <1>5, <1>6

LEMMA OneOrderUnits ==
  ASSUME NEW S \in SUBSET Orders, NEW o \in Orders \ S, NEW p \in Products,
         IsFiniteSet(UnitsOf(S, p))
  PROVE  /\ IsFiniteSet(UnitsOf(S \cup {o}, p))
         /\ Cardinality(UnitsOf(S \cup {o}, p)) = Cardinality(UnitsOf(S, p)) + Qty[o][p]
<1> DEFINE f == [q \in Orders |-> Qty[q][p]]
<1>1. f \in [Orders -> Nat] /\ f[o] = Qty[o][p]
  BY OrdersAssumption
<1>2. UnitsOf(S, p) = Pile(S, f) /\ UnitsOf(S \cup {o}, p) = Pile(S \cup {o}, f)
  BY DEF UnitsOf
<1> HIDE DEF f
<1> QED BY <1>1, <1>2, OneOrderMore

\* Fewer orders are no more things.
LEMMA FewerOrders ==
  ASSUME NEW S, NEW T \in SUBSET S, NEW f, IsFiniteSet(Pile(S, f))
  PROVE  /\ IsFiniteSet(Pile(T, f))
         /\ Cardinality(Pile(T, f)) \in Nat
         /\ Cardinality(Pile(S, f)) \in Nat
         /\ Cardinality(Pile(T, f)) <= Cardinality(Pile(S, f))
<1>1. Pile(T, f) \in SUBSET Pile(S, f)
  BY DEF Pile
<1> QED BY <1>1, FS_Subset, FS_CardinalityType

\* Stock moves between the shelf and the orders that hold it, and only there.
LEMMA UnitsKeptStep ==
  ASSUME [Next]_vars, TypeOK, SagaInv,
         \A i \in Instances, o \in Orders : RestoreStock(i, o) => restored[o] = 0,
         NEW p \in Products, UnitsKept(p)
  PROVE  UnitsKept(p)'
<1> DEFINE H == {o \in Orders : deducted[o] > restored[o]}
<1>t. /\ stock \in [Products -> Nat]
      /\ deducted \in [Orders -> Nat] /\ restored \in [Orders -> Nat]
      /\ Qty \in [Orders -> [Products -> Nat]]
      /\ InitStock \in [Products -> Nat]
  BY OrdersAssumption DEF TypeOK, DatabaseOK
<1>k. /\ IsFiniteSet(UnitsOf(H, p)) /\ Cardinality(UnitsOf(H, p)) \in Nat
      /\ stock[p] + Cardinality(UnitsOf(H, p)) = InitStock[p]
  BY FS_CardinalityType DEF UnitsKept
<1>h. UnitsKept(p)' <=> /\ IsFiniteSet(UnitsOf(H', p))
                        /\ stock'[p] + Cardinality(UnitsOf(H', p)) = InitStock[p]
  BY DEF UnitsKept, UnitsOf, Pile
<1>1. CASE UNCHANGED <<stock, deducted, restored>>
  BY <1>1, <1>k, <1>h
<1>2. ASSUME NEW i \in Instances, NEW q \in Orders, DeductStock(i, q)
      PROVE  UnitsKept(p)'
  <2>1. deducted[q] = 0 /\ restored[q] = 0
    <3>1. HistoryInv(q)
      BY DEF SagaInv
    <3> QED BY <1>2, <3>1, <1>t DEF DeductStock, HistoryInv
  <2>2. deducted' = [deducted EXCEPT ![q] = @ + 1] /\ UNCHANGED restored
    BY <1>2 DEF DeductStock
  <2>3. q \notin H /\ H' = H \cup {q}
    BY <2>1, <2>2, <1>t
  <2>4. stock'[p] = stock[p] - Qty[q][p] /\ stock[p] >= Qty[q][p]
    BY <1>2, <1>t DEF DeductStock, InStock
  <2>5. /\ IsFiniteSet(UnitsOf(H \cup {q}, p))
        /\ Cardinality(UnitsOf(H \cup {q}, p)) = Cardinality(UnitsOf(H, p)) + Qty[q][p]
    <3>1. H \in SUBSET Orders /\ q \in Orders \ H
      BY <2>3
    <3> HIDE DEF H
    <3> QED BY <3>1, <1>k, OneOrderUnits
  <2> HIDE DEF H
  <2> QED BY <2>3, <2>4, <2>5, <1>k, <1>h, <1>t
<1>3. ASSUME NEW i \in Instances, NEW q \in Orders, RestoreStock(i, q)
      PROVE  UnitsKept(p)'
  <2>1. restored[q] = 0 /\ deducted[q] = 1
    <3>1. JobInv(i, "ORDER_PAYMENT", q)
      BY DEF SagaInv, EventTypes
    <3> QED BY <1>3, <3>1 DEF RestoreStock, MayRun, JobInv, Refused
  <2>2. restored' = [restored EXCEPT ![q] = @ + 1] /\ UNCHANGED deducted
    BY <1>3 DEF RestoreStock
  <2>3. q \notin H' /\ H = H' \cup {q} /\ H' \in SUBSET H /\ H' \in SUBSET Orders
    BY <2>1, <2>2, <1>t
  <2>4. stock'[p] = stock[p] + Qty[q][p]
    BY <1>3, <1>t DEF RestoreStock
  <2>5. IsFiniteSet(UnitsOf(H', p)) /\ Cardinality(UnitsOf(H', p)) \in Nat
    BY <2>3, <1>k, FewerOrders DEF UnitsOf
  <2>6. Cardinality(UnitsOf(H' \cup {q}, p)) = Cardinality(UnitsOf(H', p)) + Qty[q][p]
    BY <2>3, <2>5, OneOrderUnits
  <2> HIDE DEF H
  <2> QED BY <2>3, <2>4, <2>5, <2>6, <1>k, <1>h, <1>t
<1>4. ASSUME NEW i \in Instances, NEW q \in Orders,
             ReopenOrderCreated(i, q) \/ CreateFailedEvent(i, q)
             \/ Pay(i, q) \/ MarkPaid(i, q)
      PROVE  UNCHANGED <<stock, deducted, restored>>
  BY <1>4 DEF ReopenOrderCreated, CreateFailedEvent, Pay, MarkPaid, history
<1>5. ASSUME NEW i \in Instances, NEW t \in EventTypes, NEW q \in Orders,
             MarkSuccess(i, t, q) \/ HandleFailedEvent(i, t, q) \/ FailOrder(i, t, q)
      PROVE  UNCHANGED <<stock, deducted, restored>>
  BY <1>5 DEF MarkSuccess, HandleFailedEvent, FailOrder, history
<1>6. ASSUME NEW q \in Orders, PlaceOrder(q)
      PROVE  UNCHANGED <<stock, deducted, restored>>
  BY <1>6 DEF PlaceOrder, history
<1>7. UNCHANGED database => UNCHANGED <<stock, deducted, restored>>
  BY DEF database, history
<1> QED
  BY DatabaseCases, <1>1, <1>2, <1>3, <1>4, <1>5, <1>6, <1>7 DEF DatabaseStep

-----------------------------------------------------------------------------
\* The invariant

LEMMA InitUnitsKept ==
  ASSUME Init, NEW p \in Products
  PROVE  UnitsKept(p)
<1> DEFINE held == UnitsOf({o \in Orders : deducted[o] > restored[o]}, p)
<1>1. held = {}
  BY DEF Init, UnitsOf, Pile
<1>2. IsFiniteSet({}) /\ Cardinality({}) = 0
  BY FS_EmptySet
<1>3. stock[p] = InitStock[p] /\ InitStock[p] \in Nat
  BY OrdersAssumption DEF Init
<1>4. IsFiniteSet(held) /\ stock[p] + Cardinality(held) = InitStock[p]
  <2> HIDE DEF held
  <2> QED BY <1>1, <1>2, <1>3
<1> QED BY <1>4 DEF UnitsKept

LEMMA InitDeliveryInv == Init => DeliveryInv
<1> SUFFICES ASSUME Init
             PROVE  DeliveryInv
  OBVIOUS
<1>1. \A t \in LockedTopics : LockHeld(t)
  BY DEF Init, LockHeld
<1>2. ASSUME NEW t \in Topics, NEW k \in Partitions
      PROVE  OffsetsSound(t, k)
  <2>1. Len(log[t][k]) = 0 /\ consumed[t][k] = 0 /\ committed[t][k] = 0
    BY DEF Init
  <2> QED BY <2>1 DEF OffsetsSound
<1>3. \A i \in Instances : HandlerSound(i)
  BY DEF Init, HandlerSound
<1>4. \A o \in Orders : RowSound(o)
  BY DEF Init, RowSound, Nothing, Taken, Topics, EventTypes
<1>5. \A i \in Instances, t \in EventTypes, o \in Orders : JobSound(i, t, o)
  BY DEF Init, IdleJobs, JobSound
<1>6. \A i \in Instances, o \in Orders : RestockOnce(i, o)
  BY DEF Init, IdleJobs, RestockOnce, EventTypes
<1>7. \A p \in Products : UnitsKept(p)
  BY InitUnitsKept
<1> QED BY <1>1, <1>2, <1>3, <1>4, <1>5, <1>6, <1>7 DEF DeliveryInv

LEMMA DeliveryStep ==
  ASSUME [Next]_vars, TypeOK, SagaInv, DeliveryInv, OneInstance
  PROVE  DeliveryInv'
<1> SUFFICES ASSUME OnlyDeliveryFaults'
             PROVE  /\ \A t \in LockedTopics : LockHeld(t)'
                    /\ \A t \in Topics, k \in Partitions : OffsetsSound(t, k)'
                    /\ \A i \in Instances : HandlerSound(i)'
                    /\ \A o \in Orders : RowSound(o)'
                    /\ \A i \in Instances, t \in EventTypes, o \in Orders : JobSound(i, t, o)'
                    /\ \A i \in Instances, o \in Orders : RestockOnce(i, o)'
                    /\ \A p \in Products : UnitsKept(p)'
  BY DEF DeliveryInv
<1>0. /\ \A t \in LockedTopics : LockHeld(t)
      /\ \A t \in Topics, k \in Partitions : OffsetsSound(t, k)
      /\ \A i \in Instances : HandlerSound(i)
      /\ \A o \in Orders : RowSound(o)
      /\ \A i \in Instances, t \in EventTypes, o \in Orders : JobSound(i, t, o)
      /\ \A i \in Instances, o \in Orders : RestockOnce(i, o)
      /\ \A p \in Products : UnitsKept(p)
  BY FaultsKept DEF DeliveryInv
<1>r. \A i \in Instances, o \in Orders : RestoreStock(i, o) => restored[o] = 0
  BY <1>0 DEF RestoreStock, MayRun, RestockOnce
<1> QED
  BY <1>0, <1>r, LockStep, OffsetsStep, HandlerSoundStep, RowSoundStep, JobSoundStep,
     RestockOnceStep, UnitsKeptStep

\* One instance and faults of the delivery only: locks, offsets, rows, jobs and
\* units stay in step, so that a finished row was published, a skipped message
\* was processed, and a failed payment gives its units back once.
THEOREM DeliveryKept == OneInstance => (Spec => []DeliveryInv)
<1> SUFFICES ASSUME OneInstance
             PROVE  Spec => []DeliveryInv
  OBVIOUS
<1>1. TypeOK /\ SagaInv /\ DeliveryInv /\ [Next]_vars => DeliveryInv'
  BY DeliveryStep
<1> QED
  BY <1>1, InitDeliveryInv, TypeCorrect, EventsTruthful, PTL DEF Spec

-----------------------------------------------------------------------------
\* What follows from it

\* A published event that its topic's handler has not processed is on its way.
LEMMA StillUnderway ==
  ASSUME NEW t \in Topics, NEW o \in Orders, Published(t, o), ~Processed(t, o),
         \A k \in Partitions : OffsetsSound(t, k), TypeOK
  PROVE  Underway(t, o)
<1>1. PICK k \in Partitions : \E n \in 1 .. Len(log[t][k]) : log[t][k][n] = o
  BY DEF Published
<1>2. PICK n \in 1 .. Len(log[t][k]) : log[t][k][n] = o
  BY <1>1
<1>3. CASE n > consumed[t][k]
  <2>1. consumed[t][k] \in Nat /\ Len(log[t][k]) \in Nat
    BY DEF TypeOK, KafkaOK
  <2>2. n \in (consumed[t][k] + 1) .. Len(log[t][k])
    BY <1>3, <2>1
  <2> QED BY <1>2, <2>2 DEF Underway
<1>4. CASE \E i \in Instances, p \in {"lock", "work", "failrow"} :
             Handling(i, p, t, log[t][k][n])
  BY <1>2, <1>4 DEF Underway
<1> QED BY <1>2, <1>3, <1>4 DEF OffsetsSound

\* A published event of the saga is backed by what its order has been through.
LEMMA PublishedBacked ==
  ASSUME SagaInv, NEW t \in Topics, NEW o \in Orders, Published(t, o)
  PROVE  Backed(t, o)
  BY DEF SagaInv, MessageInv, Published

LEMMA DeliveryLosesNothing ==
  ASSUME TypeOK, SagaInv, DeliveryInv
  PROVE  NothingLost
<1> SUFFICES ASSUME OnlyDeliveryFaults, NEW o \in Orders, status[o] # "none",
                    ~Settled(o), ~Released(o)
             PROVE  Carried(o)
  BY DEF NothingLost
<1>t. /\ "ORDER_CREATED" \in Topics /\ "ORDER_DEDUCT_STOCK" \in Topics
      /\ "ORDER_PAYMENT" \in Topics
      /\ \A t \in Topics : t \in EventTypes
      /\ charged[o] \in Nat /\ deducted[o] \in Nat
      /\ \A t \in EventTypes : outbox[t][o] \in {"none", "INIT", "SUCCESS", "FAIL"}
  BY DEF Topics, EventTypes, EventStatus, TypeOK, DatabaseOK
<1>h. HistoryInv(o) /\ RowSound(o)
  BY DEF SagaInv, DeliveryInv
<1>s. status[o] # "PAID" /\ status[o] # "FAILED" /\ ~(restored[o] > 0)
  BY DEF Settled, Released
\* A row that is there is pending, was refused, or was published; and once its
\* message is processed the row of the next event is there.
<1>r. ASSUME NEW t \in Topics, Taken(t, o)
      PROVE  \/ Underway(t, o)
             \/ outbox[t][o] = "FAIL" /\ Refused(t, o)
             \/ outbox[t][o] = "SUCCESS" /\ Backed(t, o) /\ Taken(NextEvent(t), o)
  <2>1. CASE outbox[t][o] = "INIT"
    BY <2>1 DEF Underway
  <2>2. CASE outbox[t][o] = "FAIL"
    BY <2>2, <1>t DEF SagaInv, RowInv
  <2>3. CASE outbox[t][o] = "SUCCESS"
    <3>1. ~Compensated(t, o)
      BY <1>s DEF Compensated
    <3>2. Published(t, o)
      BY <2>3, <3>1, <1>h DEF RowSound
    <3>3. CASE Processed(t, o)
      BY <2>3, <3>2, <3>3, PublishedBacked DEF Processed
    <3>4. CASE ~Processed(t, o)
      BY <3>2, <3>4, StillUnderway DEF DeliveryInv
    <3> QED BY <3>3, <3>4
  <2> QED BY <1>r, <1>t, <2>1, <2>2, <2>3 DEF Taken
<1>1. CASE charged[o] > 0
  <2>1. charged[o] = 1 /\ deducted[o] = 1 /\ Taken("ORDER_PAYMENT", o)
    BY <1>1, <1>h, <1>t DEF HistoryInv
  <2>2. ~Taken("ORDER_SUCCESS", o)
    BY <1>h, <1>s DEF RowSound
  <2>3. ~Refused("ORDER_PAYMENT", o)
    BY <2>1 DEF Refused
  <2>4. Underway("ORDER_PAYMENT", o)
    BY <1>r, <1>t, <2>1, <2>2, <2>3 DEF NextEvent
  <2>5. charged[o] > 0 /\ charged[o] # 0 /\ deducted[o] # 0
    BY <2>1
  <2> QED BY <2>4, <2>5 DEF Carried
<1>2. CASE charged[o] = 0 /\ deducted[o] > 0
  <2>1. deducted[o] = 1 /\ Taken("ORDER_DEDUCT_STOCK", o)
    BY <1>2, <1>h, <1>t DEF HistoryInv
  <2>2. ~Refused("ORDER_DEDUCT_STOCK", o)
    BY <2>1 DEF Refused
  <2>3. ASSUME Taken("ORDER_PAYMENT", o)
        PROVE  outbox["ORDER_PAYMENT"][o] = "FAIL"
    <3>1. ~Backed("ORDER_PAYMENT", o)
      BY <1>2 DEF Backed
    <3>2. outbox["ORDER_PAYMENT"][o] # "INIT"
      BY <3>1, <1>t DEF SagaInv, RowInv
    <3>3. outbox["ORDER_PAYMENT"][o] # "SUCCESS"
      <4>1. ~Compensated("ORDER_PAYMENT", o)
        BY <1>s DEF Compensated
      <4> QED BY <3>1, <4>1, <1>h, <1>t, PublishedBacked DEF RowSound
    <3> QED BY <2>3, <3>2, <3>3, <1>t DEF Taken
  <2>4. Underway("ORDER_DEDUCT_STOCK", o) \/ outbox["ORDER_PAYMENT"][o] = "FAIL"
    BY <1>r, <1>t, <2>1, <2>2, <2>3 DEF NextEvent
  <2>5. ~(charged[o] > 0) /\ charged[o] = 0 /\ deducted[o] > 0 /\ deducted[o] # 0
    BY <1>2, <1>t
  <2> QED BY <2>4, <2>5 DEF Carried
<1>3. CASE charged[o] = 0 /\ deducted[o] = 0
  <2>1. Taken("ORDER_CREATED", o)
    BY <1>h DEF RowSound
  <2>2. ~Refused("ORDER_CREATED", o)
    BY DEF Refused
  <2>3. ASSUME Taken("ORDER_DEDUCT_STOCK", o)
        PROVE  outbox["ORDER_DEDUCT_STOCK"][o] = "FAIL"
    <3>1. ~Backed("ORDER_DEDUCT_STOCK", o)
      BY <1>3 DEF Backed
    <3>2. outbox["ORDER_DEDUCT_STOCK"][o] # "INIT"
      BY <3>1, <1>t DEF SagaInv, RowInv
    <3>3. outbox["ORDER_DEDUCT_STOCK"][o] # "SUCCESS"
      <4>1. ~Compensated("ORDER_DEDUCT_STOCK", o)
        BY <1>s DEF Compensated
      <4> QED BY <3>1, <4>1, <1>h, <1>t, PublishedBacked DEF RowSound
    <3> QED BY <2>3, <3>2, <3>3, <1>t DEF Taken
  <2>4. Underway("ORDER_CREATED", o) \/ outbox["ORDER_DEDUCT_STOCK"][o] = "FAIL"
    BY <1>r, <1>t, <2>1, <2>2, <2>3 DEF NextEvent
  <2> QED BY <1>3, <2>4 DEF Carried
<1> QED BY <1>1, <1>2, <1>3, <1>t

\* A charged order holds its stock, so what was sold is part of what is held.
LEMMA SoldIsHeld ==
  ASSUME TypeOK, SagaInv, NEW p \in Products, UnitsKept(p)
  PROVE  stock[p] + Sold(p) <= InitStock[p]
<1> DEFINE held == {o \in Orders : deducted[o] > restored[o]}
           sold == {o \in Orders : charged[o] > 0}
<1>1. sold \in SUBSET held
  <2> SUFFICES ASSUME NEW o \in Orders, charged[o] > 0
               PROVE  deducted[o] > restored[o]
    OBVIOUS
  <2>1. HistoryInv(o)
    BY DEF SagaInv
  <2> QED BY <2>1 DEF HistoryInv
<1>2. /\ IsFiniteSet(UnitsOf(held, p))
      /\ stock[p] + Cardinality(UnitsOf(held, p)) = InitStock[p]
  BY DEF UnitsKept
<1>3. stock[p] \in Nat /\ InitStock[p] \in Nat
  BY OrdersAssumption DEF TypeOK, DatabaseOK
<1> HIDE DEF held, sold
<1>4. /\ Cardinality(UnitsOf(sold, p)) \in Nat /\ Cardinality(UnitsOf(held, p)) \in Nat
      /\ Cardinality(UnitsOf(sold, p)) <= Cardinality(UnitsOf(held, p))
  BY <1>1, <1>2, FewerOrders DEF UnitsOf
<1> QED BY <1>2, <1>3, <1>4 DEF Sold, sold

\* With one instance, a rebalance, a lease that ends early and a lost or repeated
\* answer of Kafka lose no order: an unsettled one has a pending row, an unread
\* message, a handler at work or a failed event to compensate.
THEOREM NoOrderLost == OneInstance => (Spec => []NothingLost)
<1> SUFFICES ASSUME OneInstance
             PROVE  Spec => []NothingLost
  OBVIOUS
<1>1. TypeOK /\ SagaInv /\ DeliveryInv => NothingLost
  BY DeliveryLosesNothing
<1>2. Spec => []DeliveryInv
  BY DeliveryKept
<1> QED BY <1>1, <1>2, TypeCorrect, EventsTruthful, PTL

\* Under the same faults no redelivered, republished or compensated event sells
\* a unit that is not there: shelf and sales never exceed the initial stock.
THEOREM NeverOversold == OneInstance => (Spec => []NoOversell)
<1> SUFFICES ASSUME OneInstance
             PROVE  Spec => []NoOversell
  OBVIOUS
<1>1. TypeOK /\ SagaInv /\ DeliveryInv => NoOversell
  BY SoldIsHeld DEF DeliveryInv, NoOversell
<1>2. Spec => []DeliveryInv
  BY DeliveryKept
<1> QED BY <1>1, <1>2, TypeCorrect, EventsTruthful, PTL

-----------------------------------------------------------------------------
(***************************************************************************)
(* The books of the shelf and of the wallets, with any number of instances *)
(* and any faults, and the refinements of AtomicStock and AtomicWallet.    *)
(***************************************************************************)

\* The steps that move units or points, or enter what became of a transaction.
BookStep ==
  \E i \in Instances, q \in Orders :
    \/ DeductStock(i, q)
    \/ RestoreStock(i, q)
    \/ Pay(i, q)
    \/ CreateFailedEvent(i, q) /\ ~Taken(NextEvent(msg[i].topic), q)

\* What the books are made of, but for the values of rows that stay.
Books == <<stock, balance, deducted, restored, charged>>

KeepsRows == \A t \in {"ORDER_DEDUCT_STOCK", "ORDER_PAYMENT"}, o \in Orders : Taken(t, o)' <=> Taken(t, o)

LEMMA BookCases ==
  ASSUME [Next]_vars, TypeOK, SagaInv
  PROVE  BookStep \/ (UNCHANGED Books /\ KeepsRows)
<1> DEFINE Goal == BookStep \/ (UNCHANGED Books /\ KeepsRows)
<1>0. UNCHANGED <<outbox, Books>> => Goal
  BY DEF KeepsRows, Taken, Books
<1>1. ASSUME NEW t \in EventTypes, NEW o \in Orders, NEW s \in EventStatus, SetRow(t, o, s),
             Taken(t, o) \/ t \notin {"ORDER_DEDUCT_STOCK", "ORDER_PAYMENT"}
      PROVE  KeepsRows
  <2>1. \A u \in EventTypes, q \in Orders :
          outbox'[u][q] = IF u = t /\ q = o THEN s ELSE outbox[u][q]
    BY <1>1, RowAfterSet, Columns
  <2>2. s # "none"
    BY <1>1, Columns
  <2> QED BY <1>1, <2>1, <2>2, Columns DEF KeepsRows, Taken
<1>2. ASSUME NEW o \in Orders, PlaceOrder(o) PROVE Goal
  BY <1>1, <1>2, Columns DEF PlaceOrder, Books, history
<1>3. ASSUME NEW i \in Instances, NEW o \in Orders, ReopenOrderCreated(i, o) \/ MarkPaid(i, o)
      PROVE  Goal
  BY <1>1, <1>3, Columns DEF ReopenOrderCreated, MarkPaid, Books, history
<1>4. ASSUME NEW i \in Instances, NEW o \in Orders, CreateFailedEvent(i, o)
      PROVE  Goal
  <2>1. CASE Taken(NextEvent(msg[i].topic), o)
    BY <1>0, <1>4, <2>1 DEF CreateFailedEvent, Books, history
  <2>2. CASE ~Taken(NextEvent(msg[i].topic), o)
    BY <1>4, <2>2 DEF BookStep
  <2> QED BY <2>1, <2>2
<1>5. ASSUME NEW i \in Instances, NEW t \in EventTypes, NEW o \in Orders,
             MarkSuccess(i, t, o) \/ HandleFailedEvent(i, t, o)
      PROVE  Goal
  <2>1. Taken(t, o)
    BY <1>5 DEF MarkSuccess, HandleFailedEvent, SagaInv, JobInv
  <2>2. KeepsRows
    BY <1>1, <1>5, <2>1, Columns DEF MarkSuccess, HandleFailedEvent
  <2> QED BY <1>5, <2>2 DEF MarkSuccess, HandleFailedEvent, Books, history
<1>6. ASSUME NEW i \in Instances, NEW t \in EventTypes, NEW o \in Orders, FailOrder(i, t, o)
      PROVE  Goal
  BY <1>0, <1>6 DEF FailOrder, Books, history
<1>7. UNCHANGED database => Goal
  BY <1>0 DEF database, Books, history
<1>8. ASSUME NEW i \in Instances, NEW o \in Orders, DeductStock(i, o) \/ RestoreStock(i, o) \/ Pay(i, o)
      PROVE  Goal
  BY <1>8 DEF BookStep
<1> QED BY <1>2, <1>3, <1>4, <1>5, <1>6, <1>7, <1>8, DatabaseCases DEF DatabaseStep

\* A row of the failed event is entered by the handler of the step before.
LEMMA FailedRow ==
  ASSUME TypeOK, SagaInv, NEW i \in Instances, NEW q \in Orders,
         CreateFailedEvent(i, q), ~Taken(NextEvent(msg[i].topic), q)
  PROVE  /\ UNCHANGED Books
         /\ \E t \in {"ORDER_DEDUCT_STOCK", "ORDER_PAYMENT"} :
              /\ ~Taken(t, q)
              /\ \A u \in EventTypes, o \in Orders :
                   Taken(u, o)' <=> Taken(u, o) \/ (u = t /\ o = q)
<1> DEFINE t == NextEvent(msg[i].topic)
<1>1. msg[i].topic \in LockedTopics
  BY DEF CreateFailedEvent, SagaInv, HandlerInv
<1>2. t \in {"ORDER_DEDUCT_STOCK", "ORDER_PAYMENT"}
  BY <1>1 DEF LockedTopics, NextEvent
<1> HIDE DEF t
<1>3. SetRow(t, q, "FAIL") /\ UNCHANGED Books /\ ~Taken(t, q)
  BY DEF CreateFailedEvent, Books, history, t
<1>4. \A u \in EventTypes, o \in Orders :
        outbox'[u][o] = IF u = t /\ o = q THEN "FAIL" ELSE outbox[u][o]
  <2>1. t \in EventTypes
    BY <1>2, Columns
  <2> QED BY <2>1, <1>3, RowAfterSet, Columns
<1>5. \A u \in EventTypes, o \in Orders : Taken(u, o)' <=> Taken(u, o) \/ (u = t /\ o = q)
  BY <1>4 DEF Taken
<1> QED BY <1>2, <1>3, <1>5

\* The row an action writes with its change.
LEMMA NewRow ==
  ASSUME TypeOK, NEW t \in EventTypes, NEW q \in Orders, SetRow(t, q, "INIT")
  PROVE  \A u \in EventTypes, o \in Orders : Taken(u, o)' <=> Taken(u, o) \/ (u = t /\ o = q)
<1>1. \A u \in EventTypes, o \in Orders :
        outbox'[u][o] = IF u = t /\ o = q THEN "INIT" ELSE outbox[u][o]
  BY RowAfterSet, Columns
<1> QED BY <1>1 DEF Taken

-----------------------------------------------------------------------------
\* The wallets

LEMMA PaymentsMove ==
  ASSUME TypeOK, NEW u \in Users, NEW q \in OrdersOf(u), NEW r,
         Result(charged[q], "ORDER_PAYMENT", q)' = r,
         \A o \in Orders \ {q} : /\ charged'[o] = charged[o]
                                 /\ Taken("ORDER_PAYMENT", o)' <=> Taken("ORDER_PAYMENT", o)
  PROVE  PaymentsOf(u)' = [PaymentsOf(u) EXCEPT ![q] = r]
<1>1. \A o \in OrdersOf(u) \ {q} :
        Result(charged[o], "ORDER_PAYMENT", o)' = Result(charged[o], "ORDER_PAYMENT", o)
  BY DEF Result, OrdersOf
<1>2. OrdersOf(u)' = OrdersOf(u)
  BY DEF OrdersOf
<1> QED BY <1>1, <1>2 DEF PaymentsOf

LEMMA PaymentsStay ==
  ASSUME NEW u \in Users,
         \A o \in OrdersOf(u) : /\ charged'[o] = charged[o]
                                /\ Taken("ORDER_PAYMENT", o)' <=> Taken("ORDER_PAYMENT", o)
  PROVE  UNCHANGED PaymentsOf(u)
<1>1. \A o \in OrdersOf(u) :
        Result(charged[o], "ORDER_PAYMENT", o)' = Result(charged[o], "ORDER_PAYMENT", o)
  BY DEF Result
<1>2. OrdersOf(u)' = OrdersOf(u)
  BY DEF OrdersOf
<1> QED BY <1>1, <1>2 DEF PaymentsOf

\* A payment takes effect where it commits, is refused where its failed event is
\* entered; everything else leaves the wallet as it is.
LEMMA PurseStep ==
  ASSUME TypeOK, SagaInv, [Next]_vars, NEW u \in Users
  PROVE  UNCHANGED <<balance[u], PaymentsOf(u)>> \/ Purse(u)!Next
<1>t. /\ balance \in [Users -> Nat] /\ charged \in [Orders -> Nat]
      /\ UserOf \in [Orders -> Users] /\ Amount \in [Orders -> Nat]
      /\ "ORDER_PAYMENT" \in EventTypes /\ "ORDER_DEDUCT_STOCK" \in EventTypes
  BY OrdersAssumption DEF TypeOK, DatabaseOK, EventTypes
<1>o. OrdersOf(u) \in SUBSET Orders
  BY DEF OrdersOf
<1>1. CASE UNCHANGED Books /\ KeepsRows
  BY <1>1, <1>o, PaymentsStay DEF Books, KeepsRows
<1>2. ASSUME NEW i \in Instances, NEW q \in Orders, DeductStock(i, q)
      PROVE  UNCHANGED <<balance[u], PaymentsOf(u)>>
  <2>1. UNCHANGED <<balance, charged>> /\ SetRow("ORDER_DEDUCT_STOCK", q, "INIT")
    BY <1>2 DEF DeductStock
  <2> QED BY <2>1, <1>t, <1>o, NewRow, PaymentsStay
<1>3. ASSUME NEW i \in Instances, NEW q \in Orders, RestoreStock(i, q)
      PROVE  UNCHANGED <<balance[u], PaymentsOf(u)>>
  <2>1. UNCHANGED <<balance, charged, outbox>>
    BY <1>3 DEF RestoreStock
  <2> QED BY <2>1, <1>o, PaymentsStay DEF Taken
<1>4. ASSUME NEW i \in Instances, NEW q \in Orders, Pay(i, q)
      PROVE  UNCHANGED <<balance[u], PaymentsOf(u)>> \/ Purse(u)!Next
  <2>1. /\ ~Taken("ORDER_PAYMENT", q) /\ charged[q] = 0
        /\ balance[UserOf[q]] >= Amount[q]
        /\ balance' = [balance EXCEPT ![UserOf[q]] = @ - Amount[q]]
        /\ charged' = [charged EXCEPT ![q] = @ + 1]
        /\ SetRow("ORDER_PAYMENT", q, "INIT")
    <3>1. HistoryInv(q)
      BY DEF SagaInv
    <3> QED BY <1>4, <3>1 DEF Pay, Payable, HistoryInv
  <2>2. \A o \in Orders \ {q} : /\ charged'[o] = charged[o]
                                /\ Taken("ORDER_PAYMENT", o)' <=> Taken("ORDER_PAYMENT", o)
    BY <2>1, <1>t, NewRow
  <2>3. CASE UserOf[q] = u
    <3>1. q \in OrdersOf(u)
      BY <2>3 DEF OrdersOf
    <3>2. Result(charged[q], "ORDER_PAYMENT", q)' = "done"
      BY <2>1, <1>t DEF Result
    <3>3. PaymentsOf(u)' = [PaymentsOf(u) EXCEPT ![q] = "done"]
      BY <2>2, <3>1, <3>2, PaymentsMove
    <3>4. PaymentsOf(u)[q] = "none"
      BY <2>1, <3>1 DEF PaymentsOf, Result
    <3>5. balance[u] >= Amount[q] /\ balance'[u] = balance[u] - Amount[q]
      BY <2>1, <2>3, <1>t
    <3>6. Purse(u)!Pay(q)
      BY <3>1, <3>3, <3>4, <3>5 DEF Purse!Pay, Purse!End
    <3> QED BY <3>1, <3>6 DEF Purse!Next, Purse!Requests
  <2>4. CASE UserOf[q] # u
    <3>1. q \notin OrdersOf(u) /\ balance'[u] = balance[u]
      BY <2>1, <2>4, <1>t DEF OrdersOf
    <3> QED BY <2>2, <3>1, <1>o, PaymentsStay
  <2> QED BY <2>3, <2>4
<1>5. ASSUME NEW i \in Instances, NEW q \in Orders,
             CreateFailedEvent(i, q), ~Taken(NextEvent(msg[i].topic), q)
      PROVE  UNCHANGED <<balance[u], PaymentsOf(u)>> \/ Purse(u)!Next
  <2>1. PICK t \in {"ORDER_DEDUCT_STOCK", "ORDER_PAYMENT"} :
          /\ UNCHANGED Books
          /\ ~Taken(t, q)
          /\ \A v \in EventTypes, o \in Orders : Taken(v, o)' <=> Taken(v, o) \/ (v = t /\ o = q)
    BY <1>5, FailedRow
  <2>2. CASE t = "ORDER_PAYMENT" /\ UserOf[q] = u
    <3>1. q \in OrdersOf(u) /\ ~(charged[q] > 0)
      <4>1. HistoryInv(q)
        BY DEF SagaInv
      <4> QED BY <2>1, <2>2, <4>1, <1>t DEF OrdersOf, HistoryInv
    <3>2. Result(charged[q], "ORDER_PAYMENT", q)' = "failed"
      BY <2>1, <2>2, <3>1, <1>t DEF Result, Books
    <3>3. PaymentsOf(u)' = [PaymentsOf(u) EXCEPT ![q] = "failed"]
      BY <2>1, <2>2, <3>1, <3>2, <1>t, PaymentsMove DEF Books
    <3>4. PaymentsOf(u)[q] = "none"
      BY <2>1, <2>2, <3>1 DEF PaymentsOf, Result
    <3>5. Purse(u)!Fail(q)
      BY <2>1, <3>3, <3>4 DEF Purse!Fail, Purse!End, Books
    <3> QED BY <3>1, <3>5 DEF Purse!Next, Purse!Requests
  <2>3. CASE t # "ORDER_PAYMENT" \/ UserOf[q] # u
    <3>1. \A o \in OrdersOf(u) : /\ charged'[o] = charged[o]
                                 /\ Taken("ORDER_PAYMENT", o)' <=> Taken("ORDER_PAYMENT", o)
      BY <2>1, <2>3, <1>t DEF OrdersOf, Books
    <3> QED BY <2>1, <3>1, PaymentsStay DEF Books
  <2> QED BY <2>2, <2>3
<1> QED BY <1>1, <1>2, <1>3, <1>4, <1>5, BookCases DEF BookStep

LEMMA PurseInit ==
  ASSUME Init, NEW u \in Users
  PROVE  Purse(u)!Init
  BY DEF Init, Purse!Init, Purse!Requests, PaymentsOf, OrdersOf, Result, Taken, Nothing, EventTypes

\* processOrderPayment: towards every user the saga is an AtomicWallet, with any
\* number of instances and any faults: a payment takes effect once and in full, from
\* points that were there, or not at all; one that was refused is never made.
THEOREM WalletsAtomic == Spec => ImplementsAtomicWallets
<1>1. Init => \A u \in Users : Purse(u)!Init
  BY PurseInit
<1>2. TypeOK /\ SagaInv /\ [Next]_vars =>
        [\A u \in Users : UNCHANGED <<balance[u], PaymentsOf(u)>> \/ Purse(u)!Next]_vars
  BY PurseStep
<1> QED BY <1>1, <1>2, TypeCorrect, EventsTruthful, PTL DEF Spec, ImplementsAtomicWallets

-----------------------------------------------------------------------------
\* The shelf

\* The row of a deduction is the only one that is read into StockResults.
LEMMA ResultsStay ==
  ASSUME UNCHANGED <<deducted, restored>>,
         \A o \in Orders : Taken("ORDER_DEDUCT_STOCK", o)' <=> Taken("ORDER_DEDUCT_STOCK", o)
  PROVE  UNCHANGED StockResults
  BY DEF StockResults, StockSteps, Result

LEMMA ResultsMove ==
  ASSUME NEW s \in StockSteps, NEW r,
         StockResults'[s] = r,
         \A z \in StockSteps \ {s} : StockResults'[z] = StockResults[z]
  PROVE  StockResults' = [StockResults EXCEPT ![s] = r]
<1>1. StockResults' = [z \in StockSteps |-> StockResults'[z]]
  BY DEF StockResults, StockSteps
<1> QED BY <1>1 DEF StockResults

\* A deduction or a restoration takes effect where it commits, a deduction is
\* refused where its failed event is entered.
LEMMA ShelfStep ==
  ASSUME TypeOK, SagaInv, [Next]_vars, NoneRestockedTwice'
  PROVE  UNCHANGED <<stock, StockResults>> \/ Shelf!Next
<1>t. /\ stock \in [Products -> Nat] /\ charged \in [Orders -> Nat]
      /\ deducted \in [Orders -> Nat] /\ restored \in [Orders -> Nat]
      /\ Qty \in [Orders -> [Products -> Nat]]
      /\ "ORDER_PAYMENT" \in EventTypes /\ "ORDER_DEDUCT_STOCK" \in EventTypes
  BY OrdersAssumption DEF TypeOK, DatabaseOK, EventTypes
<1>s. \A q \in Orders : <<"deduct", q>> \in StockSteps /\ <<"restore", q>> \in StockSteps
  BY DEF StockSteps
<1>x. Shelf!Txs = StockSteps
  BY DEF Shelf!Txs, StockSteps
<1>d. \A q \in Orders : StockResults[<<"deduct", q>>] = Result(deducted[q], "ORDER_DEDUCT_STOCK", q)
  BY <1>s DEF StockResults
<1>r. \A q \in Orders :
        StockResults[<<"restore", q>>] = IF restored[q] > 0 THEN "done" ELSE "none"
  BY <1>s DEF StockResults
<1>D. \A q \in Orders : StockResults'[<<"deduct", q>>] = Result(deducted[q], "ORDER_DEDUCT_STOCK", q)'
  BY <1>s DEF StockResults, StockSteps, Result
<1>R. \A q \in Orders :
        StockResults'[<<"restore", q>>] = IF restored'[q] > 0 THEN "done" ELSE "none"
  BY <1>s DEF StockResults, StockSteps
<1>S. \A s \in StockSteps : \E q \in Orders : s = <<"deduct", q>> \/ s = <<"restore", q>>
  BY DEF StockSteps
<1>1. CASE UNCHANGED Books /\ KeepsRows
  BY <1>1, ResultsStay DEF Books, KeepsRows
<1>2. ASSUME NEW i \in Instances, NEW q \in Orders, DeductStock(i, q)
      PROVE  Shelf!Next
  <2> DEFINE s == <<"deduct", q>>
  <2>1. /\ ~Taken("ORDER_DEDUCT_STOCK", q) /\ deducted[q] = 0
        /\ InStock(q)
        /\ stock' = [p \in Products |-> stock[p] - Qty[q][p]]
        /\ deducted' = [deducted EXCEPT ![q] = @ + 1] /\ UNCHANGED restored
        /\ SetRow("ORDER_DEDUCT_STOCK", q, "INIT")
    <3>1. HistoryInv(q)
      BY DEF SagaInv
    <3> QED BY <1>2, <3>1 DEF DeductStock, HistoryInv
  <2>2. \A o \in Orders : Taken("ORDER_DEDUCT_STOCK", o)' <=> Taken("ORDER_DEDUCT_STOCK", o) \/ o = q
    BY <2>1, <1>t, NewRow
  <2>3. StockResults[s] = "none"
    BY <2>1, <1>d DEF Result
  <2>4. StockResults'[s] = "done"
    BY <2>1, <1>t, <1>D DEF Result
  <2>5. \A z \in StockSteps \ {s} : StockResults'[z] = StockResults[z]
    <3>1. \A o \in Orders \ {q} : StockResults'[<<"deduct", o>>] = StockResults[<<"deduct", o>>]
      BY <2>1, <2>2, <1>t, <1>d, <1>D DEF Result
    <3>2. \A o \in Orders : StockResults'[<<"restore", o>>] = StockResults[<<"restore", o>>]
      BY <2>1, <1>r, <1>R
    <3> QED BY <3>1, <3>2, <1>S
  <2>6. Shelf!End(s, "done")
    BY <2>3, <2>4, <2>5, <1>s, ResultsMove DEF Shelf!End
  <2>7. Shelf!InStock(s) /\ stock' = [p \in Products |-> stock[p] - [z \in StockSteps |-> Qty[z[2]]][s][p]]
    BY <2>1, <1>s DEF Shelf!InStock, InStock
  <2>8. Shelf!Deduct(s)
    BY <2>6, <2>7 DEF Shelf!Deduct
  <2> QED BY <2>8, <1>s, <1>x DEF Shelf!Next
<1>3. ASSUME NEW i \in Instances, NEW q \in Orders, RestoreStock(i, q)
      PROVE  Shelf!Next
  <2> DEFINE s == <<"restore", q>>
  <2>1. /\ stock' = [p \in Products |-> stock[p] + Qty[q][p]]
        /\ restored' = [restored EXCEPT ![q] = @ + 1]
        /\ UNCHANGED <<deducted, outbox>>
    BY <1>3 DEF RestoreStock
  <2>2. restored[q] = 0 /\ restored'[q] = 1
    BY <2>1, <1>t DEF NoneRestockedTwice
  <2>3. StockResults[s] = "none" /\ StockResults'[s] = "done"
    BY <2>2, <1>r, <1>R
  <2>5. \A z \in StockSteps \ {s} : StockResults'[z] = StockResults[z]
    <3>1. \A o \in Orders : StockResults'[<<"deduct", o>>] = StockResults[<<"deduct", o>>]
      BY <2>1, <1>d, <1>D DEF Result, Taken
    <3>2. \A o \in Orders \ {q} : StockResults'[<<"restore", o>>] = StockResults[<<"restore", o>>]
      BY <2>1, <1>t, <1>r, <1>R
    <3> QED BY <3>1, <3>2, <1>S
  <2>6. Shelf!End(s, "done")
    BY <2>3, <2>5, <1>s, ResultsMove DEF Shelf!End
  <2>7. stock' = [p \in Products |-> stock[p] + [z \in StockSteps |-> Qty[z[2]]][s][p]]
    BY <2>1, <1>s
  <2>8. Shelf!Restore(s)
    BY <2>6, <2>7 DEF Shelf!Restore
  <2> QED BY <2>8, <1>s, <1>x DEF Shelf!Next
<1>4. ASSUME NEW i \in Instances, NEW q \in Orders, Pay(i, q)
      PROVE  UNCHANGED <<stock, StockResults>>
  <2>1. UNCHANGED <<stock, deducted, restored>> /\ SetRow("ORDER_PAYMENT", q, "INIT")
    BY <1>4 DEF Pay
  <2> QED BY <2>1, <1>t, NewRow, ResultsStay
<1>5. ASSUME NEW i \in Instances, NEW q \in Orders,
             CreateFailedEvent(i, q), ~Taken(NextEvent(msg[i].topic), q)
      PROVE  UNCHANGED <<stock, StockResults>> \/ Shelf!Next
  <2>1. PICK t \in {"ORDER_DEDUCT_STOCK", "ORDER_PAYMENT"} :
          /\ UNCHANGED Books
          /\ ~Taken(t, q)
          /\ \A v \in EventTypes, o \in Orders : Taken(v, o)' <=> Taken(v, o) \/ (v = t /\ o = q)
    BY <1>5, FailedRow
  <2>2. CASE t = "ORDER_DEDUCT_STOCK"
    <3> DEFINE s == <<"deduct", q>>
    <3>1. ~(deducted[q] > 0)
      <4>1. HistoryInv(q)
        BY DEF SagaInv
      <4> QED BY <2>1, <2>2, <4>1, <1>t DEF HistoryInv
    <3>2. StockResults[s] = "none"
      BY <2>1, <2>2, <3>1, <1>d DEF Result
    <3>3. StockResults'[s] = "failed"
      BY <2>1, <2>2, <3>1, <1>t, <1>D DEF Result, Books
    <3>4. \A z \in StockSteps \ {s} : StockResults'[z] = StockResults[z]
      <4>1. \A o \in Orders \ {q} : StockResults'[<<"deduct", o>>] = StockResults[<<"deduct", o>>]
        BY <2>1, <1>t, <1>d, <1>D DEF Result, Books
      <4>2. \A o \in Orders : StockResults'[<<"restore", o>>] = StockResults[<<"restore", o>>]
        BY <2>1, <1>r, <1>R DEF Books
      <4> QED BY <4>1, <4>2, <1>S
    <3>5. Shelf!End(s, "failed")
      BY <3>2, <3>3, <3>4, <1>s, ResultsMove DEF Shelf!End
    <3>6. Shelf!Fail(s)
      BY <2>1, <3>5 DEF Shelf!Fail, Books
    <3> QED BY <3>6, <1>s, <1>x DEF Shelf!Next
  <2>3. CASE t # "ORDER_DEDUCT_STOCK"
    BY <2>1, <2>3, <1>t, ResultsStay DEF Books
  <2> QED BY <2>2, <2>3
<1> QED BY <1>1, <1>2, <1>3, <1>4, <1>5, BookCases DEF BookStep

LEMMA ShelfInit ==
  ASSUME Init
  PROVE  Shelf!Init
<1>1. StockResults = [s \in StockSteps |-> "none"]
  BY DEF Init, StockResults, StockSteps, Result, Taken, Nothing, EventTypes
<1> QED BY <1>1 DEF Init, Shelf!Init, Shelf!Txs, StockSteps

\* processOrderDeductStock and restoreStock: with any number of instances and any
\* faults the shelf is an AtomicStock, all the lines of an order or none, as long as
\* no order is restocked twice.
THEOREM ShelfAtomic == Spec => ImplementsAtomicStock
<1>1. Init => Shelf!Init
  BY ShelfInit
<1>2. TypeOK /\ SagaInv /\ [Next]_vars =>
        [NoneRestockedTwice' => UNCHANGED <<stock, StockResults>> \/ Shelf!Next]_vars
  BY ShelfStep
<1> QED BY <1>1, <1>2, TypeCorrect, EventsTruthful, PTL DEF Spec, ImplementsAtomicStock

-----------------------------------------------------------------------------
\* What the shelf and the wallets add up to

LEMMA ShelfKept ==
  ASSUME TypeOK, SagaInv, [Next]_vars, ShelfInv
  PROVE  ShelfInv'
<1> SUFFICES ASSUME NoneRestockedTwice', NEW p \in Products
             PROVE  UnitsKept(p)'
  BY DEF ShelfInv
<1>1. NoneRestockedTwice
  <2>1. restored' \in [Orders -> Nat] /\ restored \in [Orders -> Nat]
    BY StepTypeOK DEF TypeOK, DatabaseOK
  <2>2. \A o \in Orders : restored'[o] >= restored[o]
    BY RestoredGrows
  <2> QED BY <2>1, <2>2 DEF NoneRestockedTwice
<1>2. \A i \in Instances, o \in Orders : RestoreStock(i, o) => restored[o] = 0
  BY Columns DEF RestoreStock, NoneRestockedTwice
<1>3. UnitsKept(p)
  BY <1>1 DEF ShelfInv
<1> QED BY <1>2, <1>3, UnitsKeptStep

\* The inductive invariant behind the next theorem.
LEMMA ShelfInvHolds == Spec => []ShelfInv
<1>1. Init => ShelfInv
  BY InitUnitsKept DEF ShelfInv
<1>2. TypeOK /\ SagaInv /\ ShelfInv /\ [Next]_vars => ShelfInv'
  BY ShelfKept
<1> QED BY <1>1, <1>2, TypeCorrect, EventsTruthful, PTL DEF Spec

\* With any number of instances and any faults, an order that is restocked twice
\* (restoreStock retried after a lost answer, or by two pollers) is the only way to
\* sell units that are not there.
THEOREM OversellingNeedsRestocking == Spec => []OversoldOnlyByRestocking
<1>1. TypeOK /\ SagaInv /\ ShelfInv => OversoldOnlyByRestocking
  BY SoldIsHeld DEF ShelfInv, OversoldOnlyByRestocking
<1> QED BY <1>1, ShelfInvHolds, TypeCorrect, EventsTruthful, PTL

\* Only a payment touches a wallet and the count of charges.
LEMMA ChargedCases ==
  ASSUME [Next]_vars, TypeOK, SagaInv
  PROVE  \/ UNCHANGED <<balance, charged>>
         \/ \E i \in Instances, q \in Orders : Pay(i, q)
<1>1. CASE UNCHANGED Books
  BY <1>1 DEF Books
<1>2. ASSUME NEW i \in Instances, NEW q \in Orders, DeductStock(i, q) \/ RestoreStock(i, q)
      PROVE  UNCHANGED <<balance, charged>>
  BY <1>2 DEF DeductStock, RestoreStock
<1>3. ASSUME NEW i \in Instances, NEW q \in Orders, CreateFailedEvent(i, q)
      PROVE  UNCHANGED <<balance, charged>>
  BY <1>3 DEF CreateFailedEvent, history
<1> QED BY <1>1, <1>2, <1>3, BookCases DEF BookStep

LEMMA PointsKeptStep ==
  ASSUME TypeOK, SagaInv, [Next]_vars, NEW u \in Users, PointsKept(u)
  PROVE  PointsKept(u)'
<1> DEFINE S == {o \in OrdersOf(u) : charged[o] > 0}
<1>t. /\ balance \in [Users -> Nat] /\ charged \in [Orders -> Nat]
      /\ UserOf \in [Orders -> Users] /\ Amount \in [Orders -> Nat]
      /\ InitBalance[u] \in Nat
  BY OrdersAssumption DEF TypeOK, DatabaseOK
<1>k. /\ IsFiniteSet(PointsOf(S)) /\ Cardinality(PointsOf(S)) \in Nat
      /\ balance[u] + Cardinality(PointsOf(S)) = InitBalance[u]
  BY FS_CardinalityType DEF PointsKept
<1>h. PointsKept(u)' <=> /\ IsFiniteSet(PointsOf(S'))
                         /\ balance'[u] + Cardinality(PointsOf(S')) = InitBalance[u]
  BY DEF PointsKept, PointsOf, Pile, OrdersOf
<1>1. CASE UNCHANGED <<balance, charged>>
  <2>1. S' = S
    BY <1>1 DEF OrdersOf
  <2> HIDE DEF S
  <2> QED BY <1>1, <2>1, <1>k, <1>h
<1>2. ASSUME NEW i \in Instances, NEW q \in Orders, Pay(i, q)
      PROVE  PointsKept(u)'
  <2>1. /\ charged[q] = 0
        /\ balance[UserOf[q]] >= Amount[q]
        /\ balance' = [balance EXCEPT ![UserOf[q]] = @ - Amount[q]]
        /\ charged' = [charged EXCEPT ![q] = @ + 1]
    <3>1. HistoryInv(q)
      BY DEF SagaInv
    <3> QED BY <1>2, <3>1 DEF Pay, Payable, HistoryInv
  <2>2. CASE UserOf[q] = u
    <3>1. S' = S \cup {q} /\ S \in SUBSET Orders /\ q \in Orders \ S
      BY <2>1, <2>2, <1>t DEF OrdersOf
    <3>2. balance'[u] = balance[u] - Amount[q]
      BY <2>1, <2>2, <1>t
    <3> HIDE DEF S
    <3>3. /\ IsFiniteSet(PointsOf(S \cup {q}))
          /\ Cardinality(PointsOf(S \cup {q})) = Cardinality(PointsOf(S)) + Amount[q]
      BY <3>1, <1>k, <1>t, OneOrderMore DEF PointsOf
    <3> QED BY <3>1, <3>2, <3>3, <1>k, <1>h, <1>t
  <2>3. CASE UserOf[q] # u
    <3>1. S' = S /\ balance'[u] = balance[u]
      BY <2>1, <2>3, <1>t DEF OrdersOf
    <3> HIDE DEF S
    <3> QED BY <3>1, <1>k, <1>h
  <2> QED BY <2>2, <2>3
<1> QED BY <1>1, <1>2, ChargedCases

LEMMA InitPointsKept ==
  ASSUME Init, NEW u \in Users
  PROVE  PointsKept(u)
<1> DEFINE spent == PointsOf({o \in OrdersOf(u) : charged[o] > 0})
<1>1. spent = {}
  BY DEF Init, PointsOf, Pile, OrdersOf
<1>2. IsFiniteSet({}) /\ Cardinality({}) = 0
  BY FS_EmptySet
<1>3. balance[u] = InitBalance[u] /\ InitBalance[u] \in Nat
  BY OrdersAssumption DEF Init
<1>4. IsFiniteSet(spent) /\ balance[u] + Cardinality(spent) = InitBalance[u]
  <2> HIDE DEF spent
  <2> QED BY <1>1, <1>2, <1>3
<1> QED BY <1>4 DEF PointsKept

\* The inductive invariant behind the next theorem.
LEMMA WalletInvHolds == Spec => []WalletInv
<1>1. Init => WalletInv
  BY InitPointsKept DEF WalletInv
<1>2. TypeOK /\ SagaInv /\ WalletInv /\ [Next]_vars => WalletInv'
  BY PointsKeptStep DEF WalletInv
<1> QED BY <1>1, <1>2, TypeCorrect, EventsTruthful, PTL DEF Spec

LEMMA WalletsAddUp ==
  ASSUME TypeOK, SagaInv, WalletInv
  PROVE  PointsAddUp
<1> SUFFICES ASSUME NEW u \in Users
             PROVE  /\ balance[u] + Paid(u) <= InitBalance[u]
                    /\ (\A o \in OrdersOf(u) : status[o] # "PENDING_PAYMENT") =>
                         balance[u] + Paid(u) = InitBalance[u]
  BY DEF PointsAddUp
<1> DEFINE spent == {o \in OrdersOf(u) : charged[o] > 0}
           paid == {o \in OrdersOf(u) : status[o] = "PAID"}
<1>t. balance[u] \in Nat /\ InitBalance[u] \in Nat
  BY OrdersAssumption DEF TypeOK, DatabaseOK
<1>h. \A o \in OrdersOf(u) : o \in Orders /\ HistoryInv(o)
  BY DEF SagaInv, OrdersOf
<1>1. paid \in SUBSET spent
  BY <1>h DEF HistoryInv
<1>2. (\A o \in OrdersOf(u) : status[o] # "PENDING_PAYMENT") => paid = spent
  <2> SUFFICES ASSUME NEW o \in OrdersOf(u), charged[o] > 0, status[o] # "PENDING_PAYMENT"
               PROVE  status[o] = "PAID"
    BY <1>1
  <2>1. charged[o] = 1 /\ deducted[o] = 1 /\ Taken("ORDER_PAYMENT", o)
    BY <1>h DEF HistoryInv
  <2>2. status[o] # "FAILED"
    BY <2>1, <1>h DEF HistoryInv
  <2>3. status[o] # "none"
    BY <2>1, <1>h, Columns DEF SagaInv, RowInv
  <2> QED BY <2>2, <2>3, <1>h, Columns DEF OrderStatus
<1>3. /\ IsFiniteSet(PointsOf(spent))
      /\ balance[u] + Cardinality(PointsOf(spent)) = InitBalance[u]
  BY DEF WalletInv, PointsKept
<1> HIDE DEF spent, paid
<1>4. /\ Cardinality(PointsOf(paid)) \in Nat /\ Cardinality(PointsOf(spent)) \in Nat
      /\ Cardinality(PointsOf(paid)) <= Cardinality(PointsOf(spent))
  BY <1>1, <1>3, FewerOrders DEF PointsOf
<1>5. Paid(u) = Cardinality(PointsOf(paid))
  BY DEF Paid, paid
<1> QED BY <1>2, <1>3, <1>4, <1>5, <1>t

\* With any number of instances and any faults a user is short of exactly the PAID
\* orders once none is pending, and never of less: no redelivery, rejection or
\* compensation takes points twice, gives points away or forgets a charge.
THEOREM PointsNeverLost == Spec => []PointsAddUp
<1>1. TypeOK /\ SagaInv /\ WalletInv => PointsAddUp
  BY WalletsAddUp
<1> QED BY <1>1, WalletInvHolds, TypeCorrect, EventsTruthful, PTL

-----------------------------------------------------------------------------
\* What a row marked SUCCESS promises

\* A step that cannot hide an error of the restoring transaction starts where none
\* was hidden.
LEMMA CertainBefore ==
  ASSUME [Next]_vars, TypeOK, NEW t \in EventTypes, Certain(t)'
  PROVE  Certain(t) /\ ~(t = "ORDER_PAYMENT" /\ Fault("db"))
<1>1. faults \in [FaultKinds -> Nat] /\ "db" \in FaultKinds
  BY DEF TypeOK, FaultKinds
<1>2. Fault("db") => faults'["db"] = faults["db"] + 1
  BY <1>1 DEF Fault
<1>3. faults'["db"] = 0 => ~Fault("db")
  BY <1>1, <1>2
<1>4. ASSUME NEW k \in FaultKinds, Fault(k), faults'["db"] = 0
      PROVE  faults["db"] = 0
  <2>1. faults'["db"] = IF k = "db" THEN faults["db"] + 1 ELSE faults["db"]
    BY <1>1, <1>4 DEF Fault
  <2> QED BY <1>1, <1>4, <2>1
<1>5. faults'["db"] = 0 => faults["db"] = 0
  BY <1>4, FaultCases
<1> QED BY <1>3, <1>5 DEF Certain

\* A row is done because a poller took it for done.
LEMMA DoneCases ==
  ASSUME [Next]_vars, TypeOK, SagaInv, NEW t \in EventTypes, NEW o \in Orders,
         outbox'[t][o] = "SUCCESS"
  PROVE  outbox[t][o] = "SUCCESS" \/ \E i \in Instances : job[i][t][o] = "sent"
<1> DEFINE Goal == outbox[t][o] = "SUCCESS" \/ \E i \in Instances : job[i][t][o] = "sent"
<1>1. UNCHANGED outbox => Goal
  OBVIOUS
<1>2. ASSUME NEW u \in EventTypes, NEW q \in Orders, NEW s, SetRow(u, q, s), s # "SUCCESS"
      PROVE  Goal
  <2>1. outbox'[t][o] = IF t = u /\ o = q THEN s ELSE outbox[t][o]
    BY <1>2, Columns, RowAfterSet
  <2> QED BY <1>2, <2>1
<1>3. ASSUME NEW i \in Instances, NEW u \in EventTypes, NEW q \in Orders, MarkSuccess(i, u, q)
      PROVE  Goal
  <2>1. outbox'[t][o] = IF t = u /\ o = q THEN "SUCCESS" ELSE outbox[t][o]
    BY <1>3, Columns, RowAfterSet DEF MarkSuccess
  <2> QED BY <1>3, <2>1 DEF MarkSuccess
<1>4. ASSUME NEW i \in Instances, NEW u \in EventTypes, NEW q \in Orders,
             HandleFailedEvent(i, u, q)
      PROVE  Goal
  BY <1>2, <1>4 DEF HandleFailedEvent
<1>5. ASSUME NEW q \in Orders, PlaceOrder(q)
      PROVE  Goal
  BY <1>2, <1>5, Columns DEF PlaceOrder
<1>6. ASSUME NEW i \in Instances, NEW q \in Orders,
             DeductStock(i, q) \/ ReopenOrderCreated(i, q) \/ Pay(i, q) \/ MarkPaid(i, q)
      PROVE  Goal
  BY <1>2, <1>6, Columns DEF DeductStock, ReopenOrderCreated, Pay, MarkPaid
<1>7. ASSUME NEW i \in Instances, NEW q \in Orders, CreateFailedEvent(i, q)
      PROVE  Goal
  <2>1. NextEvent(msg[i].topic) \in EventTypes
    BY <1>7 DEF CreateFailedEvent, SagaInv, HandlerInv, LockedTopics, NextEvent, EventTypes
  <2>2. UNCHANGED outbox \/ SetRow(NextEvent(msg[i].topic), q, "FAIL")
    BY <1>7 DEF CreateFailedEvent
  <2> QED BY <1>1, <1>2, <2>2, <2>1
<1>8. ASSUME NEW i \in Instances, NEW q \in Orders,
             RestoreStock(i, q) \/ \E u \in EventTypes : FailOrder(i, u, q)
      PROVE  UNCHANGED outbox
  BY <1>8 DEF RestoreStock, FailOrder
<1>9. UNCHANGED database => UNCHANGED outbox
  BY DEF database
<1> QED
  BY DatabaseCases, <1>1, <1>3, <1>4, <1>5, <1>6, <1>7, <1>8, <1>9 DEF DatabaseStep

\* A row that was taken gains no evidence later: its unique key keeps the transaction
\* that would give it from committing.
LEMMA BackedBefore ==
  ASSUME [Next]_vars, TypeOK, SagaInv, NEW t \in Topics, NEW o \in Orders,
         Taken(t, o), Backed(t, o)'
  PROVE  Backed(t, o)
<1>t. /\ t \in EventTypes
      /\ "ORDER_PAYMENT" \in EventTypes
      /\ RowInv(t, o) /\ HistoryInv(o)
  BY DEF Topics, EventTypes, SagaInv
<1>1. status[o] # "none"
  BY <1>t DEF RowInv
<1>2. ASSUME t = "ORDER_DEDUCT_STOCK", deducted[o] # 1
      PROVE  FALSE
  <2>1. Refused(t, o)
    BY <1>2, <1>t DEF HistoryInv, Refused
  <2>2. Refused(t, o)'
    BY <2>1, <1>t, EvidenceStable DEF SagaInv, Stable
  <2> QED BY <1>2, <2>2 DEF Refused, Backed
<1>3. ASSUME t = "ORDER_PAYMENT", charged[o] # 1
      PROVE  FALSE
  <2>1. charged'[o] # charged[o]
    BY <1>3 DEF Backed
  <2>2. PICK i \in Instances, q \in Orders : Pay(i, q)
    BY <2>1, ChargedCases
  <2>3. q = o
    BY <2>1, <2>2, Columns DEF Pay
  <2> QED BY <1>3, <2>2, <2>3 DEF Pay
<1> QED BY <1>1, <1>2, <1>3 DEF Backed

\* A job taken for done by this step or before has done its work.
LEMMA JobDoneStep ==
  ASSUME [Next]_vars, TypeOK, SagaInv, DoneInv,
         NEW i \in Instances, NEW t \in Topics, NEW o \in Orders, job'[i][t][o] = "sent"
  PROVE  /\ pass'[i] = "INIT" => Published(t, o)'
         /\ pass'[i] = "FAIL" /\ Certain(t)' => Compensated(t, o)'
<1>t. t \in EventTypes
  BY DEF Topics, EventTypes
<1>1. pass'[i] = pass[i] /\ (job[i][t][o] = "sent" \/ TakenForDone(i, t, o))
  BY <1>t, JobCases
<1>2. CASE job[i][t][o] = "sent"
  <2>1. /\ pass[i] = "INIT" => Published(t, o)
        /\ pass[i] = "FAIL" /\ Certain(t) => Compensated(t, o)
    BY <1>2 DEF DoneInv
  <2> QED BY <1>1, <1>t, <2>1, CertainBefore, PublishedStays, CompensatedStays
<1>3. CASE TakenForDone(i, t, o)
  BY <1>1, <1>3, <1>t, CertainBefore DEF TakenForDone
<1> QED BY <1>1, <1>2, <1>3

\* A row marked by the INIT pass was published; one marked by the FAIL pass stands for
\* a step that will not be taken any more and was compensated; neither is undone.
LEMMA RowDoneStep ==
  ASSUME [Next]_vars, TypeOK, SagaInv, DoneInv, NEW t \in Topics, NEW o \in Orders,
         outbox'[t][o] = "SUCCESS"
  PROVE  /\ Backed(t, o)' => Published(t, o)'
         /\ ~Backed(t, o)' /\ Certain(t)' => Compensated(t, o)'
<1>t. t \in EventTypes
  BY DEF Topics, EventTypes
<1>s. Stable(t, o)
  BY <1>t, EvidenceStable DEF SagaInv
<1>1. CASE outbox[t][o] = "SUCCESS"
  <2>1. Taken(t, o)
    BY <1>1 DEF Taken
  <2>2. Backed(t, o)' <=> Backed(t, o)
    BY <2>1, <1>s, BackedBefore DEF Stable
  <2>3. /\ Backed(t, o) => Published(t, o)
        /\ ~Backed(t, o) /\ Certain(t) => Compensated(t, o)
    BY <1>1 DEF DoneInv, SuccessMeansDone
  <2> QED BY <1>t, <2>2, <2>3, CertainBefore, PublishedStays, CompensatedStays
<1>2. ASSUME NEW i \in Instances, job[i][t][o] = "sent"
      PROVE  /\ Backed(t, o)' => Published(t, o)'
             /\ ~Backed(t, o)' /\ Certain(t)' => Compensated(t, o)'
  <2>1. /\ JobInv(i, t, o)
        /\ pass[i] \in {"INIT", "FAIL"}
        /\ pass[i] = "INIT" => Published(t, o)
        /\ pass[i] = "FAIL" /\ Certain(t) => Compensated(t, o)
    BY <1>2, <1>t DEF SagaInv, TypeOK, PollerOK, DoneInv
  <2>2. CASE pass[i] = "INIT"
    BY <1>2, <2>1, <2>2, <1>s, PublishedStays DEF JobInv, Stable
  <2>3. CASE pass[i] = "FAIL"
    <3>1. Refused(t, o)'
      BY <1>2, <2>1, <2>3, <1>s DEF JobInv, Stable
    <3>2. ~Backed(t, o)'
      BY <3>1 DEF Refused, Backed
    <3> QED BY <1>t, <2>1, <2>3, <3>2, CertainBefore, CompensatedStays
  <2> QED BY <2>1, <2>2, <2>3
<1> QED BY <1>1, <1>2, <1>t, DoneCases

LEMMA DoneStep ==
  ASSUME [Next]_vars, TypeOK, SagaInv, DoneInv
  PROVE  DoneInv'
<1>1. SuccessMeansDone'
  BY RowDoneStep DEF SuccessMeansDone
<1> QED BY <1>1, JobDoneStep DEF DoneInv

LEMMA InitDoneInv == Init => DoneInv
<1> SUFFICES ASSUME Init PROVE DoneInv
  OBVIOUS
<1>1. \A t \in EventTypes, o \in Orders : outbox[t][o] = "none"
  BY DEF Init, Nothing
<1>2. \A i \in Instances, t \in EventTypes, o \in Orders : job[i][t][o] = "idle"
  BY DEF Init, IdleJobs
<1> QED BY <1>1, <1>2 DEF DoneInv, SuccessMeansDone, EventTypes, Topics

\* With any number of instances and any faults a row is SUCCESS only when its message
\* is in the topic or, if its step failed, its order is FAILED or its units are back
\* (unless the database failed): retries, uncertain sends, handed-on rows and rival
\* pollers drop no event.
THEOREM SuccessIsTruthful == Spec => []SuccessMeansDone
<1>1. DoneInv => SuccessMeansDone
  BY DEF DoneInv
<1> QED
  BY <1>1, InitDoneInv, DoneStep, TypeCorrect, EventsTruthful, PTL DEF Spec
=============================================================================

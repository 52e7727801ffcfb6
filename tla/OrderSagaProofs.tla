-------------------------- MODULE OrderSagaProofs --------------------------
(***************************************************************************)
(* Proofs about OrderSaga for any number of orders, products, users,       *)
(* instances and partitions, any bounds and any faults.                    *)
(***************************************************************************)
EXTENDS OrderSaga, TLAPS

LEMMA InitTypeOK == Init => TypeOK
  BY OrdersAssumption, BoundsAssumption
     DEF Init, TypeOK, NoFaults, DatabaseOK, KafkaOK, PollerOK, ConsumerOK, Nothing, IdleJobs, NoTries,
         EventTypes, Topics, LockedTopics, JobState, HandlerState, EventStatus, OrderStatus

-----------------------------------------------------------------------------
\* What the small updates the actions are made of do to the types.

LEMMA SetJobType ==
  ASSUME NEW i \in Instances, NEW t \in EventTypes, NEW o \in Orders, NEW j \in JobState,
         PollerOK, SetJob(i, t, o, j)
  PROVE  job' \in [Instances -> [EventTypes -> [Orders -> JobState]]]
  BY DEF PollerOK, SetJob

LEMMA SetRowType ==
  ASSUME NEW t \in EventTypes, NEW o \in Orders, NEW s \in EventStatus,
         DatabaseOK, SetRow(t, o, s)
  PROVE  outbox' \in [EventTypes -> [Orders -> EventStatus \cup {"none"}]]
  BY DEF DatabaseOK, SetRow

LEMMA SetTriesType ==
  ASSUME NEW i \in Instances, NEW t \in EventTypes, NEW o \in Orders, NEW n \in Nat,
         PollerOK, tries' = [tries EXCEPT ![i][t][o] = n]
  PROVE  tries' \in [Instances -> [EventTypes -> [Orders -> Nat]]]
  BY DEF PollerOK

LEMMA RetryType ==
  ASSUME NEW i \in Instances, NEW t \in EventTypes, NEW o \in Orders,
         PollerOK, RetryOrGiveUp(i, t, o), UNCHANGED pass
  PROVE  PollerOK'
<1>1. CASE tries' = [tries EXCEPT ![i][t][o] = @ + 1] /\ SetJob(i, t, o, "queued")
  <2>1. tries[i][t][o] + 1 \in Nat /\ tries' = [tries EXCEPT ![i][t][o] = tries[i][t][o] + 1]
    BY <1>1 DEF PollerOK
  <2>2. tries' \in [Instances -> [EventTypes -> [Orders -> Nat]]]
    BY <2>1, SetTriesType
  <2>3. job' \in [Instances -> [EventTypes -> [Orders -> JobState]]]
    BY <1>1, SetJobType DEF JobState
  <2> QED
    BY <2>2, <2>3 DEF PollerOK
<1>2. CASE UNCHANGED tries /\ SetJob(i, t, o, "giveup")
  BY <1>2, SetJobType DEF PollerOK, JobState
<1> QED
  BY <1>1, <1>2 DEF RetryOrGiveUp

LEMMA FinishType ==
  ASSUME NEW i \in Instances, NEW t \in EventTypes, NEW o \in Orders,
         PollerOK, Finish(i, t, o), UNCHANGED pass
  PROVE  PollerOK'
  BY SetJobType, SetTriesType DEF Finish, PollerOK, JobState

LEMMA MarkErrorType ==
  ASSUME NEW i \in Instances, NEW t \in EventTypes, NEW o \in Orders,
         PollerOK, MarkError(i, t, o), UNCHANGED pass
  PROVE  PollerOK'
<1>1. CASE SetJob(i, t, o, "idle") /\ UNCHANGED tries
  BY <1>1, SetJobType DEF PollerOK, JobState
<1>2. CASE RetryOrGiveUp(i, t, o)
  BY <1>2, RetryType
<1> QED
  BY <1>1, <1>2 DEF MarkError

LEMMA AbortType ==
  ASSUME NEW i \in Instances, PollerOK, Abort(i), UNCHANGED pass
  PROVE  PollerOK'
  BY DEF Abort, IdleJobs, NoTries, PollerOK, JobState

LEMMA GoToType ==
  ASSUME NEW i \in Instances, NEW p \in HandlerState, ConsumerOK, GoTo(i, p),
         pc[i] # "idle", UNCHANGED <<msg, lock>>
  PROVE  ConsumerOK'
  BY DEF ConsumerOK, GoTo

LEMMA DropType ==
  ASSUME NEW i \in Instances, ConsumerOK, Drop(i), Release(i) \/ UNCHANGED lock
  PROVE  ConsumerOK'
  BY DEF ConsumerOK, Drop, GoTo, Release, HandlerState

LEMMA LogType ==
  ASSUME NEW t \in Topics, NEW k \in Partitions, NEW s \in Seq(Orders), KafkaOK,
         log' = [log EXCEPT ![t][k] = s]
  PROVE  log' \in [Topics -> [Partitions -> Seq(Orders)]]
  BY DEF KafkaOK

LEMMA ProduceType ==
  ASSUME NEW t \in Topics, NEW o \in Orders, KafkaOK,
         UNCHANGED <<consumed, committed, owner>>,
         \/ log' = Append1(t, o)
         \/ \E n \in Nat :
              log' = [log EXCEPT ![t][PartitionOf[o]] = @ \o [j \in 1 .. n |-> o]]
  PROVE  KafkaOK'
<1>1. PartitionOf[o] \in Partitions /\ log[t][PartitionOf[o]] \in Seq(Orders)
  BY OrdersAssumption DEF KafkaOK
<1>2. CASE log' = Append1(t, o)
  <2>1. Append(log[t][PartitionOf[o]], o) \in Seq(Orders)
    BY <1>1
  <2>2. log' = [log EXCEPT ![t][PartitionOf[o]] = Append(log[t][PartitionOf[o]], o)]
    BY <1>2 DEF Append1
  <2> QED
    BY <1>1, <2>1, <2>2, LogType DEF KafkaOK
<1>3. ASSUME NEW n \in Nat,
             log' = [log EXCEPT ![t][PartitionOf[o]] = @ \o [j \in 1 .. n |-> o]]
      PROVE  KafkaOK'
  <2>1. [j \in 1 .. n |-> o] \in Seq(Orders)
    OBVIOUS
  <2>2. (log[t][PartitionOf[o]] \o [j \in 1 .. n |-> o]) \in Seq(Orders)
    BY <1>1, <2>1
  <2>3. log' \in [Topics -> [Partitions -> Seq(Orders)]]
    BY <1>1, <1>3, <2>2, LogType
  <2> QED
    BY <2>3 DEF KafkaOK
<1> QED
  BY <1>2, <1>3

-----------------------------------------------------------------------------
LEMMA StepTypeOK == TypeOK /\ [Next]_vars => TypeOK'
<1> SUFFICES ASSUME TypeOK, [Next]_vars
             PROVE  TypeOK'
  OBVIOUS
<1> USE DEF vars, database, kafka, poller, consumer, history, Fault, Heard, Unheard
<1>0. DatabaseOK /\ KafkaOK /\ PollerOK /\ ConsumerOK /\ faults \in [FaultKinds -> Nat]
  BY DEF TypeOK
<1>a. UNCHANGED database => DatabaseOK'
  BY <1>0 DEF DatabaseOK
<1>b. UNCHANGED kafka => KafkaOK'
  BY <1>0 DEF KafkaOK
<1>c. UNCHANGED poller => PollerOK'
  BY <1>0 DEF PollerOK
<1>d. UNCHANGED consumer => ConsumerOK'
  BY <1>0 DEF ConsumerOK
<1>1. ASSUME NEW o \in Orders, PlaceOrder(o)
      PROVE  TypeOK'
  <2>1. DatabaseOK'
    BY <1>0, <1>1, SetRowType DEF PlaceOrder, DatabaseOK, EventTypes, EventStatus, OrderStatus
  <2> QED
    BY <1>0, <1>b, <1>c, <1>d, <1>1, <2>1 DEF PlaceOrder, TypeOK
<1>2. ASSUME NEW i \in Instances, PollerStep(i)
      PROVE  TypeOK'
  <2>1. CASE FindEventsByStatus(i)
    <3>1. PollerOK'
      BY <1>0, <2>1 DEF FindEventsByStatus, NextPass, PollerOK, JobState
    <3> QED
      BY <1>0, <1>a, <1>b, <1>d, <2>1, <3>1 DEF FindEventsByStatus, TypeOK
  <2>2. ASSUME NEW t \in EventTypes, NEW o \in Orders, ProduceEvent(i, t, o)
        PROVE  TypeOK'
    <3>1. KafkaOK'
      BY <1>0, <2>2, ProduceType DEF ProduceEvent
    <3>2. PollerOK'
      BY <1>0, <2>2, SetJobType DEF ProduceEvent, PollerOK, JobState
    <3> QED
      BY <1>0, <1>a, <1>d, <2>2, <3>1, <3>2 DEF ProduceEvent, TypeOK
  <2>3. ASSUME NEW t \in EventTypes, NEW o \in Orders, ProduceRefused(i, t, o)
        PROVE  TypeOK'
    <3>1. PollerOK'
      BY <1>0, <2>3, SetJobType DEF ProduceRefused, PollerOK, JobState
    <3> QED
      BY <1>0, <1>a, <1>b, <1>d, <2>3, <3>1 DEF ProduceRefused, TypeOK
  <2>4. ASSUME NEW t \in EventTypes, NEW o \in Orders, FailOrder(i, t, o)
        PROVE  TypeOK'
    <3>1. DatabaseOK'
      BY <1>0, <2>4 DEF FailOrder, DatabaseOK, OrderStatus
    <3>2. PollerOK'
      <4>1. CASE SetJob(i, t, o, "sent") /\ UNCHANGED tries
        BY <1>0, <2>4, <4>1, SetJobType DEF FailOrder, PollerOK, JobState
      <4>2. CASE RetryOrGiveUp(i, t, o)
        BY <1>0, <2>4, <4>2, RetryType DEF FailOrder
      <4> QED
        BY <2>4, <4>1, <4>2 DEF FailOrder
    <3>3. faults' \in [FaultKinds -> Nat]
      BY <1>0, <2>4 DEF FailOrder
    <3> QED
      BY <1>b, <1>d, <2>4, <3>1, <3>2, <3>3 DEF FailOrder, TypeOK
  <2>5. ASSUME NEW t \in EventTypes, NEW o \in Orders,
               MarkSuccess(i, t, o) \/ HandleFailedEvent(i, t, o)
        PROVE  TypeOK'
    <3>1. DatabaseOK'
      BY <1>0, <2>5, SetRowType DEF MarkSuccess, HandleFailedEvent, DatabaseOK, EventStatus
    <3>2. PollerOK'
      BY <1>0, <2>5, FinishType, MarkErrorType, AbortType DEF MarkSuccess, HandleFailedEvent
    <3>3. faults' \in [FaultKinds -> Nat]
      BY <1>0, <2>5 DEF MarkSuccess, HandleFailedEvent
    <3> QED
      BY <1>b, <1>d, <2>5, <3>1, <3>2, <3>3 DEF MarkSuccess, HandleFailedEvent, TypeOK
  <2>7. ASSUME NEW o \in Orders, SkipProduce(i, o)
        PROVE  TypeOK'
    <3>1. PollerOK'
      BY <1>0, <2>7, SetJobType DEF SkipProduce, PollerOK, JobState, EventTypes
    <3> QED
      BY <1>0, <1>a, <1>b, <1>d, <2>7, <3>1 DEF SkipProduce, TypeOK
  <2>8. ASSUME NEW o \in Orders, RestoreStock(i, o)
        PROVE  TypeOK'
    <3>0. \A p \in Products : stock[p] + Qty[o][p] \in Nat
      BY <1>0, OrdersAssumption DEF DatabaseOK
    <3>1. DatabaseOK'
      BY <1>0, <2>8, <3>0 DEF RestoreStock, DatabaseOK
    <3>2. PollerOK'
      BY <1>0, <2>8, SetJobType DEF RestoreStock, PollerOK, JobState, EventTypes
    <3> QED
      BY <1>0, <1>b, <1>d, <2>8, <3>1, <3>2 DEF RestoreStock, TypeOK
  <2> QED
    BY <1>2, <2>1, <2>2, <2>3, <2>4, <2>5, <2>7, <2>8 DEF PollerStep, PollerRow, PollerOrder
<1>3. ASSUME NEW i \in Instances, PollerFault(i)
      PROVE  TypeOK'
  <2>1. CASE FindFails(i)
    <3>1. PollerOK'
      BY <1>0, <2>1 DEF FindFails, NextPass, PollerOK
    <3>f. faults' \in [FaultKinds -> Nat]
      BY <1>0, <2>1 DEF FindFails, FaultKinds
    <3> QED
      BY <1>0, <1>a, <1>b, <1>d, <2>1, <3>1, <3>f DEF FindFails, TypeOK
  <2>2. CASE BatchAborts(i)
    <3>1. PollerOK'
      BY <1>0, <2>2, AbortType DEF BatchAborts
    <3>f. faults' \in [FaultKinds -> Nat]
      BY <1>0, <2>2 DEF BatchAborts, FaultKinds
    <3> QED
      BY <1>0, <1>a, <1>b, <1>d, <2>2, <3>1, <3>f DEF BatchAborts, TypeOK
  <2>3. ASSUME NEW t \in EventTypes, NEW o \in Orders, ProduceUncertain(i, t, o)
        PROVE  TypeOK'
    <3>1. PICK n \in 0 .. ProducerTries, outcome \in {"idle", "sent"} :
            /\ log' = [log EXCEPT ![t][PartitionOf[o]] = @ \o [j \in 1 .. n |-> o]]
            /\ SetJob(i, t, o, outcome)
      BY <2>3 DEF ProduceUncertain
    <3>2. n \in Nat /\ outcome \in JobState /\ t \in Topics
      BY <2>3, BoundsAssumption DEF ProduceUncertain, JobState
    <3>3. KafkaOK'
      <4>1. UNCHANGED <<consumed, committed, owner>>
        BY <2>3 DEF ProduceUncertain
      <4> QED
        BY <1>0, <3>1, <3>2, <4>1, ProduceType
    <3>4. PollerOK'
      <4>1. UNCHANGED <<pass, tries>>
        BY <2>3 DEF ProduceUncertain
      <4>2. job' \in [Instances -> [EventTypes -> [Orders -> JobState]]]
        BY <1>0, <3>1, <3>2, SetJobType
      <4> QED
        BY <1>0, <4>1, <4>2 DEF PollerOK
    <3>f. faults' \in [FaultKinds -> Nat]
      BY <1>0, <2>3 DEF ProduceUncertain, FaultKinds
    <3> QED
      BY <1>0, <1>a, <1>d, <2>3, <3>3, <3>4, <3>f DEF ProduceUncertain, TypeOK
  <2>4. ASSUME NEW t \in EventTypes, NEW o \in Orders, FailOrderFails(i, t, o)
        PROVE  TypeOK'
    <3>1. PollerOK'
      BY <1>0, <2>4, RetryType DEF FailOrderFails
    <3>f. faults' \in [FaultKinds -> Nat]
      BY <1>0, <2>4 DEF FailOrderFails, FaultKinds
    <3> QED
      BY <1>a, <1>b, <1>d, <2>4, <3>1, <3>f DEF FailOrderFails, TypeOK
  <2>5. ASSUME NEW t \in EventTypes, NEW o \in Orders, MarkFails(i, t, o)
        PROVE  TypeOK'
    <3>1. PollerOK'
      BY <1>0, <2>5, MarkErrorType DEF MarkFails
    <3>f. faults' \in [FaultKinds -> Nat]
      BY <1>0, <2>5 DEF MarkFails, FaultKinds
    <3> QED
      BY <1>0, <1>a, <1>b, <1>d, <2>5, <3>1, <3>f DEF MarkFails, TypeOK
  <2>6. ASSUME NEW o \in Orders, RestoreConflict(i, o)
        PROVE  TypeOK'
    <3>1. PollerOK'
      BY <1>0, <2>6, SetJobType DEF RestoreConflict, PollerOK, JobState, EventTypes
    <3>f. faults' \in [FaultKinds -> Nat]
      BY <1>0, <2>6 DEF RestoreConflict, FaultKinds
    <3> QED
      BY <1>0, <1>a, <1>b, <1>d, <2>6, <3>1, <3>f DEF RestoreConflict, TypeOK
  <2> QED
    BY <1>3, <2>1, <2>2, <2>3, <2>4, <2>5, <2>6 DEF PollerFault
<1>4. ASSUME NEW i \in Instances, ConsumerStep(i)
      PROVE  TypeOK'
  <2>1. ASSUME NEW t \in Topics, NEW k \in Partitions, Receive(i, t, k)
        PROVE  TypeOK'
    <3>1. KafkaOK'
      BY <1>0, <2>1 DEF Receive, KafkaOK
    <3>2. log[t][k] \in Seq(Orders) /\ consumed[t][k] \in Nat
      BY <1>0 DEF KafkaOK
    <3>3. log[t][k][consumed[t][k] + 1] \in Orders
      BY <2>1, <3>2 DEF Receive
    <3>4. msg'[i] \in Messages
      BY <1>0, <2>1, <3>2, <3>3 DEF Receive, Messages, ConsumerOK
    <3>5. ConsumerOK'
      BY <1>0, <2>1, <3>4 DEF Receive, ConsumerOK, GoTo, HandlerState
    <3> QED
      BY <1>0, <1>a, <1>c, <2>1, <3>1, <3>5 DEF Receive, TypeOK
  <2>2. CASE AcquireLock(i)
    <3>1. ConsumerOK'
      BY <1>0, <2>2 DEF AcquireLock, ConsumerOK, GoTo, HandlerState
    <3> QED
      BY <1>0, <1>a, <1>b, <1>c, <2>2, <3>1 DEF AcquireLock, TypeOK
  <2>3. CASE LockFails(i)
    <3>1. ConsumerOK'
      BY <1>0, <2>3, GoToType DEF LockFails, HandlerState
    <3> QED
      BY <1>0, <1>a, <1>b, <1>c, <2>3, <3>1 DEF LockFails, TypeOK
  <2>4. ASSUME NEW o \in Orders, HandlerStep(i, o)
        PROVE  TypeOK'
    <3>1. CASE DeductStock(i, o)
      <4>0. ASSUME NEW p \in Products
            PROVE  stock[p] - Qty[o][p] \in Nat
        <5>1. stock[p] \in Nat /\ Qty[o][p] \in Nat
          BY <1>0, OrdersAssumption DEF DatabaseOK
        <5>2. stock[p] >= Qty[o][p]
          BY <3>1 DEF DeductStock, InStock
        <5> QED
          BY <5>1, <5>2
      <4>r. outbox' \in [EventTypes -> [Orders -> EventStatus \cup {"none"}]]
        BY <1>0, <3>1, SetRowType DEF DeductStock, EventTypes, EventStatus
      <4>1. DatabaseOK'
        BY <1>0, <3>1, <4>0, <4>r DEF DeductStock, DatabaseOK
      <4>2. ConsumerOK'
        BY <1>0, <3>1, GoToType DEF DeductStock, Handling, HandlerState
      <4>3. faults' \in [FaultKinds -> Nat]
        BY <1>0, <3>1 DEF DeductStock
      <4> QED
        BY <1>b, <1>c, <3>1, <4>1, <4>2, <4>3 DEF DeductStock, TypeOK
    <3>2. CASE ReopenOrderCreated(i, o)
      <4>1. DatabaseOK'
        BY <1>0, <3>2, SetRowType DEF ReopenOrderCreated, DatabaseOK, EventTypes, EventStatus
      <4>2. ConsumerOK'
        BY <1>0, <3>2, GoToType DEF ReopenOrderCreated, HandlerState
      <4> QED
        BY <1>0, <1>b, <1>c, <3>2, <4>1, <4>2 DEF ReopenOrderCreated, TypeOK
    <3>3. CASE Pay(i, o)
      <4>0. UserOf[o] \in Users /\ balance[UserOf[o]] - Amount[o] \in Nat
        <5>1. UserOf[o] \in Users /\ Amount[o] \in Nat
          BY OrdersAssumption
        <5>2. balance[UserOf[o]] \in Nat
          BY <1>0, <5>1 DEF DatabaseOK
        <5>3. balance[UserOf[o]] >= Amount[o]
          BY <3>3 DEF Pay, Payable
        <5> QED
          BY <5>1, <5>2, <5>3
      <4>r. outbox' \in [EventTypes -> [Orders -> EventStatus \cup {"none"}]]
        BY <1>0, <3>3, SetRowType DEF Pay, EventTypes, EventStatus
      <4>1. DatabaseOK'
        BY <1>0, <3>3, <4>0, <4>r DEF Pay, DatabaseOK
      <4>2. ConsumerOK'
        BY <1>0, <3>3, GoToType DEF Pay, Handling, HandlerState
      <4>3. faults' \in [FaultKinds -> Nat]
        BY <1>0, <3>3 DEF Pay
      <4> QED
        BY <1>b, <1>c, <3>3, <4>1, <4>2, <4>3 DEF Pay, TypeOK
    <3>4. CASE CreateFailedEvent(i, o)
      <4>1. NextEvent(msg[i].topic) \in EventTypes
        BY <1>0, <3>4 DEF CreateFailedEvent, ConsumerOK, Messages, Topics, NextEvent, EventTypes
      <4>2. DatabaseOK'
        BY <1>0, <3>4, <4>1, SetRowType DEF CreateFailedEvent, DatabaseOK, EventStatus
      <4>3. ConsumerOK'
        BY <1>0, <3>4, GoToType DEF CreateFailedEvent, HandlerState
      <4> QED
        BY <1>0, <1>b, <1>c, <3>4, <4>2, <4>3 DEF CreateFailedEvent, TypeOK
    <3>5. CASE MarkPaid(i, o)
      <4>1. DatabaseOK'
        BY <1>0, <3>5, SetRowType DEF MarkPaid, DatabaseOK, EventTypes, EventStatus, OrderStatus
      <4>2. ConsumerOK'
        BY <1>0, <3>5, GoToType, DropType DEF MarkPaid, Handling, HandlerState
      <4>3. faults' \in [FaultKinds -> Nat]
        BY <1>0, <3>5 DEF MarkPaid
      <4> QED
        BY <1>b, <1>c, <3>5, <4>1, <4>2, <4>3 DEF MarkPaid, TypeOK
    <3>6. CASE OutOfStock(i, o) \/ DeductRejected(i, o) \/ PayRejected(i, o)
      <4>1. ConsumerOK'
        BY <1>0, <3>6, GoToType DEF OutOfStock, DeductRejected, PayRejected, Handling, HandlerState
      <4> QED
        BY <1>0, <1>a, <1>b, <1>c, <3>6, <4>1 DEF OutOfStock, DeductRejected, PayRejected, TypeOK
    <3>7. CASE MarkPaidFails(i, o)
      <4>1. ConsumerOK'
        BY <1>0, <3>7, DropType DEF MarkPaidFails
      <4> QED
        BY <1>0, <1>a, <1>b, <1>c, <3>7, <4>1 DEF MarkPaidFails, TypeOK
    <3> QED
      BY <2>4, <3>1, <3>2, <3>3, <3>4, <3>5, <3>6, <3>7 DEF HandlerStep
  <2>5. CASE CommitOffset(i)
    <3>1. msg[i] \in Messages
      BY <1>0, <2>5 DEF CommitOffset, ConsumerOK
    <3>2. KafkaOK'
      BY <1>0, <2>5, <3>1 DEF CommitOffset, KafkaOK, Messages
    <3>3. ConsumerOK'
      BY <1>0, <2>5, DropType DEF CommitOffset
    <3> QED
      BY <1>0, <1>a, <1>c, <2>5, <3>2, <3>3 DEF CommitOffset, TypeOK
  <2> QED
    BY <1>4, <2>1, <2>2, <2>3, <2>4, <2>5 DEF ConsumerStep
<1>5. ASSUME NEW i \in Instances, ConsumerFault(i)
      PROVE  TypeOK'
  <2>1. ConsumerOK'
    BY <1>0, <1>5, GoToType, DropType
       DEF ConsumerFault, ReopenFails, CreateFailedEventFails, CommitFails, HandlerState
  <2> QED
    BY <1>0, <1>a, <1>b, <1>c, <1>5, <2>1
       DEF ConsumerFault, ReopenFails, CreateFailedEventFails, CommitFails, TypeOK
<1>6. CASE Environment
  <2>1. ASSUME NEW t \in LockedTopics, LeaseEnds(t)
        PROVE  TypeOK'
    <3>1. ConsumerOK'
      BY <1>0, <2>1 DEF LeaseEnds, ConsumerOK
    <3> QED
      BY <1>0, <1>a, <1>b, <1>c, <2>1, <3>1 DEF LeaseEnds, TypeOK
  <2>2. CASE Rebalance
    <3>1. KafkaOK'
      BY <1>0, <2>2 DEF Rebalance, Reassign, KafkaOK
    <3>f. faults' \in [FaultKinds -> Nat]
      BY <1>0, <2>2 DEF Rebalance, FaultKinds
    <3> QED
      BY <1>0, <1>a, <1>c, <1>d, <2>2, <3>1, <3>f DEF Rebalance, TypeOK
  <2>3. ASSUME NEW i \in Instances, Crash(i)
        PROVE  TypeOK'
    <3>1. KafkaOK'
      BY <1>0, <2>3 DEF Crash, Reassign, KafkaOK
    <3>2. PollerOK'
      BY <1>0, <2>3 DEF Crash, PollerOK, IdleJobs, NoTries, JobState
    <3>3. ConsumerOK'
      BY <1>0, <2>3 DEF Crash, ConsumerOK, HandlerState
    <3>f. faults' \in [FaultKinds -> Nat]
      BY <1>0, <2>3 DEF Crash, FaultKinds
    <3> QED
      BY <1>0, <1>a, <2>3, <3>1, <3>2, <3>3, <3>f DEF Crash, TypeOK
  <2> QED
    BY <1>6, <2>1, <2>2, <2>3 DEF Environment
<1>7. CASE UNCHANGED vars
  BY <1>0, <1>a, <1>b, <1>c, <1>d, <1>7 DEF TypeOK
<1> QED
  BY <1>1, <1>2, <1>3, <1>4, <1>5, <1>6, <1>7 DEF Next, InstanceNext

\* Every variable keeps its type; the shelf and the wallets never go below zero.
THEOREM TypeCorrect == Spec => []TypeOK
  BY InitTypeOK, StepTypeOK, PTL DEF Spec
-----------------------------------------------------------------------------
(***************************************************************************)
(* The inductive invariant SagaInv, and what follows from it.  The first   *)
(* lemmas say which part of the state a step may change and how; the next  *)
(* ones that the evidence an event carries is never withdrawn; the step    *)
(* lemma puts them together, one conjunct of SagaInv at a time.  At the    *)
(* end: the refinement of OrderLifecycle, and the final states.            *)
(***************************************************************************)
\* The pointwise reading of the nested updates

LEMMA JobAfterSet ==
  ASSUME PollerOK, NEW i \in Instances, NEW t \in EventTypes, NEW o \in Orders, NEW s,
         SetJob(i, t, o, s),
         NEW j \in Instances, NEW u \in EventTypes, NEW q \in Orders
  PROVE  job'[j][u][q] = IF j = i /\ u = t /\ q = o THEN s ELSE job[j][u][q]
  BY DEF PollerOK, SetJob

LEMMA RowAfterSet ==
  ASSUME DatabaseOK, NEW t \in EventTypes, NEW o \in Orders, NEW s, SetRow(t, o, s),
         NEW u \in EventTypes, NEW q \in Orders
  PROVE  outbox'[u][q] = IF u = t /\ q = o THEN s ELSE outbox[u][q]
  BY DEF DatabaseOK, SetRow

-----------------------------------------------------------------------------
\* What a step may do

\* The actions that write to the database.
DatabaseStep ==
  \/ \E o \in Orders : PlaceOrder(o)
  \/ \E i \in Instances, o \in Orders :
       \/ RestoreStock(i, o)
       \/ DeductStock(i, o)
       \/ ReopenOrderCreated(i, o)
       \/ Pay(i, o)
       \/ CreateFailedEvent(i, o)
       \/ MarkPaid(i, o)
  \/ \E i \in Instances, t \in EventTypes, o \in Orders :
       \/ FailOrder(i, t, o)
       \/ MarkSuccess(i, t, o)
       \/ HandleFailedEvent(i, t, o)

LEMMA DatabaseCases == [Next]_vars => UNCHANGED database \/ DatabaseStep
<1> SUFFICES ASSUME [Next]_vars
             PROVE  UNCHANGED database \/ DatabaseStep
  OBVIOUS
<1> USE DEF DatabaseStep
<1>1. CASE \E o \in Orders : PlaceOrder(o)
  BY <1>1
<1>2. ASSUME NEW i \in Instances, PollerStep(i)
      PROVE  UNCHANGED database \/ DatabaseStep
  BY <1>2 DEF PollerStep, PollerRow, PollerOrder, FindEventsByStatus, ProduceEvent,
              ProduceRefused, SkipProduce
<1>3. ASSUME NEW i \in Instances, PollerFault(i)
      PROVE  UNCHANGED database
  BY <1>3 DEF PollerFault, FindFails, BatchAborts, ProduceUncertain, FailOrderFails,
              MarkFails, RestoreConflict
<1>4. ASSUME NEW i \in Instances, ConsumerStep(i)
      PROVE  UNCHANGED database \/ DatabaseStep
  BY <1>4 DEF ConsumerStep, HandlerStep, Receive, AcquireLock, LockFails, CommitOffset,
              OutOfStock, DeductRejected, PayRejected, MarkPaidFails
<1>5. ASSUME NEW i \in Instances, ConsumerFault(i)
      PROVE  UNCHANGED database
  BY <1>5 DEF ConsumerFault, ReopenFails, CreateFailedEventFails, CommitFails
<1>6. CASE Environment
  BY <1>6 DEF Environment, LeaseEnds, Rebalance, Crash
<1>7. CASE UNCHANGED vars
  BY <1>7 DEF vars
<1> QED
  BY <1>1, <1>2, <1>3, <1>4, <1>5, <1>6, <1>7 DEF Next, InstanceNext

\* A message is only ever added for a queued row of an INIT pass.
LogStep(i, t, o) ==
  /\ pass[i] = "INIT"
  /\ t \in Topics
  /\ job[i][t][o] = "queued"
  /\ UNCHANGED database
  /\ \/ log' = Append1(t, o)
     \/ \E n \in Nat :
          log' = [log EXCEPT ![t][PartitionOf[o]] = @ \o [j \in 1 .. n |-> o]]

LEMMA LogCases ==
  [Next]_vars =>
    UNCHANGED log \/ \E i \in Instances, t \in EventTypes, o \in Orders : LogStep(i, t, o)
<1> SUFFICES ASSUME [Next]_vars
             PROVE  UNCHANGED log \/ \E i \in Instances, t \in EventTypes, o \in Orders :
                                        LogStep(i, t, o)
  OBVIOUS
<1> USE DEF kafka
<1>1. ASSUME NEW o \in Orders, PlaceOrder(o)
      PROVE  UNCHANGED log
  BY <1>1 DEF PlaceOrder
<1>2. ASSUME NEW i \in Instances, PollerStep(i)
      PROVE  UNCHANGED log \/ \E t \in EventTypes, o \in Orders : LogStep(i, t, o)
  <2>1. ASSUME NEW t \in EventTypes, NEW o \in Orders, ProduceEvent(i, t, o)
        PROVE  LogStep(i, t, o)
    BY <2>1 DEF ProduceEvent, LogStep, MayRun
  <2> QED
    BY <1>2, <2>1 DEF PollerStep, PollerRow, PollerOrder, FindEventsByStatus, ProduceRefused,
                      SkipProduce, FailOrder, MarkSuccess, HandleFailedEvent, RestoreStock
<1>3. ASSUME NEW i \in Instances, PollerFault(i)
      PROVE  UNCHANGED log \/ \E t \in EventTypes, o \in Orders : LogStep(i, t, o)
  <2>1. ASSUME NEW t \in EventTypes, NEW o \in Orders, ProduceUncertain(i, t, o)
        PROVE  LogStep(i, t, o)
    <3>1. PICK n \in 0 .. ProducerTries, outcome \in {"idle", "sent"} :
            log' = [log EXCEPT ![t][PartitionOf[o]] = @ \o [j \in 1 .. n |-> o]]
      BY <2>1 DEF ProduceUncertain
    <3>2. n \in Nat
      BY BoundsAssumption
    <3> QED
      BY <2>1, <3>1, <3>2 DEF ProduceUncertain, LogStep, MayRun
  <2> QED
    BY <1>3, <2>1 DEF PollerFault, FindFails, BatchAborts, FailOrderFails, MarkFails,
                      RestoreConflict
<1>4. ASSUME NEW i \in Instances, ConsumerStep(i)
      PROVE  UNCHANGED log
  BY <1>4 DEF ConsumerStep, HandlerStep, Receive, AcquireLock, LockFails, CommitOffset,
              DeductStock, OutOfStock, DeductRejected, ReopenOrderCreated, Pay, PayRejected,
              CreateFailedEvent, MarkPaid, MarkPaidFails
<1>5. ASSUME NEW i \in Instances, ConsumerFault(i)
      PROVE  UNCHANGED log
  BY <1>5 DEF ConsumerFault, ReopenFails, CreateFailedEventFails, CommitFails
<1>6. CASE Environment
  BY <1>6 DEF Environment, LeaseEnds, Rebalance, Crash
<1>7. CASE UNCHANGED vars
  BY <1>7 DEF vars
<1> QED
  BY <1>1, <1>2, <1>3, <1>4, <1>5, <1>6, <1>7 DEF Next, InstanceNext

\* A consumer stays where it is, goes idle, receives a message, or goes on with
\* the message it has.
LEMMA ConsumerCases ==
  ASSUME [Next]_vars, TypeOK, NEW i \in Instances
  PROVE  \/ pc'[i] = pc[i] /\ msg'[i] = msg[i]
         \/ pc'[i] = "idle"
         \/ \E t \in Topics, k \in Partitions : Receive(i, t, k)
         \/ /\ pc[i] # "idle"
            /\ msg'[i] = msg[i]
            /\ pc'[i] = "failrow" => msg[i].topic \in LockedTopics
<1> DEFINE Goal ==
         \/ pc'[i] = pc[i] /\ msg'[i] = msg[i]
         \/ pc'[i] = "idle"
         \/ \E t \in Topics, k \in Partitions : Receive(i, t, k)
         \/ /\ pc[i] # "idle"
            /\ msg'[i] = msg[i]
            /\ pc'[i] = "failrow" => msg[i].topic \in LockedTopics
<1> USE DEF consumer
<1>t. pc \in [Instances -> HandlerState] /\ msg \in [Instances -> Messages \cup {NoMessage}]
  BY DEF TypeOK, ConsumerOK
<1>1. ASSUME NEW o \in Orders, PlaceOrder(o)
      PROVE  Goal
  BY <1>1 DEF PlaceOrder
<1>2. ASSUME NEW j \in Instances, PollerStep(j)
      PROVE  Goal
  <2> UNCHANGED consumer
    BY <1>2 DEF PollerStep, PollerRow, PollerOrder, FindEventsByStatus, ProduceEvent,
                ProduceRefused, SkipProduce, FailOrder, MarkSuccess, HandleFailedEvent,
                RestoreStock
  <2> QED
    OBVIOUS
<1>3. ASSUME NEW j \in Instances, PollerFault(j)
      PROVE  Goal
  <2> UNCHANGED consumer
    BY <1>3 DEF PollerFault, FindFails, BatchAborts, ProduceUncertain, FailOrderFails,
                MarkFails, RestoreConflict
  <2> QED
    OBVIOUS
<1>4. ASSUME NEW j \in Instances, ConsumerStep(j)
      PROVE  Goal
  <2>1. ASSUME NEW t \in Topics, NEW k \in Partitions, Receive(j, t, k)
        PROVE  Goal
    <3>1. CASE i = j
      BY <2>1, <3>1
    <3>2. CASE i # j
      BY <2>1, <3>2, <1>t DEF Receive, GoTo
    <3> QED
      BY <3>1, <3>2
  <2>2. CASE AcquireLock(j) \/ LockFails(j)
    BY <2>2, <1>t DEF AcquireLock, LockFails, GoTo
  <2>3. ASSUME NEW o \in Orders, HandlerStep(j, o)
        PROVE  Goal
    BY <2>3, <1>t DEF HandlerStep, DeductStock, OutOfStock, DeductRejected, ReopenOrderCreated,
                      Pay, PayRejected, CreateFailedEvent, MarkPaid, MarkPaidFails, GoTo,
                      Drop, Handling, LockedTopics, Heard, Unheard
  <2>4. CASE CommitOffset(j)
    BY <2>4, <1>t DEF CommitOffset, Drop, GoTo
  <2> QED
    BY <1>4, <2>1, <2>2, <2>3, <2>4 DEF ConsumerStep
<1>5. ASSUME NEW j \in Instances, ConsumerFault(j)
      PROVE  Goal
  BY <1>5, <1>t DEF ConsumerFault, ReopenFails, CreateFailedEventFails, CommitFails, Drop, GoTo
<1>6. CASE Environment
  BY <1>6, <1>t DEF Environment, LeaseEnds, Rebalance, Crash
<1>7. CASE UNCHANGED vars
  BY <1>7 DEF vars
<1> QED
  BY <1>1, <1>2, <1>3, <1>4, <1>5, <1>6, <1>7 DEF Next, InstanceNext

\* A message sent is in the topic, whichever of its copies were.
LEMMA Appended ==
  ASSUME NEW S, NEW a \in Seq(S), NEW b \in Seq(S)
  PROVE  /\ Len(a) \in Nat
         /\ Len(a \o b) = Len(a) + Len(b)
         /\ Len(b) > 0 => (a \o b)[Len(a) + 1] = b[1]
  OBVIOUS

LEMMA SentOften ==
  ASSUME TypeOK, NEW t \in Topics, NEW o \in Orders, NEW m \in Nat, m > 0,
         log' = [log EXCEPT ![t][PartitionOf[o]] = @ \o [j \in 1 .. m |-> o]]
  PROVE  Published(t, o)'
<1> DEFINE k == PartitionOf[o]
           new == [j \in 1 .. m |-> o]
<1>1. new \in Seq(Orders) /\ Len(new) = m
  OBVIOUS
<1>2. k \in Partitions /\ log[t][k] \in Seq(Orders) /\ log'[t][k] = log[t][k] \o new
  BY OrdersAssumption DEF TypeOK, KafkaOK
<1> HIDE DEF new
<1>3. Len(log'[t][k]) = Len(log[t][k]) + m /\ Len(log[t][k]) \in Nat
  BY <1>1, <1>2, Appended
<1>4. log'[t][k][Len(log[t][k]) + 1] = new[1]
  BY <1>1, <1>2, Appended
<1>5. new[1] = o
  BY DEF new
<1>6. Len(log[t][k]) + 1 \in 1 .. Len(log'[t][k])
  BY <1>3
<1> QED BY <1>2, <1>4, <1>5, <1>6 DEF Published

LEMMA SentOnce ==
  ASSUME TypeOK, NEW t \in Topics, NEW o \in Orders,
         log' = [log EXCEPT ![t][PartitionOf[o]] = Append(@, o)]
  PROVE  Published(t, o)'
<1> DEFINE k == PartitionOf[o]
<1>1. k \in Partitions /\ log[t][k] \in Seq(Orders) /\ log'[t][k] = Append(log[t][k], o)
  BY OrdersAssumption DEF TypeOK, KafkaOK
<1>2. /\ Len(log[t][k]) + 1 \in 1 .. Len(log'[t][k])
      /\ log'[t][k][Len(log[t][k]) + 1] = o
  BY <1>1
<1> QED BY <1>1, <1>2 DEF Published

\* What a pass takes for done was published (INIT) or compensated (FAIL), or the
\* error of the restoring transaction was taken for success.
TakenForDone(i, t, o) ==
  /\ pass[i] = "FAIL" => Compensated(t, o)' \/ (t = "ORDER_PAYMENT" /\ Fault("db"))
  /\ pass[i] = "INIT" /\ t \in Topics => Published(t, o)'

\* A job goes idle, is carried on by its poller within the pass, or is a row
\* the poller has just read in the state its pass is about.
LEMMA JobCases ==
  ASSUME [Next]_vars, TypeOK, NEW i \in Instances, NEW t \in EventTypes, NEW o \in Orders
  PROVE  \/ job'[i][t][o] = "idle"
         \/ /\ pass'[i] = pass[i]
            /\ job[i][t][o] # "idle"
            /\ job'[i][t][o] = "giveup" => pass[i] = "FAIL" \/ job[i][t][o] = "giveup"
            /\ job'[i][t][o] = "sent" => job[i][t][o] = "sent" \/ TakenForDone(i, t, o)
         \/ outbox[t][o] = pass'[i] /\ job'[i][t][o] = "queued" /\ UNCHANGED database
<1> DEFINE Goal ==
         \/ job'[i][t][o] = "idle"
         \/ /\ pass'[i] = pass[i]
            /\ job[i][t][o] # "idle"
            /\ job'[i][t][o] = "giveup" => pass[i] = "FAIL" \/ job[i][t][o] = "giveup"
            /\ job'[i][t][o] = "sent" => job[i][t][o] = "sent" \/ TakenForDone(i, t, o)
         \/ outbox[t][o] = pass'[i] /\ job'[i][t][o] = "queued" /\ UNCHANGED database
<1> USE DEF poller
<1>t. /\ PollerOK
      /\ pass \in [Instances -> {"INIT", "FAIL"}]
      /\ job \in [Instances -> [EventTypes -> [Orders -> JobState]]]
  BY DEF TypeOK, PollerOK
<1>a. ASSUME UNCHANGED <<pass, job>> PROVE Goal
  BY <1>a
<1>b. ASSUME UNCHANGED pass, NEW j \in Instances, NEW u \in EventTypes, NEW q \in Orders,
             NEW s, SetJob(j, u, q, s), job[j][u][q] # "idle",
             s = "giveup" => pass[j] = "FAIL",
             s = "sent" => TakenForDone(j, u, q)
      PROVE  Goal
  <2> job'[i][t][o] = IF j = i /\ u = t /\ q = o THEN s ELSE job[i][t][o]
    BY <1>b, <1>t, JobAfterSet
  <2> QED
    BY <1>b
<1>c. ASSUME NEW j \in Instances, Abort(j), UNCHANGED pass
      PROVE  Goal
  <2>1. CASE i = j
    BY <1>c, <2>1, <1>t DEF Abort, IdleJobs
  <2>2. CASE i # j
    BY <1>c, <2>2, <1>t DEF Abort
  <2> QED
    BY <2>1, <2>2
<1>1. ASSUME NEW q \in Orders, PlaceOrder(q)
      PROVE  Goal
  BY <1>1, <1>a DEF PlaceOrder
<1>2. ASSUME NEW j \in Instances, PollerStep(j)
      PROVE  Goal
  <2>1. CASE FindEventsByStatus(j)
    <3>1. PICK page \in SUBSET Rows(NextPass(j)) :
            job' = [job EXCEPT ![j] = [u \in EventTypes |-> [q \in Orders |->
                      IF <<u, q>> \in page THEN "queued" ELSE "idle"]]]
      BY <2>1 DEF FindEventsByStatus
    <3>2. CASE i = j
      <4>1. pass'[i] = NextPass(j) /\ UNCHANGED database
        BY <2>1, <3>2, <1>t DEF FindEventsByStatus
      <4>2. job'[i][t][o] = IF <<t, o>> \in page THEN "queued" ELSE "idle"
        BY <3>1, <3>2, <1>t
      <4>3. <<t, o>> \in page => outbox[t][o] = NextPass(j)
        BY DEF Rows
      <4> QED
        BY <4>1, <4>2, <4>3
    <3>3. CASE i # j
      <4>1. pass'[i] = pass[i] /\ job'[i] = job[i]
        BY <2>1, <3>1, <3>3, <1>t DEF FindEventsByStatus
      <4> QED
        BY <4>1
    <3> QED
      BY <3>2, <3>3
  <2>2. ASSUME NEW u \in EventTypes, NEW q \in Orders, PollerRow(j, u, q)
        PROVE  Goal
    <3>1. CASE ProduceEvent(j, u, q)
      <4>1. pass[j] = "INIT" /\ u \in Topics /\ log' = Append1(u, q)
        BY <3>1 DEF ProduceEvent
      <4>2. TakenForDone(j, u, q)
        BY <4>1, SentOnce DEF TakenForDone, Append1
      <4> QED BY <3>1, <4>2, <1>b DEF ProduceEvent, MayRun
    <3>2. CASE ProduceRefused(j, u, q)
      BY <3>2, <1>b DEF ProduceRefused, MayRun
    <3>3. CASE FailOrder(j, u, q)
      <4>1. TakenForDone(j, u, q)
        BY <3>3 DEF FailOrder, TakenForDone, Compensated, TypeOK, DatabaseOK
      <4> QED BY <3>3, <4>1, <1>b DEF FailOrder, MayRun, Heard, Unheard, RetryOrGiveUp
    <3>4. CASE MarkSuccess(j, u, q)
      BY <3>4, <1>b DEF MarkSuccess, Heard, Unheard, Finish, MarkError, RetryOrGiveUp
    <3>5. CASE HandleFailedEvent(j, u, q)
      BY <3>5, <1>b, <1>c DEF HandleFailedEvent, Heard, Unheard, Finish
    <3> QED
      BY <2>2, <3>1, <3>2, <3>3, <3>4, <3>5 DEF PollerRow
  <2>3. ASSUME NEW q \in Orders, PollerOrder(j, q)
        PROVE  Goal
    <3> "ORDER_SUCCESS" \in EventTypes /\ "ORDER_PAYMENT" \in EventTypes
      BY DEF EventTypes
    <3>1. CASE SkipProduce(j, q)
      <4>1. TakenForDone(j, "ORDER_SUCCESS", q)
        BY <3>1 DEF SkipProduce, TakenForDone, Topics
      <4> QED BY <3>1, <4>1, <1>b DEF SkipProduce, MayRun
    <3>2. CASE RestoreStock(j, q)
      <4>1. TakenForDone(j, "ORDER_PAYMENT", q)
        BY <3>2 DEF RestoreStock, TakenForDone, Compensated, TypeOK, DatabaseOK
      <4> QED BY <3>2, <4>1, <1>b DEF RestoreStock, MayRun
    <3> QED
      BY <2>3, <3>1, <3>2 DEF PollerOrder
  <2> QED
    BY <1>2, <2>1, <2>2, <2>3 DEF PollerStep
<1>3. ASSUME NEW j \in Instances, PollerFault(j)
      PROVE  Goal
  <2>1. CASE FindFails(j)
    <3>1. CASE i = j
      BY <2>1, <3>1, <1>t DEF FindFails, PassOver, IdleJobs
    <3>2. CASE i # j
      BY <2>1, <3>2, <1>t DEF FindFails
    <3> QED
      BY <3>1, <3>2
  <2>2. CASE BatchAborts(j)
    BY <2>2, <1>c DEF BatchAborts
  <2>3. ASSUME NEW u \in EventTypes, NEW q \in Orders, ProduceUncertain(j, u, q)
        PROVE  Goal
    <3>1. PICK n \in 0 .. ProducerTries, s \in {"idle", "sent"} :
            /\ s = "sent" => n > 0
            /\ log' = [log EXCEPT ![u][PartitionOf[q]] = @ \o [h \in 1 .. n |-> q]]
            /\ SetJob(j, u, q, s)
      BY <2>3 DEF ProduceUncertain
    <3>2. n \in Nat /\ pass[j] = "INIT" /\ u \in Topics
      BY <2>3, BoundsAssumption DEF ProduceUncertain
    <3>3. s = "sent" => TakenForDone(j, u, q)
      BY <3>1, <3>2, SentOften DEF TakenForDone
    <3> QED
      BY <2>3, <3>1, <3>3, <1>b DEF ProduceUncertain, MayRun
  <2>4. ASSUME NEW u \in EventTypes, NEW q \in Orders, FailOrderFails(j, u, q)
        PROVE  Goal
    BY <2>4, <1>b DEF FailOrderFails, MayRun, RetryOrGiveUp
  <2>5. ASSUME NEW u \in EventTypes, NEW q \in Orders, MarkFails(j, u, q)
        PROVE  Goal
    BY <2>5, <1>b DEF MarkFails, MarkError, RetryOrGiveUp
  <2>6. ASSUME NEW q \in Orders, RestoreConflict(j, q)
        PROVE  Goal
    <3> "ORDER_PAYMENT" \in EventTypes
      BY DEF EventTypes
    <3> QED
      BY <2>6, <1>b DEF RestoreConflict, MayRun, TakenForDone
  <2> QED
    BY <1>3, <2>1, <2>2, <2>3, <2>4, <2>5, <2>6 DEF PollerFault
<1>4. ASSUME NEW j \in Instances, ConsumerStep(j) \/ ConsumerFault(j)
      PROVE  Goal
  <2> UNCHANGED poller
    BY <1>4 DEF ConsumerStep, HandlerStep, Receive, AcquireLock, LockFails, CommitOffset,
                DeductStock, OutOfStock, DeductRejected, ReopenOrderCreated, Pay, PayRejected,
                CreateFailedEvent, MarkPaid, MarkPaidFails,
                ConsumerFault, ReopenFails, CreateFailedEventFails, CommitFails
  <2> QED
    BY <1>a
<1>5. CASE Environment
  <2>1. CASE (\E u \in LockedTopics : LeaseEnds(u)) \/ Rebalance
    BY <2>1, <1>a DEF LeaseEnds, Rebalance
  <2>2. ASSUME NEW j \in Instances, Crash(j)
        PROVE  Goal
    <3>1. CASE i = j
      BY <2>2, <3>1, <1>t DEF Crash, IdleJobs
    <3>2. CASE i # j
      BY <2>2, <3>2, <1>t DEF Crash
    <3> QED
      BY <3>1, <3>2
  <2> QED
    BY <1>5, <2>1, <2>2 DEF Environment
<1>6. CASE UNCHANGED vars
  BY <1>6, <1>a DEF vars
<1> QED
  BY <1>1, <1>2, <1>3, <1>4, <1>5, <1>6 DEF Next, InstanceNext

-----------------------------------------------------------------------------
\* Evidence is never withdrawn

\* A row that exists stays; a row's event stays backed; a refusal stays a
\* refusal, because the row of the refused event occupies its unique key.
Stable(t, o) ==
  /\ Taken(t, o) => Taken(t, o)'
  /\ Backed(t, o) => Backed(t, o)'
  /\ Refused(t, o) /\ Taken(t, o) => Refused(t, o)'

LEMMA EvidenceStable ==
  ASSUME [Next]_vars, TypeOK, \A q \in Orders : HistoryInv(q),
         NEW t \in EventTypes, NEW o \in Orders
  PROVE  Stable(t, o)
<1> USE DEF Stable, Taken, Backed, Refused
<1>t. /\ DatabaseOK
      /\ outbox \in [EventTypes -> [Orders -> EventStatus \cup {"none"}]]
      /\ status \in [Orders -> OrderStatus \cup {"none"}]
      /\ deducted \in [Orders -> Nat]
      /\ charged \in [Orders -> Nat]
  BY DEF TypeOK, DatabaseOK
<1>h. HistoryInv(o)
  OBVIOUS
<1>r. /\ {"INIT", "SUCCESS", "FAIL"} = EventStatus
      /\ {"ORDER_CREATED", "ORDER_DEDUCT_STOCK", "ORDER_PAYMENT", "ORDER_SUCCESS"} = EventTypes
  BY DEF EventStatus, EventTypes
<1>1. CASE UNCHANGED database
  BY <1>1 DEF database, history
<1>w. ASSUME NEW u \in EventTypes, NEW q \in Orders, NEW s \in EventStatus, SetRow(u, q, s)
      PROVE  Taken(t, o) => Taken(t, o)'
  <2> outbox'[t][o] = IF t = u /\ o = q THEN s ELSE outbox[t][o]
    BY <1>w, <1>t, RowAfterSet
  <2> QED
    BY DEF EventStatus
<1>2. ASSUME NEW q \in Orders, PlaceOrder(q)
      PROVE  Stable(t, o)
  <2>1. Taken(t, o) => Taken(t, o)'
    BY <1>2, <1>w, <1>r DEF PlaceOrder
  <2> QED
    BY <1>2, <1>t, <2>1 DEF PlaceOrder, history
<1>3. ASSUME NEW i \in Instances, NEW q \in Orders, RestoreStock(i, q)
      PROVE  Stable(t, o)
  BY <1>3 DEF RestoreStock
<1>4. ASSUME NEW i \in Instances, NEW q \in Orders, DeductStock(i, q)
      PROVE  Stable(t, o)
  <2>1. Taken(t, o) => Taken(t, o)'
    BY <1>4, <1>w, <1>r DEF DeductStock
  <2>2. deducted'[o] = IF o = q THEN deducted[o] + 1 ELSE deducted[o]
    BY <1>4, <1>t DEF DeductStock
  <2>3. ~Taken("ORDER_DEDUCT_STOCK", q) /\ UNCHANGED <<status, charged>>
    BY <1>4 DEF DeductStock
  <2>4. o = q => deducted[o] = 0
    BY <2>3, <1>h DEF HistoryInv
  <2>5. o = q => charged[o] = 0
    BY <2>4, <1>h DEF HistoryInv
  <2> QED
    BY <2>1, <2>2, <2>3, <2>4, <2>5, <1>h DEF HistoryInv
<1>5. ASSUME NEW i \in Instances, NEW q \in Orders, ReopenOrderCreated(i, q)
      PROVE  Stable(t, o)
  <2>1. Taken(t, o) => Taken(t, o)'
    BY <1>5, <1>w, <1>r DEF ReopenOrderCreated
  <2> QED
    BY <1>5, <2>1 DEF ReopenOrderCreated, history
<1>6. ASSUME NEW i \in Instances, NEW q \in Orders, Pay(i, q)
      PROVE  Stable(t, o)
  <2>1. Taken(t, o) => Taken(t, o)'
    BY <1>6, <1>w, <1>r DEF Pay
  <2>2. charged'[o] = IF o = q THEN charged[o] + 1 ELSE charged[o]
    BY <1>6, <1>t DEF Pay
  <2>3. ~Taken("ORDER_PAYMENT", q) /\ UNCHANGED <<status, deducted>>
    BY <1>6 DEF Pay
  <2>4. o = q => charged[o] = 0
    BY <2>3, <1>h DEF HistoryInv
  <2> QED
    BY <2>1, <2>2, <2>3, <2>4
<1>7. ASSUME NEW i \in Instances, NEW q \in Orders, CreateFailedEvent(i, q)
      PROVE  Stable(t, o)
  <2>1. Taken(t, o) => Taken(t, o)'
    <3>1. msg[i].topic \in Topics
      BY <1>7 DEF CreateFailedEvent, TypeOK, ConsumerOK, Messages
    <3>2. NextEvent(msg[i].topic) \in EventTypes
      BY <3>1, <1>r DEF NextEvent, Topics
    <3> QED
      BY <1>7, <3>2, <1>w, <1>r DEF CreateFailedEvent
  <2> QED
    BY <1>7, <2>1 DEF CreateFailedEvent, history
<1>8. ASSUME NEW i \in Instances, NEW q \in Orders, MarkPaid(i, q)
      PROVE  Stable(t, o)
  <2>1. Taken(t, o) => Taken(t, o)'
    BY <1>8, <1>w, <1>r DEF MarkPaid
  <2> QED
    BY <1>8, <1>t, <2>1 DEF MarkPaid, history
<1>9. ASSUME NEW i \in Instances, NEW u \in EventTypes, NEW q \in Orders, FailOrder(i, u, q)
      PROVE  Stable(t, o)
  BY <1>9, <1>t DEF FailOrder, history
<1>10. ASSUME NEW i \in Instances, NEW u \in EventTypes, NEW q \in Orders,
              MarkSuccess(i, u, q) \/ HandleFailedEvent(i, u, q)
       PROVE  Stable(t, o)
  <2>1. Taken(t, o) => Taken(t, o)'
    BY <1>10, <1>w, <1>r DEF MarkSuccess, HandleFailedEvent
  <2> QED
    BY <1>10, <2>1 DEF MarkSuccess, HandleFailedEvent, history
<1> QED
  BY DatabaseCases, <1>1, <1>2, <1>3, <1>4, <1>5, <1>6, <1>7, <1>8, <1>9, <1>10
     DEF DatabaseStep

-----------------------------------------------------------------------------
\* The invariant holds at first and is preserved, one conjunct at a time

LEMMA InitSagaInv == Init => SagaInv
<1> SUFFICES ASSUME Init
             PROVE  SagaInv
  OBVIOUS
<1> USE DEF Init
<1>1. \A o \in Orders : HistoryInv(o)
  BY DEF HistoryInv
<1>2. \A t \in EventTypes, o \in Orders : RowInv(t, o)
  BY DEF RowInv, Taken, Nothing
<1>3. \A t \in Topics, k \in Partitions : MessageInv(t, k)
  <2> SUFFICES ASSUME NEW t \in Topics, NEW k \in Partitions
               PROVE  Len(log[t][k]) = 0
    BY DEF MessageInv
  <2> QED
    OBVIOUS
<1>4. \A i \in Instances : HandlerInv(i)
  BY DEF HandlerInv
<1>5. \A i \in Instances, t \in EventTypes, o \in Orders : JobInv(i, t, o)
  BY DEF JobInv, IdleJobs
<1> QED
  BY <1>1, <1>2, <1>3, <1>4, <1>5 DEF SagaInv

\* The facts about the state every step lemma below starts from.
LEMMA Columns ==
  ASSUME TypeOK
  PROVE  /\ DatabaseOK
         /\ outbox \in [EventTypes -> [Orders -> EventStatus \cup {"none"}]]
         /\ status \in [Orders -> OrderStatus \cup {"none"}]
         /\ deducted \in [Orders -> Nat]
         /\ restored \in [Orders -> Nat]
         /\ charged \in [Orders -> Nat]
         /\ EventTypes = {"ORDER_CREATED", "ORDER_DEDUCT_STOCK", "ORDER_PAYMENT",
                          "ORDER_SUCCESS"}
         /\ EventStatus = {"INIT", "SUCCESS", "FAIL"}
  BY DEF TypeOK, DatabaseOK, EventTypes, EventStatus

LEMMA HistoryStep ==
  ASSUME [Next]_vars, TypeOK, SagaInv, NEW o \in Orders
  PROVE  HistoryInv(o)'
<1> USE DEF Taken
<1>t. HistoryInv(o) /\ \A q \in Orders : HistoryInv(q)
  BY DEF SagaInv
<1>k. /\ Taken("ORDER_DEDUCT_STOCK", o) => Taken("ORDER_DEDUCT_STOCK", o)'
      /\ Taken("ORDER_PAYMENT", o) => Taken("ORDER_PAYMENT", o)'
  <2> "ORDER_DEDUCT_STOCK" \in EventTypes /\ "ORDER_PAYMENT" \in EventTypes
    BY DEF EventTypes
  <2>1. Stable("ORDER_DEDUCT_STOCK", o) /\ Stable("ORDER_PAYMENT", o)
    BY <1>t, EvidenceStable
  <2> QED
    BY <2>1 DEF Stable
<1>1. CASE UNCHANGED <<status, deducted, restored, charged>>
  BY <1>1, <1>t, <1>k DEF HistoryInv
<1>2. ASSUME NEW q \in Orders, PlaceOrder(q)
      PROVE  HistoryInv(o)'
  <2>1. status'[o] = "PENDING_PAYMENT" \/ status'[o] = status[o]
    BY <1>2, Columns DEF PlaceOrder
  <2>2. UNCHANGED <<deducted, restored, charged>>
    BY <1>2 DEF PlaceOrder, history
  <2> QED
    BY <2>1, <2>2, <1>t, <1>k DEF HistoryInv
<1>3. ASSUME NEW i \in Instances, NEW q \in Orders, RestoreStock(i, q)
      PROVE  HistoryInv(o)'
  <2>1. JobInv(i, "ORDER_PAYMENT", q)
    BY DEF SagaInv, EventTypes
  <2>2. o = q => Taken("ORDER_PAYMENT", o) /\ deducted[o] = 1 /\ charged[o] = 0
    BY <1>3, <2>1 DEF RestoreStock, MayRun, JobInv, Refused
  <2>3. restored'[o] = IF o = q THEN restored[o] + 1 ELSE restored[o]
    BY <1>3, Columns DEF RestoreStock
  <2>4. UNCHANGED <<status, deducted, charged>>
    BY <1>3 DEF RestoreStock
  <2> QED
    BY <2>2, <2>3, <2>4, <1>t, <1>k, Columns DEF HistoryInv
<1>4. ASSUME NEW i \in Instances, NEW q \in Orders, DeductStock(i, q)
      PROVE  HistoryInv(o)'
  <2>1. o = q => deducted[o] = 0 /\ charged[o] = 0 /\ ~(restored[o] > 0) /\ status[o] # "FAILED"
    BY <1>4, <1>t DEF DeductStock, HistoryInv
  <2>2. deducted'[o] = IF o = q THEN deducted[o] + 1 ELSE deducted[o]
    BY <1>4, Columns DEF DeductStock
  <2>3. outbox'["ORDER_DEDUCT_STOCK"][q] = "INIT"
    BY <1>4, Columns, RowAfterSet DEF DeductStock
  <2>4. UNCHANGED <<status, restored, charged>>
    BY <1>4 DEF DeductStock
  <2> QED
    BY <2>1, <2>2, <2>3, <2>4, <1>t, <1>k DEF HistoryInv
<1>5. ASSUME NEW i \in Instances, NEW q \in Orders, Pay(i, q)
      PROVE  HistoryInv(o)'
  <2>1. HandlerInv(i)
    BY DEF SagaInv
  <2>2. o = q => deducted[o] = 1
    BY <1>5, <2>1 DEF Pay, Handling, HandlerInv, Backed
  <2>3. o = q => charged[o] = 0 /\ ~(restored[o] > 0)
    BY <1>5, <1>t DEF Pay, HistoryInv
  <2>4. charged'[o] = IF o = q THEN charged[o] + 1 ELSE charged[o]
    BY <1>5, Columns DEF Pay
  <2>5. outbox'["ORDER_PAYMENT"][q] = "INIT"
    BY <1>5, Columns, RowAfterSet DEF Pay
  <2>6. UNCHANGED <<status, deducted, restored>>
    BY <1>5 DEF Pay
  <2> QED
    BY <2>2, <2>3, <2>4, <2>5, <2>6, <1>t, <1>k, Columns DEF HistoryInv
<1>6. ASSUME NEW i \in Instances, NEW q \in Orders, MarkPaid(i, q)
      PROVE  HistoryInv(o)'
  <2>1. HandlerInv(i)
    BY DEF SagaInv
  <2>2. o = q => charged[o] = 1
    BY <1>6, <2>1 DEF MarkPaid, Handling, HandlerInv, Backed
  <2>3. status'[o] = IF o = q THEN "PAID" ELSE status[o]
    BY <1>6, Columns DEF MarkPaid
  <2>4. UNCHANGED <<deducted, restored, charged>>
    BY <1>6 DEF MarkPaid, history
  <2> QED
    BY <2>2, <2>3, <2>4, <1>t, <1>k DEF HistoryInv
<1>7. ASSUME NEW i \in Instances, NEW u \in EventTypes, NEW q \in Orders, FailOrder(i, u, q)
      PROVE  HistoryInv(o)'
  <2>1. JobInv(i, u, q)
    BY DEF SagaInv
  <2>2. o = q => Taken("ORDER_DEDUCT_STOCK", o) /\ deducted[o] = 0
    BY <1>7, <2>1 DEF FailOrder, MayRun, JobInv, Refused
  <2>3. status'[o] = IF o = q THEN "FAILED" ELSE status[o]
    BY <1>7, Columns DEF FailOrder
  <2>4. UNCHANGED <<deducted, restored, charged>>
    BY <1>7 DEF FailOrder, history
  <2> QED
    BY <2>2, <2>3, <2>4, <1>t, <1>k DEF HistoryInv
<1> QED
  <2>1. ASSUME NEW i \in Instances, NEW q \in Orders,
               ReopenOrderCreated(i, q) \/ CreateFailedEvent(i, q)
        PROVE  HistoryInv(o)'
    BY <2>1, <1>1 DEF ReopenOrderCreated, CreateFailedEvent, history
  <2>2. ASSUME NEW i \in Instances, NEW u \in EventTypes, NEW q \in Orders,
               MarkSuccess(i, u, q) \/ HandleFailedEvent(i, u, q)
        PROVE  HistoryInv(o)'
    BY <2>2, <1>1 DEF MarkSuccess, HandleFailedEvent, history
  <2>3. UNCHANGED database => UNCHANGED <<status, deducted, restored, charged>>
    BY DEF database, history
  <2> QED
    BY DatabaseCases, <1>1, <1>2, <1>3, <1>4, <1>5, <1>6, <1>7, <2>1, <2>2, <2>3
       DEF DatabaseStep

LEMMA RowStep ==
  ASSUME [Next]_vars, TypeOK, SagaInv, NEW t \in EventTypes, NEW o \in Orders
  PROVE  RowInv(t, o)'
<1>t. RowInv(t, o) /\ HistoryInv(o) /\ Stable(t, o)
  <2> \A q \in Orders : HistoryInv(q)
    BY DEF SagaInv
  <2> QED
    BY EvidenceStable DEF SagaInv
<1>p. status[o] # "none" => status'[o] # "none"
  <2>1. Stable("ORDER_CREATED", o)
    BY EvidenceStable DEF SagaInv, EventTypes
  <2>2. Backed("ORDER_CREATED", o) <=> status[o] # "none"
    BY DEF Backed
  <2>3. Backed("ORDER_CREATED", o)' <=> status'[o] # "none"
    BY DEF Backed
  <2> QED
    BY <2>1, <2>2, <2>3 DEF Stable
\* A row that keeps its status keeps its invariant.
<1>1. CASE outbox'[t][o] = outbox[t][o]
  BY <1>1, <1>t, <1>p DEF RowInv, Stable, Taken
\* A row that is written tells the truth at that moment.
<1>w. ASSUME NEW u \in EventTypes, NEW q \in Orders, NEW r \in EventStatus, SetRow(u, q, r),
             u = t /\ q = o => /\ status'[o] # "none"
                               /\ r = "INIT" => Backed(t, o)'
                               /\ r = "FAIL" => Refused(t, o)'
      PROVE  RowInv(t, o)'
  <2>1. CASE u = t /\ q = o
    <3>1. outbox'[t][o] = r
      BY <1>w, <2>1, Columns, RowAfterSet
    <3>2. status'[o] # "none"
      BY <1>w, <2>1
    <3>3. outbox'[t][o] = "INIT" => Backed(t, o)'
      BY <1>w, <2>1, <3>1
    <3>4. outbox'[t][o] = "FAIL" => Refused(t, o)'
      BY <1>w, <2>1, <3>1
    <3> QED
      BY <3>2, <3>3, <3>4 DEF RowInv
  <2>2. CASE ~(u = t /\ q = o)
    <3>1. outbox'[t][o] = outbox[t][o]
      BY <1>w, <2>2, Columns, RowAfterSet
    <3> QED
      BY <3>1, <1>1
  <2> QED
    BY <2>1, <2>2
<1>2. ASSUME NEW q \in Orders, PlaceOrder(q)
      PROVE  RowInv(t, o)'
  <2>1. q = o => status'[o] # "none"
    BY <1>2, Columns DEF PlaceOrder
  <2>2. t = "ORDER_CREATED" /\ status'[o] # "none" => Backed(t, o)'
    BY DEF Backed
  <2> QED
    BY <1>2, <2>1, <2>2, <1>w, Columns DEF PlaceOrder
<1>3. ASSUME NEW i \in Instances, NEW q \in Orders, DeductStock(i, q)
      PROVE  RowInv(t, o)'
  <2>1. HandlerInv(i)
    BY DEF SagaInv
  <2>2. q = o => status'[o] # "none"
    BY <1>3, <2>1, <1>p DEF DeductStock, Handling, HandlerInv, Backed
  <2>3. q = o => deducted'[o] = 1
    BY <1>3, <1>t, Columns DEF DeductStock, HistoryInv
  <2>4. t = "ORDER_DEDUCT_STOCK" /\ status'[o] # "none" /\ deducted'[o] = 1 => Backed(t, o)'
    BY DEF Backed
  <2> QED
    BY <1>3, <2>2, <2>3, <2>4, <1>w, Columns DEF DeductStock
<1>4. ASSUME NEW i \in Instances, NEW q \in Orders, ReopenOrderCreated(i, q)
      PROVE  RowInv(t, o)'
  <2>1. HandlerInv(i)
    BY DEF SagaInv
  <2>2. q = o => status'[o] # "none"
    BY <1>4, <2>1, <1>p DEF ReopenOrderCreated, HandlerInv, Backed
  <2>3. t = "ORDER_CREATED" /\ status'[o] # "none" => Backed(t, o)'
    BY DEF Backed
  <2> QED
    BY <1>4, <2>2, <2>3, <1>w, Columns DEF ReopenOrderCreated
<1>5. ASSUME NEW i \in Instances, NEW q \in Orders, Pay(i, q)
      PROVE  RowInv(t, o)'
  <2>1. HandlerInv(i)
    BY DEF SagaInv
  <2>2. q = o => status'[o] # "none"
    BY <1>5, <2>1, <1>p DEF Pay, Handling, HandlerInv, Backed
  <2>3. q = o => charged'[o] = 1
    BY <1>5, <1>t, Columns DEF Pay, HistoryInv, Taken
  <2>4. t = "ORDER_PAYMENT" /\ status'[o] # "none" /\ charged'[o] = 1 => Backed(t, o)'
    BY DEF Backed
  <2> QED
    BY <1>5, <2>2, <2>3, <2>4, <1>w, Columns DEF Pay
<1>6. ASSUME NEW i \in Instances, NEW q \in Orders, CreateFailedEvent(i, q)
      PROVE  RowInv(t, o)'
  <2> DEFINE u == NextEvent(msg[i].topic)
  <2>1. /\ msg[i].topic \in LockedTopics
        /\ Backed(msg[i].topic, msg[i].order)
        /\ msg[i].order = q
    BY <1>6 DEF CreateFailedEvent, SagaInv, HandlerInv
  <2>2. u \in EventTypes
    BY <2>1 DEF NextEvent, LockedTopics, EventTypes
  <2>3. q = o => status'[o] # "none"
    BY <2>1, <1>p DEF Backed
  <2>4. CASE Taken(u, q)
    BY <1>6, <2>4, <1>1 DEF CreateFailedEvent
  <2>5. CASE ~Taken(u, q)
    <3>1. SetRow(u, q, "FAIL") /\ UNCHANGED <<deducted, charged>>
      BY <1>6, <2>5 DEF CreateFailedEvent, history
    <3>2. ASSUME u = t, q = o
          PROVE  Refused(t, o)'
      <4>1. CASE msg[i].topic = "ORDER_CREATED"
        <5>1. t = "ORDER_DEDUCT_STOCK"
          BY <3>2, <4>1 DEF NextEvent
        <5>2. deducted[o] = 0
          BY <2>5, <3>2, <5>1, <1>t DEF HistoryInv
        <5> QED
          BY <5>1, <5>2, <3>1 DEF Refused
      <4>2. CASE msg[i].topic = "ORDER_DEDUCT_STOCK"
        <5>1. t = "ORDER_PAYMENT"
          BY <3>2, <4>2 DEF NextEvent
        <5>2. charged[o] = 0
          BY <2>5, <3>2, <5>1, <1>t DEF HistoryInv
        <5>3. deducted[o] = 1
          BY <2>1, <3>2, <4>2 DEF Backed
        <5> QED
          BY <5>1, <5>2, <5>3, <3>1 DEF Refused
      <4> QED
        BY <2>1, <4>1, <4>2 DEF LockedTopics
    <3> QED
      BY <3>1, <3>2, <2>2, <2>3, <1>w, Columns
  <2> QED
    BY <2>4, <2>5
<1>7. ASSUME NEW i \in Instances, NEW q \in Orders, MarkPaid(i, q)
      PROVE  RowInv(t, o)'
  <2>1. HandlerInv(i)
    BY DEF SagaInv
  <2>2. q = o => status'[o] # "none"
    BY <1>7, <2>1, <1>p DEF MarkPaid, Handling, HandlerInv, Backed
  <2>3. t = "ORDER_SUCCESS" /\ status'[o] # "none" => Backed(t, o)'
    BY DEF Backed
  <2> QED
    BY <1>7, <2>2, <2>3, <1>w, Columns DEF MarkPaid
<1>8. ASSUME NEW i \in Instances, NEW u \in EventTypes, NEW q \in Orders, MarkSuccess(i, u, q)
      PROVE  RowInv(t, o)'
  <2>1. JobInv(i, u, q) /\ RowInv(u, q)
    BY DEF SagaInv
  <2>2. q = o => status'[o] # "none"
    BY <1>8, <2>1, <1>p DEF MarkSuccess, JobInv, RowInv
  <2> QED
    BY <1>8, <2>2, <1>w, Columns DEF MarkSuccess
<1>9. ASSUME NEW i \in Instances, NEW u \in EventTypes, NEW q \in Orders,
             HandleFailedEvent(i, u, q)
      PROVE  RowInv(t, o)'
  <2>1. JobInv(i, u, q) /\ RowInv(u, q)
    BY DEF SagaInv
  <2>2. q = o => status'[o] # "none"
    BY <1>9, <2>1, <1>p DEF HandleFailedEvent, JobInv, RowInv
  <2>3. pass[i] = "FAIL"
    BY <1>9, <2>1 DEF HandleFailedEvent, JobInv, TypeOK, PollerOK
  <2>4. u = t /\ q = o => Refused(t, o)'
    BY <1>9, <2>1, <2>3, <1>t DEF HandleFailedEvent, JobInv, Stable
  <2> QED
    BY <1>9, <2>2, <2>4, <1>w, Columns DEF HandleFailedEvent
<1> QED
  <2>1. UNCHANGED database => outbox'[t][o] = outbox[t][o]
    BY DEF database
  <2>2. ASSUME NEW i \in Instances, NEW q \in Orders, RestoreStock(i, q)
        PROVE  outbox'[t][o] = outbox[t][o]
    BY <2>2 DEF RestoreStock
  <2>3. ASSUME NEW i \in Instances, NEW u \in EventTypes, NEW q \in Orders, FailOrder(i, u, q)
        PROVE  outbox'[t][o] = outbox[t][o]
    BY <2>3 DEF FailOrder
  <2> QED
    BY DatabaseCases, <1>1, <1>2, <1>3, <1>4, <1>5, <1>6, <1>7, <1>8, <1>9, <2>1, <2>2, <2>3
       DEF DatabaseStep

LEMMA MessageStep ==
  ASSUME [Next]_vars, TypeOK, SagaInv, NEW t \in Topics, NEW k \in Partitions
  PROVE  MessageInv(t, k)'
<1> t \in EventTypes
  BY DEF Topics, EventTypes
<1>t. /\ log \in [Topics -> [Partitions -> Seq(Orders)]]
      /\ log[t][k] \in Seq(Orders)
      /\ PartitionOf \in [Orders -> Partitions]
  BY OrdersAssumption DEF TypeOK, KafkaOK
<1>b. \A q \in Orders : Backed(t, q) => Backed(t, q)'
  BY EvidenceStable DEF SagaInv, Stable
<1> DEFINE Good(q) == /\ q \in Orders
                      /\ status'[q] # "none"
                      /\ t = "ORDER_DEDUCT_STOCK" => deducted'[q] = 1
                      /\ t = "ORDER_PAYMENT" => charged'[q] = 1
\* The messages already there stay backed.
<1>o. \A n \in 1 .. Len(log[t][k]) : Good(log[t][k][n])
  <2> SUFFICES ASSUME NEW n \in 1 .. Len(log[t][k])
               PROVE  Good(log[t][k][n])
    OBVIOUS
  <2>1. PICK q \in Orders : q = log[t][k][n]
    BY <1>t
  <2>2. Backed(t, q)
    BY <2>1 DEF SagaInv, MessageInv
  <2>3. Good(q)
    BY <2>2, <1>b DEF Backed
  <2> QED
    BY <2>1, <2>3
<1>g. ASSUME \A n \in 1 .. Len(log'[t][k]) : Good(log'[t][k][n])
      PROVE  MessageInv(t, k)'
  BY <1>g DEF MessageInv, Backed
<1> HIDE DEF Good
<1>1. CASE UNCHANGED log
  BY <1>1, <1>o, <1>g
<1>2. ASSUME NEW i \in Instances, NEW u \in EventTypes, NEW q \in Orders, LogStep(i, u, q)
      PROVE  MessageInv(t, k)'
  <2>1. CASE t = u /\ k = PartitionOf[q]
    <3>1. JobInv(i, u, q)
      BY DEF SagaInv
    <3>2. Backed(t, q)'
      BY <1>2, <2>1, <3>1, <1>b DEF LogStep, JobInv
    <3>q. Good(q)
      BY <3>2 DEF Good, Backed
    <3>3. CASE log' = Append1(u, q)
      <4>1. log'[t][k] = Append(log[t][k], q)
        BY <2>1, <3>3, <1>t DEF Append1
      <4> QED
        BY <4>1, <1>t, <1>o, <3>q, <1>g
    <3>4. ASSUME NEW m \in Nat,
                 log' = [log EXCEPT ![u][PartitionOf[q]] = @ \o [j \in 1 .. m |-> q]]
          PROVE  MessageInv(t, k)'
      <4>1. log'[t][k] = log[t][k] \o [j \in 1 .. m |-> q]
        BY <2>1, <3>4, <1>t
      <4>2. [j \in 1 .. m |-> q] \in Seq(Orders) /\ Len([j \in 1 .. m |-> q]) = m
        BY <3>4
      <4>3. \A n \in 1 .. Len(log'[t][k]) :
               log'[t][k][n] = IF n <= Len(log[t][k]) THEN log[t][k][n] ELSE q
        BY <4>1, <4>2, <1>t
      <4>4. Len(log[t][k]) \in Nat /\ Len(log'[t][k]) \in Nat
        BY <4>1, <4>2, <1>t
      <4> QED
        BY <4>3, <4>4, <1>o, <3>q, <1>g
    <3> QED
      BY <1>2, <3>3, <3>4 DEF LogStep
  <2>2. CASE ~(t = u /\ k = PartitionOf[q])
    <3>1. log'[t][k] = log[t][k]
      BY <1>2, <2>2, <1>t DEF LogStep, Append1
    <3> QED
      BY <3>1, <1>o, <1>g
  <2> QED
    BY <2>1, <2>2
<1> QED
  BY <1>1, <1>2, LogCases

LEMMA HandlerStepInv ==
  ASSUME [Next]_vars, TypeOK, SagaInv, NEW i \in Instances
  PROVE  HandlerInv(i)'
<1>t. /\ HandlerInv(i)
      /\ pc[i] # "idle" => msg[i] \in Messages
      /\ pc \in [Instances -> HandlerState]
      /\ msg \in [Instances -> Messages \cup {NoMessage}]
      /\ Topics \subseteq EventTypes
  BY DEF SagaInv, TypeOK, ConsumerOK, Topics, EventTypes
<1>b. ASSUME NEW t \in Topics, NEW q \in Orders, Backed(t, q)
      PROVE  Backed(t, q)'
  <2>1. Stable(t, q)
    BY <1>t, EvidenceStable DEF SagaInv
  <2> QED
    BY <2>1, <1>b DEF Stable
\* The message it already had stays backed.
<1>m. ASSUME pc[i] # "idle", msg'[i] = msg[i]
      PROVE  Backed(msg[i].topic, msg[i].order)'
  <2>1. /\ msg[i].topic \in Topics
        /\ msg[i].order \in Orders
        /\ Backed(msg[i].topic, msg[i].order)
    BY <1>m, <1>t DEF HandlerInv, Messages
  <2>2. ASSUME NEW t \in Topics, NEW q \in Orders, t = msg[i].topic, q = msg[i].order
        PROVE  Backed(msg[i].topic, msg[i].order)'
    <3>1. Backed(t, q)'
      BY <2>1, <2>2, <1>b
    <3> QED
      BY <3>1, <2>2, <1>m DEF Backed
  <2> QED
    BY <2>1, <2>2
<1>1. CASE pc'[i] = pc[i] /\ msg'[i] = msg[i]
  BY <1>1, <1>m, <1>t DEF HandlerInv
<1>2. CASE pc'[i] = "idle"
  BY <1>2 DEF HandlerInv
<1>3. ASSUME NEW t \in Topics, NEW k \in Partitions, Receive(i, t, k)
      PROVE  HandlerInv(i)'
  <2>1. consumed[t][k] + 1 \in 1 .. Len(log[t][k])
    BY <1>3 DEF Receive, TypeOK, KafkaOK
  <2>2. PICK q \in Orders : q = log[t][k][consumed[t][k] + 1]
    BY <2>1 DEF TypeOK, KafkaOK
  <2>3. Backed(t, q)
    BY <2>1, <2>2 DEF SagaInv, MessageInv
  <2>4. msg'[i].topic = t /\ msg'[i].order = q /\ pc'[i] # "failrow"
    BY <1>3, <1>t, <2>2 DEF Receive, GoTo
  <2>5. Backed(t, q)'
    BY <2>3, <1>b
  <2>6. Backed(msg[i].topic, msg[i].order)'
    BY <2>4, <2>5 DEF Backed
  <2> QED
    BY <2>4, <2>6 DEF HandlerInv
<1>4. CASE /\ pc[i] # "idle"
           /\ msg'[i] = msg[i]
           /\ pc'[i] = "failrow" => msg[i].topic \in LockedTopics
  BY <1>4, <1>m DEF HandlerInv
<1> QED
  BY <1>1, <1>2, <1>3, <1>4, ConsumerCases

LEMMA JobStep ==
  ASSUME [Next]_vars, TypeOK, SagaInv,
         NEW i \in Instances, NEW t \in EventTypes, NEW o \in Orders
  PROVE  JobInv(i, t, o)'
<1>t. /\ JobInv(i, t, o)
      /\ RowInv(t, o)
      /\ pass \in [Instances -> {"INIT", "FAIL"}]
  BY DEF SagaInv, TypeOK, PollerOK
<1>s. Stable(t, o)
  BY EvidenceStable DEF SagaInv
<1>1. CASE job'[i][t][o] = "idle"
  BY <1>1 DEF JobInv
<1>2. CASE /\ pass'[i] = pass[i]
           /\ job[i][t][o] # "idle"
           /\ job'[i][t][o] = "giveup" => pass[i] = "FAIL" \/ job[i][t][o] = "giveup"
  <2>1. Taken(t, o)'
    BY <1>2, <1>t, <1>s DEF JobInv, Stable
  <2>2. pass'[i] = "INIT" => Backed(t, o)'
    BY <1>2, <1>t, <1>s DEF JobInv, Stable
  <2>3. pass'[i] = "INIT" => job'[i][t][o] # "giveup"
    BY <1>2, <1>t DEF JobInv
  <2>4. pass'[i] = "FAIL" => Refused(t, o)'
    BY <1>2, <1>t, <1>s DEF JobInv, Stable
  <2> QED
    BY <2>1, <2>2, <2>3, <2>4 DEF JobInv
<1>3. CASE outbox[t][o] = pass'[i] /\ job'[i][t][o] = "queued" /\ UNCHANGED database
  <2>0. pass'[i] \in {"INIT", "FAIL"}
    BY StepTypeOK DEF TypeOK, PollerOK
  <2>1. Taken(t, o)
    BY <1>3, <2>0 DEF Taken
  <2>2. Taken(t, o)'
    BY <2>1, <1>s DEF Stable
  <2>3. pass'[i] = "INIT" => Backed(t, o)'
    BY <1>3, <1>t, <1>s DEF RowInv, Stable
  <2>4. pass'[i] = "FAIL" => Refused(t, o)'
    BY <1>3, <2>1, <1>t, <1>s DEF RowInv, Stable
  <2> QED
    BY <1>3, <2>2, <2>3, <2>4 DEF JobInv
<1> QED
  BY <1>1, <1>2, <1>3, JobCases

-----------------------------------------------------------------------------
\* In every reachable state every event tells the truth about its order.
THEOREM EventsTruthful == Spec => []SagaInv
<1>1. TypeOK /\ SagaInv /\ [Next]_vars => SagaInv'
  BY HistoryStep, RowStep, MessageStep, HandlerStepInv, JobStep DEF SagaInv
<1> QED
  BY <1>1, InitSagaInv, TypeCorrect, PTL DEF Spec

\* A message redelivered, published twice or handled by two instances deducts
\* an order's stock and charges its user at most once (the unique key of the
\* follow-up row, written in the same transaction).
THEOREM DeductedAndChargedOnce == Spec => []AtMostOnce
<1>1. SagaInv => AtMostOnce
  BY DEF SagaInv, HistoryInv, AtMostOnce
<1> QED
  BY <1>1, EventsTruthful, PTL

\* A PAID order was charged, its stock was deducted and never put back; a FAILED one
\* holds no stock and took no money.
THEOREM PaidOrFailedTruly == Spec => []EndsTruthful
<1>1. TypeOK /\ SagaInv => EndsTruthful
  BY DEF TypeOK, DatabaseOK, SagaInv, HistoryInv, EndsTruthful
<1> QED
  BY <1>1, EventsTruthful, TypeCorrect, PTL

\* Stock is put back only for an order that held it and was not charged.
THEOREM RestockOnlyUncharged == Spec => []NoRestockOfChargedOrder
<1>1. TypeOK /\ SagaInv => NoRestockOfChargedOrder
  BY DEF TypeOK, DatabaseOK, SagaInv, HistoryInv, NoRestockOfChargedOrder
<1> QED
  BY <1>1, EventsTruthful, TypeCorrect, PTL

-----------------------------------------------------------------------------
\* The saga implements OrderLifecycle: what a row, a message or a job says of
\* its order fixes the phase the order is in when a step is taken for it.

\* What Phase looks at.
Facts(o) == <<status[o], deducted[o], restored[o], charged[o]>>

LEMMA SamePhase ==
  ASSUME NEW o \in Orders, UNCHANGED Facts(o)
  PROVE  Phase(o)' = Phase(o)
  BY DEF Facts, Phase

\* Only the order of the action moves.
LEMMA MoveOne ==
  ASSUME NEW q \in Orders, NEW from, NEW to,
         Phase(q) = from, Phase(q)' = to,
         \A o \in Orders \ {q} : UNCHANGED Facts(o)
  PROVE  Lifecycle!Move(q, from, to)
<1>1. \A o \in Orders \ {q} : Phase(o)' = Phase(o)
  BY SamePhase
<1>2. [o \in Orders |-> Phase(o)][q] = from
  OBVIOUS
<1>3. [o \in Orders |-> Phase(o)]' = [[o \in Orders |-> Phase(o)] EXCEPT ![q] = to]
  BY <1>1
<1> QED
  BY <1>2, <1>3 DEF Lifecycle!Move

LEMMA Stutter ==
  ASSUME \A o \in Orders : UNCHANGED Facts(o)
  PROVE  UNCHANGED [o \in Orders |-> Phase(o)]
<1>1. \A o \in Orders : Phase(o)' = Phase(o)
  BY SamePhase
<1> QED
  BY <1>1

\* How the phases read in the reachable states.
LEMMA Phases ==
  ASSUME TypeOK, SagaInv, NEW o \in Orders
  PROVE  /\ status[o] = "none" => deducted[o] = 0 /\ restored[o] = 0 /\ charged[o] = 0
         /\ status[o] \in {"none", "PENDING_PAYMENT", "PAID", "FAILED"}
         /\ deducted[o] \in {0, 1} /\ charged[o] \in {0, 1} /\ restored[o] \in Nat
         /\ status[o] = "PAID" => charged[o] = 1
         /\ status[o] = "FAILED" => deducted[o] = 0
         /\ charged[o] = 1 => deducted[o] = 1 /\ restored[o] = 0
         /\ restored[o] > 0 => deducted[o] = 1
<1>1. HistoryInv(o) /\ RowInv("ORDER_DEDUCT_STOCK", o) /\ RowInv("ORDER_PAYMENT", o)
  BY DEF SagaInv, EventTypes
<1> QED
  BY <1>1, Columns DEF HistoryInv, RowInv, OrderStatus

\* The actions on which Phase depends, each with the order it is about.
PhaseAction(q) ==
  \/ PlaceOrder(q)
  \/ \E i \in Instances :
       \/ RestoreStock(i, q)
       \/ DeductStock(i, q)
       \/ Pay(i, q)
       \/ MarkPaid(i, q)
       \/ \E t \in EventTypes : FailOrder(i, t, q)

LEMMA PhaseCases ==
  [Next]_vars => (\A o \in Orders : UNCHANGED Facts(o)) \/ \E q \in Orders : PhaseAction(q)
<1>1. UNCHANGED <<status, deducted, restored, charged>> =>
        \A o \in Orders : UNCHANGED Facts(o)
  BY DEF Facts
<1>2. ASSUME NEW i \in Instances, NEW q \in Orders,
             ReopenOrderCreated(i, q) \/ CreateFailedEvent(i, q)
      PROVE  UNCHANGED <<status, deducted, restored, charged>>
  BY <1>2 DEF ReopenOrderCreated, CreateFailedEvent, history
<1>3. ASSUME NEW i \in Instances, NEW t \in EventTypes, NEW q \in Orders,
             MarkSuccess(i, t, q) \/ HandleFailedEvent(i, t, q)
      PROVE  UNCHANGED <<status, deducted, restored, charged>>
  BY <1>3 DEF MarkSuccess, HandleFailedEvent, history
<1>4. UNCHANGED database => UNCHANGED <<status, deducted, restored, charged>>
  BY DEF database, history
<1> QED
  BY <1>1, <1>2, <1>3, <1>4, DatabaseCases DEF DatabaseStep, PhaseAction

\* A step leaves every order in its phase or moves one order along the
\* lifecycle.  The phase before the step comes from SagaInv, through the
\* handler's message or the poller's job.
LEMMA LifecycleStep ==
  TypeOK /\ SagaInv /\ [Next]_vars =>
    [Lifecycle!Next]_([o \in Orders |-> Phase(o)])
<1> SUFFICES ASSUME TypeOK, SagaInv, [Next]_vars
             PROVE  Lifecycle!Next \/ UNCHANGED [o \in Orders |-> Phase(o)]
  OBVIOUS
<1>s. (\A o \in Orders : UNCHANGED Facts(o)) => UNCHANGED [o \in Orders |-> Phase(o)]
  BY Stutter
<1>1. ASSUME NEW q \in Orders, PlaceOrder(q)
      PROVE  Lifecycle!Next
  <2>1. /\ status[q] = "none" /\ status'[q] = "PENDING_PAYMENT"
        /\ UNCHANGED <<deducted, restored, charged>>
        /\ \A o \in Orders \ {q} : UNCHANGED Facts(o)
    BY <1>1, Columns DEF PlaceOrder, history, Facts
  <2>2. Phase(q) = "none" /\ Phase(q)' = "placed"
    BY <2>1, Phases DEF Phase
  <2>3. Lifecycle!Place(q)
    BY <2>1, <2>2, MoveOne DEF Lifecycle!Place
  <2> QED
    BY <2>3 DEF Lifecycle!Next
<1>2. ASSUME NEW i \in Instances, NEW q \in Orders, DeductStock(i, q)
      PROVE  Lifecycle!Next
  <2>1. HandlerInv(i) /\ HistoryInv(q)
    BY DEF SagaInv
  <2>2. status[q] # "none" /\ deducted[q] = 0 /\ status[q] # "FAILED"
    BY <1>2, <2>1 DEF DeductStock, Handling, HandlerInv, Backed, HistoryInv
  <2>3. status[q] = "PENDING_PAYMENT" /\ charged[q] = 0 /\ restored[q] = 0
    BY <2>2, Phases
  <2>4. /\ deducted'[q] = 1 /\ UNCHANGED <<status, restored, charged>>
        /\ \A o \in Orders \ {q} : UNCHANGED Facts(o)
    BY <1>2, <2>2, Columns DEF DeductStock, Facts
  <2>5. Phase(q) = "placed" /\ Phase(q)' = "held"
    BY <2>2, <2>3, <2>4 DEF Phase
  <2>6. Lifecycle!Hold(q)
    BY <2>4, <2>5, MoveOne DEF Lifecycle!Hold
  <2> QED
    BY <2>6 DEF Lifecycle!Next
<1>3. ASSUME NEW i \in Instances, NEW q \in Orders, Pay(i, q)
      PROVE  Lifecycle!Next
  <2>1. HandlerInv(i) /\ HistoryInv(q)
    BY DEF SagaInv
  <2>2. status[q] # "none" /\ deducted[q] = 1
    BY <1>3, <2>1 DEF Pay, Handling, HandlerInv, Backed
  <2>3. charged[q] = 0 /\ ~(restored[q] > 0)
    BY <1>3, <2>1 DEF Pay, HistoryInv, Taken
  <2>4. status[q] = "PENDING_PAYMENT" /\ restored[q] = 0
    BY <2>2, <2>3, Phases
  <2>5. /\ charged'[q] = 1 /\ UNCHANGED <<status, deducted, restored>>
        /\ \A o \in Orders \ {q} : UNCHANGED Facts(o)
    BY <1>3, <2>3, Columns DEF Pay, Facts
  <2>6. Phase(q) = "held" /\ Phase(q)' = "charged"
    BY <2>2, <2>3, <2>4, <2>5 DEF Phase
  <2>7. Lifecycle!Charge(q)
    BY <2>5, <2>6, MoveOne DEF Lifecycle!Charge
  <2> QED
    BY <2>7 DEF Lifecycle!Next
<1>4. ASSUME NEW i \in Instances, NEW q \in Orders, MarkPaid(i, q)
      PROVE  Lifecycle!Next \/ UNCHANGED [o \in Orders |-> Phase(o)]
  <2>1. HandlerInv(i)
    BY DEF SagaInv
  <2>2. charged[q] = 1 /\ deducted[q] = 1 /\ restored[q] = 0
    BY <1>4, <2>1, Phases DEF MarkPaid, Handling, HandlerInv, Backed
  <2>3. /\ status'[q] = "PAID" /\ UNCHANGED <<deducted, restored, charged>>
        /\ \A o \in Orders \ {q} : UNCHANGED Facts(o)
    BY <1>4, Columns DEF MarkPaid, history, Facts
  <2>4. CASE status[q] = "PAID"
    BY <2>3, <2>4, <1>s DEF Facts
  <2>5. CASE status[q] # "PAID"
    <3>1. status[q] = "PENDING_PAYMENT"
      BY <2>2, <2>5, Phases
    <3>2. Phase(q) = "charged" /\ Phase(q)' = "paid"
      BY <2>2, <2>3, <3>1 DEF Phase
    <3>3. Lifecycle!Confirm(q)
      BY <2>3, <3>2, MoveOne DEF Lifecycle!Confirm
    <3> QED
      BY <3>3 DEF Lifecycle!Next
  <2> QED
    BY <2>4, <2>5
<1>5. ASSUME NEW i \in Instances, NEW t \in EventTypes, NEW q \in Orders, FailOrder(i, t, q)
      PROVE  Lifecycle!Next \/ UNCHANGED [o \in Orders |-> Phase(o)]
  <2>1. JobInv(i, t, q) /\ RowInv(t, q)
    BY DEF SagaInv
  <2>2. deducted[q] = 0 /\ status[q] # "none"
    BY <1>5, <2>1 DEF FailOrder, MayRun, JobInv, RowInv, Refused
  <2>3. charged[q] = 0 /\ restored[q] = 0 /\ status[q] # "PAID"
    BY <2>2, Phases
  <2>4. /\ status'[q] = "FAILED" /\ UNCHANGED <<deducted, restored, charged>>
        /\ \A o \in Orders \ {q} : UNCHANGED Facts(o)
    BY <1>5, Columns DEF FailOrder, history, Facts
  <2>5. CASE status[q] = "FAILED"
    BY <2>4, <2>5, <1>s DEF Facts
  <2>6. CASE status[q] # "FAILED"
    <3>1. status[q] = "PENDING_PAYMENT"
      BY <2>2, <2>3, <2>6, Phases
    <3>2. Phase(q) = "placed" /\ Phase(q)' = "rejected"
      BY <2>2, <2>3, <2>4, <3>1 DEF Phase
    <3>3. Lifecycle!Reject(q)
      BY <2>4, <3>2, MoveOne DEF Lifecycle!Reject
    <3> QED
      BY <3>3 DEF Lifecycle!Next
  <2> QED
    BY <2>5, <2>6
<1>6. ASSUME NEW i \in Instances, NEW q \in Orders, RestoreStock(i, q)
      PROVE  Lifecycle!Next \/ UNCHANGED [o \in Orders |-> Phase(o)]
  <2>1. JobInv(i, "ORDER_PAYMENT", q) /\ RowInv("ORDER_PAYMENT", q)
    BY DEF SagaInv, EventTypes
  <2>2. deducted[q] = 1 /\ charged[q] = 0 /\ status[q] # "none"
    BY <1>6, <2>1 DEF RestoreStock, MayRun, JobInv, RowInv, Refused
  <2>3. status[q] = "PENDING_PAYMENT" /\ restored[q] \in Nat
    BY <2>2, Phases
  <2>4. /\ restored'[q] = restored[q] + 1 /\ UNCHANGED <<status, deducted, charged>>
        /\ \A o \in Orders \ {q} : UNCHANGED Facts(o)
    BY <1>6, Columns DEF RestoreStock, Facts
  <2>5. Phase(q)' = "released"
    BY <2>3, <2>4 DEF Phase
  <2>6. CASE restored[q] = 0
    <3>1. Phase(q) = "held"
      BY <2>2, <2>3, <2>6 DEF Phase
    <3>2. Lifecycle!Release(q)
      BY <2>4, <2>5, <3>1, MoveOne DEF Lifecycle!Release
    <3> QED
      BY <3>2 DEF Lifecycle!Next
  \* A second compensation puts the units back again: the phase stays.
  <2>7. CASE restored[q] > 0
    <3>1. Phase(q) = "released"
      BY <2>3, <2>7 DEF Phase
    <3>2. \A o \in Orders : Phase(o)' = Phase(o)
      BY <2>4, <2>5, <3>1, SamePhase
    <3> QED
      BY <3>2
  <2> QED
    BY <2>3, <2>6, <2>7
<1> QED
  BY PhaseCases, <1>s, <1>1, <1>2, <1>3, <1>4, <1>5, <1>6 DEF PhaseAction

LEMMA LifecycleInit == Init => Lifecycle!Init
  BY DEF Init, Phase, Lifecycle!Init

\* The saga implements the lifecycle: every order goes through its business
\* events in the promised order, each at most once, whatever the number of
\* instances, the interleaving of pollers and consumers, and the faults.
THEOREM SagaImplementsLifecycle == Spec => ImplementsLifecycle
<1> QED
  BY LifecycleInit, LifecycleStep, TypeCorrect, EventsTruthful, PTL
     DEF Spec, ImplementsLifecycle, Lifecycle!Spec

LEMMA StatusStep ==
  TypeOK /\ SagaInv /\ [Next]_vars =>
    \A o \in Orders : status[o] \in {"PAID", "FAILED"} => status'[o] = status[o]
<1> SUFFICES ASSUME TypeOK, SagaInv, [Next]_vars, NEW o \in Orders,
                    status[o] \in {"PAID", "FAILED"}
             PROVE  status'[o] = status[o]
  OBVIOUS
<1>1. CASE UNCHANGED status
  BY <1>1
<1>2. ASSUME NEW q \in Orders, PlaceOrder(q)
      PROVE  status'[o] = status[o]
  BY <1>2, Columns DEF PlaceOrder
<1>3. ASSUME NEW i \in Instances, NEW q \in Orders, MarkPaid(i, q)
      PROVE  status'[o] = status[o]
  <2>1. HandlerInv(i)
    BY DEF SagaInv
  <2>2. charged[q] = 1 /\ deducted[q] = 1
    BY <1>3, <2>1, Phases DEF MarkPaid, Handling, HandlerInv, Backed
  <2> QED
    BY <1>3, <2>2, Phases, Columns DEF MarkPaid
<1>4. ASSUME NEW i \in Instances, NEW t \in EventTypes, NEW q \in Orders, FailOrder(i, t, q)
      PROVE  status'[o] = status[o]
  <2>1. JobInv(i, t, q)
    BY DEF SagaInv
  <2>2. deducted[q] = 0
    BY <1>4, <2>1 DEF FailOrder, MayRun, JobInv, Refused
  <2> QED
    BY <1>4, <2>2, Phases, Columns DEF FailOrder
<1>5. UNCHANGED database => UNCHANGED status
  BY DEF database
<1>6. ASSUME NEW i \in Instances, NEW q \in Orders,
             RestoreStock(i, q) \/ DeductStock(i, q) \/ ReopenOrderCreated(i, q)
             \/ Pay(i, q) \/ CreateFailedEvent(i, q)
      PROVE  UNCHANGED status
  BY <1>6 DEF RestoreStock, DeductStock, ReopenOrderCreated, Pay, CreateFailedEvent
<1>7. ASSUME NEW i \in Instances, NEW t \in EventTypes, NEW q \in Orders,
             MarkSuccess(i, t, q) \/ HandleFailedEvent(i, t, q)
      PROVE  UNCHANGED status
  BY <1>7 DEF MarkSuccess, HandleFailedEvent
<1> QED
  BY DatabaseCases, <1>1, <1>2, <1>3, <1>4, <1>5, <1>6, <1>7 DEF DatabaseStep

\* A PAID order is never FAILED by a late compensation, and a FAILED order is
\* never PAID by a late message.
THEOREM EndsAreFinal == Spec => StatusFinal
  BY StatusStep, TypeCorrect, EventsTruthful, PTL DEF Spec, StatusFinal

LEMMA ReopenStep ==
  TypeOK /\ [Next]_vars =>
    \A t \in EventTypes \ {"ORDER_CREATED"}, o \in Orders :
      outbox[t][o] \in {"SUCCESS", "FAIL"} => outbox'[t][o] # "INIT"
<1> SUFFICES ASSUME TypeOK, [Next]_vars,
                    NEW t \in EventTypes \ {"ORDER_CREATED"}, NEW o \in Orders,
                    outbox[t][o] \in {"SUCCESS", "FAIL"}
             PROVE  outbox'[t][o] # "INIT"
  OBVIOUS
<1>0. DatabaseOK /\ \A u \in Topics : u \in EventTypes
  BY DEF TypeOK, Topics, EventTypes
<1>1. CASE UNCHANGED outbox
  BY <1>1
\* A row that is there is neither inserted again nor overwritten.
<1>2. ASSUME NEW u \in EventTypes, NEW q \in Orders, NEW s, SetRow(u, q, s),
             s # "INIT" \/ u = "ORDER_CREATED" \/ ~Taken(u, q)
      PROVE  outbox'[t][o] # "INIT"
  <2>1. outbox'[t][o] = IF t = u /\ o = q THEN s ELSE outbox[t][o]
    BY <1>0, <1>2, RowAfterSet
  <2> QED
    BY <1>2, <2>1 DEF Taken
<1>3. ASSUME NEW q \in Orders, PlaceOrder(q)
      PROVE  outbox'[t][o] # "INIT"
  BY <1>2, <1>3 DEF PlaceOrder, EventTypes
<1>4. ASSUME NEW i \in Instances, NEW q \in Orders,
             DeductStock(i, q) \/ ReopenOrderCreated(i, q) \/ Pay(i, q) \/ MarkPaid(i, q)
      PROVE  outbox'[t][o] # "INIT"
  BY <1>2, <1>4 DEF DeductStock, ReopenOrderCreated, Pay, MarkPaid, EventTypes
<1>5. ASSUME NEW i \in Instances, NEW q \in Orders, CreateFailedEvent(i, q)
      PROVE  outbox'[t][o] # "INIT"
  <2> DEFINE u == NextEvent(msg[i].topic)
  <2>1. UNCHANGED outbox \/ SetRow(u, q, "FAIL")
    BY <1>5 DEF CreateFailedEvent
  <2>2. CASE u \in EventTypes
    BY <1>1, <1>2, <2>1, <2>2
  <2>3. CASE u \notin EventTypes
    BY <1>0, <2>1, <2>3 DEF SetRow, DatabaseOK
  <2> QED
    BY <2>2, <2>3
<1>6. ASSUME NEW i \in Instances, NEW u \in EventTypes, NEW q \in Orders,
             MarkSuccess(i, u, q) \/ HandleFailedEvent(i, u, q)
      PROVE  outbox'[t][o] # "INIT"
  BY <1>2, <1>6 DEF MarkSuccess, HandleFailedEvent
<1>7. ASSUME NEW i \in Instances, NEW q \in Orders, RestoreStock(i, q)
      PROVE  UNCHANGED outbox
  BY <1>7 DEF RestoreStock
<1>8. ASSUME NEW i \in Instances, NEW u \in EventTypes, NEW q \in Orders, FailOrder(i, u, q)
      PROVE  UNCHANGED outbox
  BY <1>8 DEF FailOrder
<1>9. UNCHANGED database => UNCHANGED outbox
  BY DEF database
<1> QED
  BY DatabaseCases, <1>1, <1>3, <1>4, <1>5, <1>6, <1>7, <1>8, <1>9 DEF DatabaseStep

\* Only ORDER_CREATED is ever published again: the events of the deduction, the
\* payment and the success of an order leave INIT once, whatever fails.
THEOREM PublishedOnce == Spec => OnlyCreatedReopens
  BY ReopenStep, TypeCorrect, PTL DEF Spec, OnlyCreatedReopens
=============================================================================

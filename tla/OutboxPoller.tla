---------------------------- MODULE OutboxPoller ----------------------------
(***************************************************************************)
(* The outbox poller of one instance (OutboxPollingService): an endless    *)
(* loop of two passes.  The INIT pass publishes rows and marks them        *)
(* SUCCESS; the FAIL pass compensates and marks them SUCCESS.  A pass      *)
(* reads its rows once and works on that snapshot, with up to Concurrency  *)
(* rows in progress; each call to MySQL or Kafka is a step, so another     *)
(* instance's poller and the consumers run in between.                     *)
(***************************************************************************)
EXTENDS SagaState

Rows(s) == {r \in EventTypes \X Orders : outbox[r[1]][r[2]] = s}

\* Mutant: handlePendingEvents never runs.
NextPassInitOnly(i) == "INIT"

NextPass(i) == IF pass[i] = "INIT" THEN "FAIL" ELSE "INIT"

PassOver(i) == job[i] = IdleJobs

SetJob(i, t, o, j) == job' = [job EXCEPT ![i][t][o] = j]

\* The rows that occupy a worker: begun and not finished.
Working(i) ==
  {r \in EventTypes \X Orders :
     \/ job[i][r[1]][r[2]] \in {"sent", "giveup"}
     \/ tries[i][r[1]][r[2]] > 0}

MayRun(i, t, o) ==
  /\ job[i][t][o] = "queued"
  /\ <<t, o>> \in Working(i) \/ Cardinality(Working(i)) < Concurrency

Append1(t, o) == [log EXCEPT ![t][PartitionOf[o]] = Append(@, o)]

-----------------------------------------------------------------------------
\* The passes

\* The previous pass is over: read the rows of the other status, at most
\* Take of them, in no particular order.
FindEventsByStatus(i) ==
  /\ PassOver(i)
  /\ pass' = [pass EXCEPT ![i] = NextPass(i)]
  /\ \E page \in SUBSET Rows(NextPass(i)) :
       /\ Cardinality(page) <= Take
       /\ page = Rows(NextPass(i)) \/ Cardinality(page) = Take
       /\ job' = [job EXCEPT ![i] = [t \in EventTypes |-> [o \in Orders |->
                    IF <<t, o>> \in page THEN "queued" ELSE "idle"]]]
  /\ UNCHANGED <<tries, database, kafka, consumer, faults>>

\* The query fails: the error is swallowed and the pass is skipped.
FindFails(i) ==
  /\ PassOver(i)
  /\ Fault("db")
  /\ pass' = [pass EXCEPT ![i] = NextPass(i)]
  /\ UNCHANGED <<job, tries, database, kafka, consumer>>

-----------------------------------------------------------------------------
\* The INIT pass: processOutboxEvent

ProduceEvent(i, t, o) ==
  /\ pass[i] = "INIT"
  /\ t \in Topics
  /\ MayRun(i, t, o)
  /\ Len(log[t][PartitionOf[o]]) < MaxLog
  /\ log' = Append1(t, o)
  /\ SetJob(i, t, o, "sent")
  /\ UNCHANGED <<pass, tries, database, consumed, committed, owner, consumer, faults>>

\* ORDER_SUCCESS is published nowhere: the row is only marked.
SkipProduce(i, o) ==
  /\ pass[i] = "INIT"
  /\ MayRun(i, "ORDER_SUCCESS", o)
  /\ SetJob(i, "ORDER_SUCCESS", o, "sent")
  /\ UNCHANGED <<pass, tries, database, kafka, consumer, faults>>

\* Mutant: a row whose sends all failed becomes FAIL and is compensated.
ProduceUncertainOrFail(i, t, o) ==
  /\ pass[i] = "INIT"
  /\ t \in Topics
  /\ MayRun(i, t, o)
  /\ Fault("kafka")
  /\ SetRow(t, o, "FAIL")
  /\ SetJob(i, t, o, "idle")
  /\ UNCHANGED <<pass, tries, status, stock, balance, history, kafka, consumer>>

\* Mutant: a send is taken for done whatever became of it.
ProduceUncertainForgets(i, t, o) ==
  /\ pass[i] = "INIT"
  /\ t \in Topics
  /\ MayRun(i, t, o)
  /\ Fault("kafka")
  /\ SetJob(i, t, o, "sent")
  /\ UNCHANGED <<pass, tries, database, kafka, consumer>>

\* Sends whose acknowledgement is lost: the producer tries again, and each try
\* may have reached the broker.  When every try fails the error is logged and
\* the row stays INIT.
ProduceUncertain(i, t, o) ==
  /\ pass[i] = "INIT"
  /\ t \in Topics
  /\ MayRun(i, t, o)
  /\ Fault("kafka")
  /\ \E n \in 0 .. ProducerTries, outcome \in {"idle", "sent"} :
       /\ Len(log[t][PartitionOf[o]]) + n <= MaxLog
       /\ outcome = "sent" => n > 0
       /\ log' = [log EXCEPT ![t][PartitionOf[o]] = @ \o [j \in 1 .. n |-> o]]
       /\ SetJob(i, t, o, outcome)
  /\ UNCHANGED <<pass, tries, database, consumed, committed, owner, consumer>>

\* The bound MaxLog acts as a broker that refuses the message.
ProduceRefused(i, t, o) ==
  /\ pass[i] = "INIT"
  /\ t \in Topics
  /\ MayRun(i, t, o)
  /\ Len(log[t][PartitionOf[o]]) >= MaxLog
  /\ SetJob(i, t, o, "idle")
  /\ UNCHANGED <<pass, tries, database, kafka, consumer, faults>>

-----------------------------------------------------------------------------
\* The FAIL pass: executeCompensation

\* A payment that failed: one transaction puts the order's units back.  The
\* poller goes on alike when the answer is lost (see RestoreConflict).
RestoreStock(i, o) ==
  /\ pass[i] = "FAIL"
  /\ MayRun(i, "ORDER_PAYMENT", o)
  /\ stock' = [p \in Products |-> stock[p] + Qty[o][p]]
  /\ restored' = [restored EXCEPT ![o] = @ + 1]
  /\ SetJob(i, "ORDER_PAYMENT", o, "sent")
  /\ UNCHANGED <<pass, tries, status, outbox, balance, deducted, charged,
                 kafka, consumer, faults>>

\* That transaction fails: every error of PrismaService.transaction is an
\* AppConflictException here, which is swallowed; the row goes on to SUCCESS.
RestoreConflict(i, o) ==
  /\ pass[i] = "FAIL"
  /\ MayRun(i, "ORDER_PAYMENT", o)
  /\ Fault("db")
  /\ SetJob(i, "ORDER_PAYMENT", o, "sent")
  /\ UNCHANGED <<pass, tries, database, kafka, consumer>>

\* Mutant: a failed payment marks the order FAILED and keeps its units.
FailOrderOfAnyType(i, t, o) ==
  /\ pass[i] = "FAIL"
  /\ MayRun(i, t, o)
  /\ status' = [status EXCEPT ![o] = "FAILED"]
  /\ SetJob(i, t, o, "sent")
  /\ UNCHANGED <<pass, tries, outbox, stock, balance, history, kafka, consumer, faults>>

\* A compensation that failed starts again, Retries times; after that the row
\* is handed to handleFailedEvent.
RetryOrGiveUp(i, t, o) ==
  \/ /\ tries[i][t][o] < Retries
     /\ tries' = [tries EXCEPT ![i][t][o] = @ + 1]
     /\ SetJob(i, t, o, "queued")
  \/ /\ tries[i][t][o] >= Retries
     /\ UNCHANGED tries
     /\ SetJob(i, t, o, "giveup")

\* Every other failed event: the order is marked FAILED.
FailOrder(i, t, o) ==
  /\ pass[i] = "FAIL"
  /\ t # "ORDER_PAYMENT"
  /\ MayRun(i, t, o)
  /\ status' = [status EXCEPT ![o] = "FAILED"]
  /\ \/ Heard(SetJob(i, t, o, "sent") /\ UNCHANGED tries)
     \/ Unheard(RetryOrGiveUp(i, t, o))
  /\ UNCHANGED <<pass, outbox, stock, balance, history, kafka, consumer>>

FailOrderFails(i, t, o) ==
  /\ pass[i] = "FAIL"
  /\ t # "ORDER_PAYMENT"
  /\ MayRun(i, t, o)
  /\ Fault("db")
  /\ RetryOrGiveUp(i, t, o)
  /\ UNCHANGED <<pass, database, kafka, consumer>>

-----------------------------------------------------------------------------
\* The end of a row

\* Mutant: the update matches no row.
MarkSuccessOfNoRow(i, t, o) ==
  /\ job[i][t][o] = "sent"
  /\ SetJob(i, t, o, "idle")
  /\ tries' = [tries EXCEPT ![i][t][o] = 0]
  /\ UNCHANGED <<pass, database, kafka, consumer, faults>>

Finish(i, t, o) ==
  /\ SetJob(i, t, o, "idle")
  /\ tries' = [tries EXCEPT ![i][t][o] = 0]

\* The INIT pass swallows the error; the FAIL pass compensates again.
MarkError(i, t, o) ==
  \/ pass[i] = "INIT" /\ SetJob(i, t, o, "idle") /\ UNCHANGED tries
  \/ pass[i] = "FAIL" /\ RetryOrGiveUp(i, t, o)

\* The update is by (aggregateId, eventType) alone, whatever the row's status.
MarkSuccess(i, t, o) ==
  /\ job[i][t][o] = "sent"
  /\ SetRow(t, o, "SUCCESS")
  /\ Heard(Finish(i, t, o)) \/ Unheard(MarkError(i, t, o))
  /\ UNCHANGED <<pass, status, stock, balance, history, kafka, consumer>>

MarkFails(i, t, o) ==
  /\ job[i][t][o] = "sent"
  /\ Fault("db")
  /\ MarkError(i, t, o)
  /\ UNCHANGED <<pass, database, kafka, consumer>>

\* Mutant: the row is made pending again.
HandleFailedEventAsInit(i, t, o) ==
  /\ job[i][t][o] = "giveup"
  /\ SetRow(t, o, "INIT")
  /\ SetJob(i, t, o, "idle")
  /\ tries' = [tries EXCEPT ![i][t][o] = 0]
  /\ UNCHANGED <<pass, status, stock, balance, history, kafka, consumer, faults>>

\* When even that update fails, Effect.forEach interrupts the other rows and
\* the error of the whole batch is swallowed.
Abort(i) ==
  /\ job' = [job EXCEPT ![i] = IdleJobs]
  /\ tries' = [tries EXCEPT ![i] = NoTries]

HandleFailedEvent(i, t, o) ==
  /\ job[i][t][o] = "giveup"
  /\ SetRow(t, o, "FAIL")
  /\ Heard(Finish(i, t, o)) \/ Unheard(Abort(i))
  /\ UNCHANGED <<pass, status, stock, balance, history, kafka, consumer>>

BatchAborts(i) ==
  /\ \E t \in EventTypes, o \in Orders : job[i][t][o] = "giveup"
  /\ Fault("db")
  /\ Abort(i)
  /\ UNCHANGED <<pass, database, kafka, consumer>>

-----------------------------------------------------------------------------
\* What the poller does when nothing fails, and what it does when something does.
PollerRow(i, t, o) ==
  \/ ProduceEvent(i, t, o)
  \/ ProduceRefused(i, t, o)
  \/ FailOrder(i, t, o)
  \/ MarkSuccess(i, t, o)
  \/ HandleFailedEvent(i, t, o)

PollerOrder(i, o) ==
  \/ SkipProduce(i, o)
  \/ RestoreStock(i, o)

PollerStep(i) ==
  \/ FindEventsByStatus(i)
  \/ \E t \in EventTypes, o \in Orders : PollerRow(i, t, o)
  \/ \E o \in Orders : PollerOrder(i, o)

PollerFault(i) ==
  \/ FindFails(i)
  \/ BatchAborts(i)
  \/ \E t \in EventTypes, o \in Orders :
       \/ ProduceUncertain(i, t, o)
       \/ FailOrderFails(i, t, o)
       \/ MarkFails(i, t, o)
  \/ \E o \in Orders : RestoreConflict(i, o)
=============================================================================

-------------------------------- MODULE Saga --------------------------------
(***************************************************************************)
(* The order fulfilment saga of one order: SagaOrchestrator instances and  *)
(* the payment, inventory, fraud, shipping and notification consumers,     *)
(* talking over one topic per domain.                                      *)
(*                                                                         *)
(* All messages of an order share a partition of their topic, so a topic   *)
(* is one log; nothing orders the topics among each other.  The partitions *)
(* of the orchestrator's five topics may be spread over its instances.     *)
(* All groups have a stored offset: Consumer has their first start.        *)
(***************************************************************************)
EXTENDS Naturals, Sequences, FiniteSets, Contracts

CONSTANTS
    Instances,     \* orchestrator processes of saga-orchestrator-group
    MaxFaults,     \* bound on crashes, errors, outages and rebalances
    StealCost,     \* how much of that bound a rebalance uses up
    None

ASSUME BoundsAssumption == MaxFaults \in Nat /\ StealCost \in Nat \ {0}
ASSUME NoneAssumption == None \notin Instances

VARIABLES
    log,        \* Kafka: the messages of the order, per topic
    served,     \* offset of each domain consumer in its topic
    taken,      \* offset of saga-orchestrator-group per topic
    holder,     \* the instance that works on a topic's next message
    marked,     \* event ids PROCESSED for saga-orchestrator
    state, pending, completed,     \* the row of saga_instances
    pc, topic, idx, out,           \* of each instance: handleMessage
    faults,     \* what has gone wrong so far
    steals,     \* ... of that, rebalances that left a zombie behind
    lost        \* a command or an answer was never sent

SagaTopics == Topics \ {"notifications"}

States == {"NONE", "PAYMENT_PENDING", "INVENTORY_PENDING", "FRAUD_PENDING",
           "SHIPPING_PENDING", "COMPLETED", "COMPENSATING", "CANCELLED", "FAILED"}
Terminal == {"COMPLETED", "CANCELLED", "FAILED"}
Compensations == {"PAYMENT_REFUND", "INVENTORY_RELEASE"}

kafka == <<log, served>>
group == <<taken, holder, marked>>
row   == <<state, pending, completed>>
mem   == <<pc, topic, idx, out>>
vars  == <<log, served, taken, holder, marked, state, pending, completed,
           pc, topic, idx, out, faults, steals, lost>>

\* Logs, offsets, the saga row and the instances hold values of their kinds.
TypeOK ==
    /\ log \in [Topics -> Seq(EventTypes)]
    /\ served \in [Topics -> Nat] /\ \A t \in Topics : served[t] <= Len(log[t])
    /\ taken \in [SagaTopics -> Nat] /\ \A t \in SagaTopics : taken[t] <= Len(log[t])
    /\ holder \in [SagaTopics -> Instances \cup {None}]
    /\ marked \subseteq Topics \X Nat
    /\ state \in States /\ pending \subseteq Compensations
    /\ completed \subseteq Compensations
    /\ pc \in [Instances -> {"idle", "read", "save", "barrier", "emit", "mark"}]
    /\ topic \in [Instances -> SagaTopics \cup {None}]
    /\ idx \in [Instances -> Nat]
    /\ out \in [Instances -> Seq(EventTypes)]
    /\ faults \in 0 .. MaxFaults /\ steals \in 0 .. faults
    /\ lost \in BOOLEAN

Init ==
    /\ log       = [t \in Topics |-> <<>>]
    /\ served    = [t \in Topics |-> 0]
    /\ taken     = [t \in SagaTopics |-> 0]
    /\ holder    = [t \in SagaTopics |-> None]
    /\ marked    = {}
    /\ state = "NONE" /\ pending = {} /\ completed = {}
    /\ pc        = [i \in Instances |-> "idle"]
    /\ topic     = [i \in Instances |-> None]
    /\ idx       = [i \in Instances |-> 0]
    /\ out       = [i \in Instances |-> <<>>]
    /\ faults = 0 /\ steals = 0 /\ lost = FALSE

Send(m) == log' = [log EXCEPT ![TopicOf[m]] = Append(@, m)]

\* Something fails; the bound makes failures finite in number.
Fault == faults < MaxFaults /\ faults' = faults + 1

Sent(m) == \E n \in 1 .. Len(log[TopicOf[m]]) : log[TopicOf[m]][n] = m

\* emit draws a fresh event_id; only the relay publishes one id repeatedly.
EventId(t, n) == IF log[t][n] = "OrderCreated" THEN <<t, 1>> ELSE <<t, n>>

\* Behind offset k of topic t, n is the first message of a type in M.  The
\* messages passed over change nothing but the reader's offset.
FirstOf(t, k, M, n) ==
    /\ log[t][n] \in M
    /\ \A j \in k + 1 .. n - 1 : log[t][j] \notin M

-----------------------------------------------------------------------------
(* The outbox relay (see Outbox) *)

\* The relay publishes OrderCreated, and perhaps publishes it again.
PublishOrder ==
    /\ log["orders"] = <<>>
    /\ Send("OrderCreated")
    /\ UNCHANGED <<served, group, row, mem, faults, steals, lost>>

RepublishOrder ==
    /\ Sent("OrderCreated")
    /\ Fault
    /\ Send("OrderCreated")
    /\ UNCHANGED <<served, group, row, mem, steals, lost>>

-----------------------------------------------------------------------------
(* The domain consumers: processEvent of payment, inventory, fraud, shipping *)
(* and notification consumer.  Which answer a command gets depends on the    *)
(* chaos engine and the order's content.                                     *)

PaymentAnswers ==
    [PaymentRequested       |-> {"PaymentAuthorized", "PaymentRejected"},
     PaymentRefundRequested |-> {"PaymentRefunded"}]
InventoryAnswers ==
    [InventoryReservationRequested |-> {"InventoryReserved", "InventoryReservationFailed"}]
FraudAnswers ==
    [FraudCheckRequested |-> {"FraudApproved", "FraudRejected"}]
ShippingAnswers ==
    [ShipmentRequested |-> {"ShipmentCreated", "ShipmentFailed"}]
NotificationAnswers ==
    [NotificationRequested |-> {"NotificationSent"}]

AnswersIn ==
    [orders |-> <<>>, payments |-> PaymentAnswers, inventory |-> InventoryAnswers,
     fraud |-> FraudAnswers, shipping |-> ShippingAnswers, notifications |-> NotificationAnswers]

Answers(m) ==
    LET table == AnswersIn[TopicOf[m]]
    IN  IF m \in DOMAIN table THEN table[m] ELSE {}

Commands == {m \in EventTypes : Answers(m) # {}}

\* The consumer of topic t handles its next command and is done with it.
Serve(t) ==
    \E n \in served[t] + 1 .. Len(log[t]) :
        /\ FirstOf(t, served[t], Commands, n)
        /\ \E a \in Answers(log[t][n]) : Send(a)
        /\ served' = [served EXCEPT ![t] = n]
        /\ UNCHANGED <<group, row, mem, faults, steals, lost>>

\* It answers, but dies or loses the database before markEventProcessed: the
\* message comes again.
ServeUnmarked(t) ==
    \E n \in served[t] + 1 .. Len(log[t]) :
        /\ FirstOf(t, served[t], Commands, n)
        /\ Fault
        /\ \E a \in Answers(log[t][n]) : Send(a)
        /\ UNCHANGED <<served, group, row, mem, steals, lost>>

\* Every attempt fails and the message ends in the DLQ (see Consumer).
ServeToDlq(t) ==
    \E n \in served[t] + 1 .. Len(log[t]) :
        /\ FirstOf(t, served[t], Commands, n)
        /\ Fault
        /\ served' = [served EXCEPT ![t] = n]
        /\ lost' = TRUE
        /\ UNCHANGED <<log, group, row, mem, steals>>

-----------------------------------------------------------------------------
(* SagaOrchestrator.processEvent *)

\* One case of the switch: the state it accepts, the row it saves and the
\* events it emits, in order.  A case that copies the context it read copies no
\* compensations: they are only written on entering COMPENSATING, a state no
\* such case accepts.
Case(from, to, compensations, emits) ==
    [from |-> from, to |-> to, pending |-> compensations, emits |-> emits]

\* Variant: the saga fails without announcing it to anybody but the customer.
Bug_OnPaymentRejectedSilent ==
    Case("PAYMENT_PENDING", "FAILED", {}, <<"NotificationRequested">>)

OnOrderCreated      == Case("NONE", "PAYMENT_PENDING", {}, <<"PaymentRequested">>)
OnPaymentAuthorized ==
    Case("PAYMENT_PENDING", "INVENTORY_PENDING", {}, <<"InventoryReservationRequested">>)
OnPaymentRejected   == Case("PAYMENT_PENDING", "FAILED", {}, <<"OrderFailed">>)
OnInventoryReserved == Case("INVENTORY_PENDING", "FRAUD_PENDING", {}, <<"FraudCheckRequested">>)
OnInventoryReservationFailed ==
    Case("INVENTORY_PENDING", "COMPENSATING", {"PAYMENT_REFUND"}, <<"PaymentRefundRequested">>)
OnFraudApproved     == Case("FRAUD_PENDING", "SHIPPING_PENDING", {}, <<"ShipmentRequested">>)
OnFraudRejected     ==
    Case("FRAUD_PENDING", "COMPENSATING", Compensations,
         <<"InventoryReleased", "PaymentRefundRequested">>)
OnShipmentCreated   ==
    Case("SHIPPING_PENDING", "COMPLETED", {}, <<"OrderCompleted", "NotificationRequested">>)
OnShipmentFailed    ==
    Case("SHIPPING_PENDING", "COMPENSATING", Compensations,
         <<"InventoryReleased", "PaymentRefundRequested">>)

Reaction ==
    [OrderCreated      |-> OnOrderCreated,
     PaymentAuthorized |-> OnPaymentAuthorized,
     PaymentRejected   |-> OnPaymentRejected,
     InventoryReserved |-> OnInventoryReserved,
     InventoryReservationFailed |-> OnInventoryReservationFailed,
     FraudApproved     |-> OnFraudApproved,
     FraudRejected     |-> OnFraudRejected,
     ShipmentCreated   |-> OnShipmentCreated,
     ShipmentFailed    |-> OnShipmentFailed]

\* The compensation an event reports as completed.
Completes == [PaymentRefunded |-> "PAYMENT_REFUND", InventoryReleased |-> "INVENTORY_RELEASE"]

Message(i) == log[topic[i]][idx[i]]

Goto(i, p) == pc' = [pc EXCEPT ![i] = p]

\* Instance i forgets the message it works on.
Clear(i) ==
    /\ pc' = [pc EXCEPT ![i] = "idle"]
    /\ topic' = [topic EXCEPT ![i] = None]
    /\ idx' = [idx EXCEPT ![i] = 0]
    /\ out' = [out EXCEPT ![i] = <<>>]

\* The event types the switch has a case for.
Handled == DOMAIN Reaction \cup DOMAIN Completes

\* handleMessage starts with the next message of topic t that processEvent has
\* a case for; one whose id is already marked is skipped (isEventProcessed).
Take(i, t) ==
    /\ pc[i] = "idle"
    /\ \E n \in taken[t] + 1 .. Len(log[t]) :
        /\ FirstOf(t, taken[t], Handled, n)
        /\ IF EventId(t, n) \in marked
             THEN /\ taken' = [taken EXCEPT ![t] = n]
                  /\ holder' = [holder EXCEPT ![t] = None]
                  /\ UNCHANGED mem
             ELSE /\ holder' = [holder EXCEPT ![t] = i]
                  /\ topic' = [topic EXCEPT ![i] = t]
                  /\ idx' = [idx EXCEPT ![i] = n]
                  /\ Goto(i, "read")
                  /\ UNCHANGED <<taken, out>>
    /\ UNCHANGED <<kafka, marked, row, lost>>

TakeNext(i, t) == holder[t] = None /\ Take(i, t) /\ UNCHANGED <<faults, steals>>

\* A rebalance gives the partition to i while its former owner is still busy
\* with the message: that one becomes a zombie.
Steal(i, t) ==
    /\ holder[t] \notin {None, i}
    /\ faults + StealCost <= MaxFaults
    /\ faults' = faults + StealCost
    /\ steals' = steals + 1
    /\ Take(i, t)

\* Variant: the cases do not check the current state.
Bug_ReadSagaUnguarded(i) ==
    /\ pc[i] = "read"
    /\ Goto(i, IF Message(i) \in DOMAIN Reaction THEN "save" ELSE "barrier")
    /\ UNCHANGED <<kafka, group, row, topic, idx, out, faults, steals, lost>>

\* getSagaByAggregateId, outside any transaction, and the guard of the case.
ReadSaga(i) ==
    /\ pc[i] = "read"
    /\ Goto(i, IF Message(i) \in DOMAIN Reaction /\ state = Reaction[Message(i)].from
                 THEN "save"
                 ELSE IF Message(i) \in DOMAIN Completes /\ state = "COMPENSATING"
                        THEN "barrier" ELSE "mark")
    /\ UNCHANGED <<kafka, group, row, topic, idx, out, faults, steals, lost>>

\* Variant: the new state is only kept in memory.
Bug_SaveRowForgotten(i) == UNCHANGED row

\* saveSagaInstance: an unconditional upsert of the state decided upon.
SaveRow(i) ==
    /\ state'     = Reaction[Message(i)].to
    /\ pending'   = Reaction[Message(i)].pending
    /\ completed' = {}

SaveSaga(i) ==
    /\ pc[i] = "save"
    /\ SaveRow(i)
    /\ out' = [out EXCEPT ![i] = Reaction[Message(i)].emits]
    /\ Goto(i, "emit")
    /\ UNCHANGED <<kafka, group, topic, idx, faults, steals, lost>>

\* Variant: some instead of every.
Bug_SomeCompleted(done) == pending \cap done # {}

\* pendingList.every(action => completedList.includes(action)).
AllCompleted(done) == pending \subseteq done

\* Variant: the completed list is overwritten instead of extended.
Bug_BarrierRowOverwrites(i) ==
    LET done == {Completes[Message(i)]} IN
    IF state = "COMPENSATING"
      THEN /\ completed' = done
           /\ state' = IF AllCompleted(done) THEN "CANCELLED" ELSE "COMPENSATING"
           /\ UNCHANGED pending
      ELSE UNCHANGED row

\* The transaction of handleCompensationCompletion on the locked row.
BarrierRow(i) ==
    LET done == completed \cup {Completes[Message(i)]} IN
    IF state = "COMPENSATING"
      THEN /\ completed' = done
           /\ state' = IF AllCompleted(done) THEN "CANCELLED" ELSE "COMPENSATING"
           /\ UNCHANGED pending
      ELSE UNCHANGED row

\* ... which emits OrderCancelled after the commit, if it just cancelled.
Barrier(i) ==
    /\ pc[i] = "barrier"
    /\ BarrierRow(i)
    /\ IF state' = "CANCELLED" /\ state # "CANCELLED"
         THEN out' = [out EXCEPT ![i] = <<"OrderCancelled">>] /\ Goto(i, "emit")
         ELSE UNCHANGED out /\ Goto(i, "mark")
    /\ UNCHANGED <<kafka, group, topic, idx, faults, steals, lost>>

Emit(i) ==
    /\ pc[i] = "emit"
    /\ Send(Head(out[i]))
    /\ out' = [out EXCEPT ![i] = Tail(@)]
    /\ Goto(i, IF Len(out[i]) = 1 THEN "mark" ELSE "emit")
    /\ UNCHANGED <<served, group, row, topic, idx, faults, steals, lost>>

\* Variant: the offset skips a message.
Bug_ReturnSkips(i) ==
    LET t == topic[i] IN
    /\ Clear(i)
    /\ IF holder[t] = i
         THEN /\ taken' = [taken EXCEPT ![t] = idx[i] + 1]
              /\ holder' = [holder EXCEPT ![t] = None]
         ELSE UNCHANGED <<taken, holder>>

\* handleMessage returns; only the partition's owner moves the offset.
Return(i) ==
    LET t == topic[i] IN
    /\ Clear(i)
    /\ IF holder[t] = i
         THEN /\ taken' = [taken EXCEPT ![t] = idx[i]]
              /\ holder' = [holder EXCEPT ![t] = None]
         ELSE UNCHANGED <<taken, holder>>

Mark(i) ==
    /\ pc[i] = "mark"
    /\ marked' = marked \cup {EventId(topic[i], idx[i])}
    /\ Return(i)
    /\ UNCHANGED <<kafka, row, faults, steals, lost>>

-----------------------------------------------------------------------------
(* What goes wrong inside handleMessage *)

\* A statement or send throws, with or without effect, and the retry loop runs
\* processEvent again.  What was saved but not emitted is lost: the retry finds
\* the row in its new state and ignores the event.
Error(i) ==
    /\ Fault
    /\ \/ /\ pc[i] = "save"
          /\ \/ SaveRow(i) /\ lost' = TRUE
             \/ UNCHANGED <<row, lost>>
          /\ UNCHANGED <<log, marked>>
       \/ /\ pc[i] = "barrier"
          /\ \/ BarrierRow(i) /\ lost' = (lost \/ (state' = "CANCELLED" /\ state # "CANCELLED"))
             \/ UNCHANGED <<row, lost>>
          /\ UNCHANGED <<log, marked>>
       \/ /\ pc[i] = "emit"
          /\ \/ Send(Head(out[i])) /\ lost' = (lost \/ Len(out[i]) > 1)
             \/ UNCHANGED log /\ lost' = TRUE
          /\ UNCHANGED <<row, marked>>
       \/ /\ pc[i] = "mark"
          /\ \/ marked' = marked \cup {EventId(topic[i], idx[i])}
             \/ UNCHANGED marked
          /\ UNCHANGED <<log, row, lost>>
    /\ Goto(i, "read")
    /\ out' = [out EXCEPT ![i] = <<>>]
    /\ UNCHANGED <<served, taken, holder, topic, idx, steals>>

\* The last attempt throws: the message is diverted to the DLQ and its marker
\* overwritten by FAILED, which isEventProcessed does not count.
GiveUp(i) ==
    /\ pc[i] \in {"read", "save", "barrier", "emit", "mark"}
    /\ Fault
    /\ lost' = TRUE
    /\ marked' = marked \ {EventId(topic[i], idx[i])}
    /\ Return(i)
    /\ UNCHANGED <<kafka, row, steals>>

\* The process dies; the message will be taken again.
Crash(i) ==
    /\ pc[i] # "idle"
    /\ Fault
    /\ lost' = (lost \/ out[i] # <<>>)
    /\ holder' = [t \in SagaTopics |-> IF holder[t] = i THEN None ELSE holder[t]]
    /\ Clear(i)
    /\ UNCHANGED <<kafka, taken, marked, row, steals>>

-----------------------------------------------------------------------------
Handle(i) ==
    \/ ReadSaga(i) \/ SaveSaga(i) \/ Barrier(i) \/ Emit(i) \/ Mark(i)
    \/ \E t \in SagaTopics : TakeNext(i, t)

Next ==
    \/ PublishOrder \/ RepublishOrder
    \/ \E t \in Topics : Serve(t) \/ ServeUnmarked(t) \/ ServeToDlq(t)
    \/ \E i \in Instances : Handle(i)
    \/ \E i \in Instances, t \in SagaTopics : Steal(i, t)
    \/ \E i \in Instances : Error(i) \/ GiveUp(i) \/ Crash(i)

Spec == Init /\ [][Next]_vars

Progress ==
    (\E i \in Instances : Handle(i)) \/ (\E t \in Topics : Serve(t)) \/ PublishOrder

\* Handlers end and consumers take what is in their topics.  Faults are finite
\* in number and so is the rest of the work: it is enough that the system does
\* not stand still while a handler or consumer could go on.
Fairness == WF_vars(Progress)

FairSpec == Spec /\ Fairness

-----------------------------------------------------------------------------
(* Properties *)

Count(M) ==
    LET At(t) == {n \in 1 .. Len(log[t]) : log[t][n] \in M}
    IN  Cardinality(UNION {{<<t, n>> : n \in At(t)} : t \in Topics})

\* The compensation barrier: OrderCancelled is only ever emitted once the refund
\* is reported and, if stock had been reserved, its release too, whatever the
\* order of the reports and however many instances handle them.  (Once told that
\* the reservation failed the saga owes no release: a consumer that handles the
\* request again and then reserves does so behind its back.)
CancelledIsCompensated ==
    Sent("OrderCancelled") =>
        /\ Sent("PaymentRefunded")
        /\ Sent("InventoryReserved") /\ ~Sent("InventoryReservationFailed")
             => Sent("InventoryReleased")

\* Short of a zombie, the orchestrator announces at most one outcome, and once:
\* never OrderCompleted and OrderCancelled for one order.
AtMostOneOutcome ==
    steals = 0 => Count(Outcomes) <= 1

\* Short of a zombie, crashes, errors and redelivery never make the orchestrator
\* repeat a command: one payment, reservation and shipment request, one refund.
CommandsAtMostOnce ==
    steals = 0 => \A m \in {"PaymentRequested", "InventoryReservationRequested",
                            "ShipmentRequested", "PaymentRefundRequested"} :
                     Count({m}) <= 1

\* The saga row and the outcomes in orders.events seen through OrderLifecycle.
Phase == IF state \in Terminal \cup {"NONE", "COMPENSATING"} THEN state ELSE "OPEN"
OutcomeOf ==
    [OrderCompleted |-> "COMPLETED", OrderFailed |-> "FAILED", OrderCancelled |-> "CANCELLED"]
Announced ==
    LET At == {n \in 1 .. Len(log["orders"]) : log["orders"][n] \in Outcomes}
    IN  {<<n, OutcomeOf[log["orders"][n]]>> : n \in At}
Lifecycle ==
    INSTANCE OrderLifecycle
        WITH phase <- Phase, owed <- pending, done <- completed, announced <- Announced

\* Short of a zombie, orchestrator and barrier implement the order's life cycle:
\* a terminal row is never reopened or rewritten, no report of a compensation is
\* lost when two instances handle them at a time, the last one owed cancels, and
\* what is announced is what the row says.
ImplementsLifecycle ==
    Lifecycle!Init /\ [][Lifecycle!Next \/ steals' > 0]_(Lifecycle!vars)

\* Short of a zombie, every order's saga ends and announces its outcome, unless a
\* command or an answer was lost between the save and the emit or in the DLQ.
SagaEndsUnlessLost ==
    Sent("OrderCreated") ~> \/ state \in Terminal /\ \E m \in Outcomes : Sent(m)
                           \/ lost \/ steals > 0

\* docs/23_CONSUMER_IDEMPOTENCY.md, crash safety of saga-orchestrator-group, with
\* docs/06_SAGA.md: a saga that ends says so, "Emits `OrderCancelled` exactly once".
SagaEnds ==
    Sent("OrderCreated") ~> state \in Terminal /\ \E m \in Outcomes : Sent(m)

=============================================================================

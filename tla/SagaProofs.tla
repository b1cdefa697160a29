----------------------------- MODULE SagaProofs -----------------------------
(***************************************************************************)
(* Proofs about Saga for every set of orchestrator instances and every     *)
(* number of faults.                                                       *)
(***************************************************************************)
EXTENDS Saga, ContractsProofs, FiniteSetTheorems, TLAPS

-----------------------------------------------------------------------------
(* The inductive invariant *)

\* Every message is in the topic of its type.
LogsSorted ==
    \A t \in Topics : \A n \in 1 .. Len(log[t]) : TopicOf[log[t][n]] = t

\* An instance at work has a message of its topic that processEvent has a case
\* for, stands in that case, and holds events to emit only while it emits.
AtWork(i) ==
    /\ pc[i] # "idle" => /\ topic[i] \in SagaTopics
                         /\ idx[i] \in 1 .. Len(log[topic[i]])
    /\ pc[i] = "save" => Message(i) \in DOMAIN Reaction
    /\ pc[i] = "barrier" => Message(i) \in DOMAIN Completes
    /\ pc[i] = "emit" <=> out[i] # <<>>

Typed == TypeOK /\ LogsSorted /\ \A i \in Instances : AtWork(i)

\* m is in a topic or among the events an instance is about to emit.
Waiting(m) == \E i \in Instances : \E k \in 1 .. Len(out[i]) : out[i][k] = m
Emitted(m) == Sent(m) \/ Waiting(m)

\* The row owes the refund while it is COMPENSATING, and the release unless the
\* reservation failed; a compensation is noted as completed only once reported;
\* OrderCancelled is on its way only once both are settled.
Settled == Sent("PaymentRefunded")
           /\ (Sent("InventoryReleased") \/ Sent("InventoryReservationFailed"))
RowHonest ==
    /\ state = "COMPENSATING" =>
         /\ "PAYMENT_REFUND" \in pending
         /\ "INVENTORY_RELEASE" \in pending \/ Sent("InventoryReservationFailed")
    /\ "PAYMENT_REFUND" \in completed => Sent("PaymentRefunded")
    /\ "INVENTORY_RELEASE" \in completed => Sent("InventoryReleased")
Compensated == RowHonest /\ (Emitted("OrderCancelled") => Settled)

\* The states in which the saga can be once the orchestrator decided to emit m.
After ==
    [PaymentRequested |-> States \ {"NONE"},
     InventoryReservationRequested |->
        {"INVENTORY_PENDING", "FRAUD_PENDING", "SHIPPING_PENDING", "COMPLETED",
         "COMPENSATING", "CANCELLED"},
     FraudCheckRequested |->
        {"FRAUD_PENDING", "SHIPPING_PENDING", "COMPLETED", "COMPENSATING", "CANCELLED"},
     ShipmentRequested |-> {"SHIPPING_PENDING", "COMPLETED", "COMPENSATING", "CANCELLED"},
     PaymentRefundRequested |-> {"COMPENSATING", "CANCELLED"},
     InventoryReleased      |-> {"COMPENSATING", "CANCELLED"},
     OrderFailed            |-> {"FAILED"},
     OrderCompleted         |-> {"COMPLETED"},
     NotificationRequested  |-> {"COMPLETED"},
     OrderCancelled         |-> {"CANCELLED"}]

\* What the orchestrator emits.
Emissions == DOMAIN After

\* While nothing was stolen, an instance at work holds its topic, a case is
\* carried out in the state it was read in, and only a compensating or
\* cancelled order has compensations.
Holding == \A i \in Instances : pc[i] # "idle" => holder[topic[i]] = i
Current == \A i \in Instances : pc[i] = "save" => state = Reaction[Message(i)].from
Owing   == state \notin {"COMPENSATING", "CANCELLED"} => pending = {} /\ completed = {}
Exclusive == steals = 0 => Holding /\ Current /\ Owing

\* ... and every emission happens in a state that follows it, at one place: once
\* in the log, or once among the events to emit.
OnceInLog(m) ==
    \A n, k \in 1 .. Len(log[TopicOf[m]]) :
        log[TopicOf[m]][n] = m /\ log[TopicOf[m]][k] = m => n = k
OnceWaiting(m) ==
    \A i, j \in Instances : \A n \in 1 .. Len(out[i]), k \in 1 .. Len(out[j]) :
        out[i][n] = m /\ out[j][k] = m => i = j /\ n = k
OnePlace(m) ==
    /\ Emitted(m) => state \in After[m]
    /\ OnceInLog(m) /\ OnceWaiting(m)
    /\ Waiting(m) => ~Sent(m)
EmittedOnce == steals = 0 => \A m \in Emissions : OnePlace(m)

Inv == Typed /\ Compensated /\ Exclusive /\ EmittedOnce

-----------------------------------------------------------------------------
(* The tables of the consumers *)

\* The events processEvent reacts to, by state and topic: a state it accepts
\* belongs to one topic.
LEMMA ReactionTable ==
    ASSUME NEW m \in DOMAIN Reaction
    PROVE  /\ m \in EventTypes
           /\ Reaction[m].from \in States /\ Reaction[m].to \in States
           /\ Reaction[m].pending \subseteq Compensations
           /\ Reaction[m].emits \in Seq(EventTypes) /\ Reaction[m].emits # <<>>
<1>1. m \in {"OrderCreated", "PaymentAuthorized", "PaymentRejected", "InventoryReserved",
             "InventoryReservationFailed", "FraudApproved", "FraudRejected",
             "ShipmentCreated", "ShipmentFailed"}
  BY DEF Reaction
<1>2. m \in EventTypes
  BY <1>1, TopicTable
<1> USE DEF OnOrderCreated, OnPaymentAuthorized, OnPaymentRejected, OnInventoryReserved,
            OnInventoryReservationFailed, OnFraudApproved, OnFraudRejected,
            OnShipmentCreated, OnShipmentFailed, Case
<1>3. /\ Reaction[m].from \in States /\ Reaction[m].to \in States
      /\ Reaction[m].pending \subseteq Compensations
  BY <1>1 DEF Reaction, States, Compensations
<1>4. \/ \E a \in EventTypes : Reaction[m].emits = <<a>>
      \/ \E a, b \in EventTypes : Reaction[m].emits = <<a, b>>
  <2>1. CASE m \in {"OrderCreated", "PaymentAuthorized", "PaymentRejected"}
    <3>1. \/ Reaction[m].emits = <<"PaymentRequested">>
          \/ Reaction[m].emits = <<"InventoryReservationRequested">>
          \/ Reaction[m].emits = <<"OrderFailed">>
      BY <2>1 DEF Reaction
    <3>2. QED
      BY <3>1, TopicTable
  <2>2. CASE m \in {"InventoryReserved", "InventoryReservationFailed", "FraudApproved"}
    <3>1. \/ Reaction[m].emits = <<"FraudCheckRequested">>
          \/ Reaction[m].emits = <<"PaymentRefundRequested">>
          \/ Reaction[m].emits = <<"ShipmentRequested">>
      BY <2>2 DEF Reaction
    <3>2. QED
      BY <3>1, TopicTable
  <2>3. CASE m \in {"FraudRejected", "ShipmentCreated", "ShipmentFailed"}
    <3>1. \/ Reaction[m].emits = <<"InventoryReleased", "PaymentRefundRequested">>
          \/ Reaction[m].emits = <<"OrderCompleted", "NotificationRequested">>
      BY <2>3 DEF Reaction
    <3>2. QED
      BY <3>1, TopicTable
  <2>4. QED
    BY <1>1, <2>1, <2>2, <2>3
<1>5. ASSUME NEW a \in EventTypes, NEW b \in EventTypes
      PROVE  /\ <<a>> \in Seq(EventTypes) /\ <<a>> # <<>>
             /\ <<a, b>> \in Seq(EventTypes) /\ <<a, b>> # <<>>
  OBVIOUS
<1>6. Reaction[m].emits \in Seq(EventTypes) /\ Reaction[m].emits # <<>>
  BY <1>4, <1>5
<1>7. QED
  BY <1>2, <1>3, <1>6

\* What processEvent does in a state: it leaves the state for good, emits what
\* the new state allows and the old one did not, each event once, and takes on
\* compensations only when it starts to compensate.
LEMMA ReactionFits ==
    ASSUME NEW m \in DOMAIN Reaction
    PROVE  /\ Reaction[m].from \notin {"COMPENSATING", "CANCELLED"}
           /\ Reaction[m].to # "CANCELLED"
           /\ Reaction[m].to # "COMPENSATING" => Reaction[m].pending = {}
           /\ Reaction[m].to = "COMPENSATING" =>
                /\ "PAYMENT_REFUND" \in Reaction[m].pending
                /\ "INVENTORY_RELEASE" \in Reaction[m].pending \/ m = "InventoryReservationFailed"
           /\ \A x \in Emissions : Reaction[m].from \in After[x] => Reaction[m].to \in After[x]
           /\ \A k \in 1 .. Len(Reaction[m].emits) :
                LET x == Reaction[m].emits[k]
                IN  /\ x \in Emissions \ {"OrderCancelled"}
                    /\ Reaction[m].from \notin After[x] /\ Reaction[m].to \in After[x]
           /\ \A j, k \in 1 .. Len(Reaction[m].emits) :
                Reaction[m].emits[j] = Reaction[m].emits[k] => j = k
<1>1. m \in {"OrderCreated", "PaymentAuthorized", "PaymentRejected", "InventoryReserved",
             "InventoryReservationFailed", "FraudApproved", "FraudRejected",
             "ShipmentCreated", "ShipmentFailed"}
  BY DEF Reaction
<1> USE DEF OnOrderCreated, OnPaymentAuthorized, OnPaymentRejected, OnInventoryReserved,
            OnInventoryReservationFailed, OnFraudApproved, OnFraudRejected,
            OnShipmentCreated, OnShipmentFailed, Case
<1>2. /\ Reaction[m].from \notin {"COMPENSATING", "CANCELLED"}
      /\ Reaction[m].to # "CANCELLED"
      /\ Reaction[m].to # "COMPENSATING" => Reaction[m].pending = {}
      /\ Reaction[m].to = "COMPENSATING" =>
           /\ "PAYMENT_REFUND" \in Reaction[m].pending
           /\ "INVENTORY_RELEASE" \in Reaction[m].pending \/ m = "InventoryReservationFailed"
  BY <1>1 DEF Reaction, Compensations
<1>3. \A x \in Emissions : Reaction[m].from \in After[x] => Reaction[m].to \in After[x]
  <2>1. <<Reaction[m].from, Reaction[m].to>> \in
          {<<"NONE", "PAYMENT_PENDING">>, <<"PAYMENT_PENDING", "INVENTORY_PENDING">>,
           <<"PAYMENT_PENDING", "FAILED">>, <<"INVENTORY_PENDING", "FRAUD_PENDING">>,
           <<"INVENTORY_PENDING", "COMPENSATING">>, <<"FRAUD_PENDING", "SHIPPING_PENDING">>,
           <<"FRAUD_PENDING", "COMPENSATING">>, <<"SHIPPING_PENDING", "COMPLETED">>,
           <<"SHIPPING_PENDING", "COMPENSATING">>}
    BY <1>1 DEF Reaction
  <2>2. QED
    BY <2>1 DEF Emissions, After, States
<1>4. \/ Len(Reaction[m].emits) = 1
      \/ Len(Reaction[m].emits) = 2 /\ Reaction[m].emits[1] # Reaction[m].emits[2]
  BY <1>1 DEF Reaction
<1>5. ASSUME NEW k \in {1, 2}, Len(Reaction[m].emits) >= k
      PROVE  LET x == Reaction[m].emits[k]
             IN  /\ x \in Emissions \ {"OrderCancelled"}
                 /\ Reaction[m].from \notin After[x] /\ Reaction[m].to \in After[x]
  <2>1. <<Reaction[m].from, Reaction[m].to, Reaction[m].emits[k]>> \in
          {<<"NONE", "PAYMENT_PENDING", "PaymentRequested">>,
           <<"PAYMENT_PENDING", "INVENTORY_PENDING", "InventoryReservationRequested">>,
           <<"PAYMENT_PENDING", "FAILED", "OrderFailed">>,
           <<"INVENTORY_PENDING", "FRAUD_PENDING", "FraudCheckRequested">>,
           <<"INVENTORY_PENDING", "COMPENSATING", "PaymentRefundRequested">>,
           <<"FRAUD_PENDING", "SHIPPING_PENDING", "ShipmentRequested">>,
           <<"FRAUD_PENDING", "COMPENSATING", "InventoryReleased">>,
           <<"FRAUD_PENDING", "COMPENSATING", "PaymentRefundRequested">>,
           <<"SHIPPING_PENDING", "COMPLETED", "OrderCompleted">>,
           <<"SHIPPING_PENDING", "COMPLETED", "NotificationRequested">>,
           <<"SHIPPING_PENDING", "COMPENSATING", "InventoryReleased">>,
           <<"SHIPPING_PENDING", "COMPENSATING", "PaymentRefundRequested">>}
    BY <1>1, <1>5 DEF Reaction
  <2>2. QED
    BY <2>1 DEF Emissions, After, States
<1>6. QED
  BY <1>2, <1>3, <1>4, <1>5

\* Every case changes the state: it opens the order, or takes an open order on.
Open == {"PAYMENT_PENDING", "INVENTORY_PENDING", "FRAUD_PENDING", "SHIPPING_PENDING"}
\* No case leaves the state as it is, and none starts from one that is over.
LEMMA ReactionMoves ==
    ASSUME NEW m \in DOMAIN Reaction
    PROVE  /\ Reaction[m].from # Reaction[m].to
           /\ \/ Reaction[m].from = "NONE" /\ Reaction[m].to \in Open
              \/ /\ Reaction[m].from \in Open
                 /\ Reaction[m].to \in Open \cup {"COMPLETED", "FAILED", "COMPENSATING"}
BY DEF Open, Reaction, OnOrderCreated, OnPaymentAuthorized, OnPaymentRejected,
       OnInventoryReserved, OnInventoryReservationFailed, OnFraudApproved, OnFraudRejected,
       OnShipmentCreated, OnShipmentFailed, Case

\* Two cases that accept the same state are about the same topic.
LEMMA StateHasTopic ==
    ASSUME NEW m \in DOMAIN Reaction, NEW k \in DOMAIN Reaction,
           Reaction[m].from = Reaction[k].from
    PROVE  TopicOf[m] = TopicOf[k]
<1> USE DEF OnOrderCreated, OnPaymentAuthorized, OnPaymentRejected, OnInventoryReserved,
            OnInventoryReservationFailed, OnFraudApproved, OnFraudRejected,
            OnShipmentCreated, OnShipmentFailed, Case
<1>1. ASSUME NEW x \in DOMAIN Reaction
      PROVE  <<x, Reaction[x].from>> \in
               {<<"OrderCreated", "NONE">>, <<"PaymentAuthorized", "PAYMENT_PENDING">>,
                <<"PaymentRejected", "PAYMENT_PENDING">>,
                <<"InventoryReserved", "INVENTORY_PENDING">>,
                <<"InventoryReservationFailed", "INVENTORY_PENDING">>,
                <<"FraudApproved", "FRAUD_PENDING">>, <<"FraudRejected", "FRAUD_PENDING">>,
                <<"ShipmentCreated", "SHIPPING_PENDING">>,
                <<"ShipmentFailed", "SHIPPING_PENDING">>}
  BY DEF Reaction
<1>2. QED
  BY <1>1, TopicTable

\* The domain consumers answer with events that the orchestrator never emits.
LEMMA AnswerTable ==
    ASSUME NEW m \in EventTypes, NEW a \in Answers(m)
    PROVE  a \in EventTypes /\ a \notin Emissions /\ a \notin Outcomes
<1> DEFINE A == {"PaymentAuthorized", "PaymentRejected", "PaymentRefunded",
                 "InventoryReserved", "InventoryReservationFailed", "FraudApproved",
                 "FraudRejected", "ShipmentCreated", "ShipmentFailed", "NotificationSent"}
<1>1. TopicOf[m] \in Topics
  BY TopicsOfTypes
<1>2. a \in A
  BY <1>1 DEF Topics, Answers, AnswersIn, PaymentAnswers, InventoryAnswers, FraudAnswers,
              ShippingAnswers, NotificationAnswers
<1>3. QED
  BY <1>2, TopicTable DEF Emissions, After, Outcomes

\* Emissions have a topic, and outcomes are emissions that end the order.
LEMMA EmissionTable ==
    /\ Emissions \subseteq EventTypes /\ Outcomes \subseteq Emissions
    /\ \A m \in Outcomes : TopicOf[m] = "orders" /\ After[m] = {OutcomeOf[m]}
    /\ \A m, k \in Outcomes : OutcomeOf[m] = OutcomeOf[k] => m = k
    /\ \A m \in EventTypes : m \notin Outcomes /\ TopicOf[m] = "orders" => m \notin Emissions
<1>1. Emissions \subseteq EventTypes
  BY TopicTable DEF Emissions, After
<1>2. Outcomes \subseteq Emissions
  BY DEF Outcomes, Emissions, After
<1>3. \A m \in Outcomes : TopicOf[m] = "orders" /\ After[m] = {OutcomeOf[m]}
  BY TopicTable DEF Outcomes, After, OutcomeOf
<1>4. \A m, k \in Outcomes : OutcomeOf[m] = OutcomeOf[k] => m = k
  BY DEF Outcomes, OutcomeOf
<1>5. \A m \in EventTypes : m \notin Outcomes /\ TopicOf[m] = "orders" => m \notin Emissions
  BY TopicTable DEF Outcomes, Emissions, After
<1>6. QED
  BY <1>1, <1>2, <1>3, <1>4, <1>5

-----------------------------------------------------------------------------
(* What a step does to the topics *)

\* Topics only get longer: a message keeps its place.
Grows ==
    /\ log' \in [Topics -> Seq(EventTypes)] /\ LogsSorted'
    /\ \A t \in Topics :
         /\ Len(log[t]) <= Len(log'[t])
         /\ \A n \in 1 .. Len(log[t]) : log'[t][n] = log[t][n]

\* A step that sends nothing leaves the topics in order.
LEMMA NothingSent ==
    ASSUME TypeOK, LogsSorted, UNCHANGED log
    PROVE  Grows
<1>1. \A t \in Topics : Len(log[t]) \in Nat
  BY DEF TypeOK
<1>2. QED
  BY <1>1 DEF TypeOK, LogsSorted, Grows

\* Send appends to the topic of the message and touches no other.
LEMMA SendAppends ==
    ASSUME TypeOK, NEW m \in EventTypes, Send(m)
    PROVE  /\ TopicOf[m] \in Topics
           /\ log' \in [Topics -> Seq(EventTypes)]
           /\ Len(log'[TopicOf[m]]) = Len(log[TopicOf[m]]) + 1
           /\ log'[TopicOf[m]][Len(log[TopicOf[m]]) + 1] = m
           /\ \A n \in 1 .. Len(log[TopicOf[m]]) : log'[TopicOf[m]][n] = log[TopicOf[m]][n]
           /\ \A t \in Topics \ {TopicOf[m]} : log'[t] = log[t]
<1>1. TopicOf[m] \in Topics
  BY TopicsOfTypes
<1>2. PICK u \in Topics : u = TopicOf[m]
  BY <1>1
<1>3. log \in [Topics -> Seq(EventTypes)] /\ log' = [log EXCEPT ![u] = Append(log[u], m)]
  BY <1>2 DEF TypeOK, Send
<1>4. log[u] \in Seq(EventTypes) /\ log'[u] = Append(log[u], m)
  BY <1>3
<1>5. /\ log' \in [Topics -> Seq(EventTypes)]
      /\ \A t \in Topics \ {u} : log'[t] = log[t]
  BY <1>3, <1>4
<1>6. /\ Len(log'[u]) = Len(log[u]) + 1 /\ log'[u][Len(log[u]) + 1] = m
      /\ \A n \in 1 .. Len(log[u]) : log'[u][n] = log[u][n]
  BY <1>4
<1>7. QED
  BY <1>2, <1>5, <1>6

\* A step that sends one message keeps every message in place.
LEMMA SendGrows ==
    ASSUME TypeOK, LogsSorted, NEW m \in EventTypes, Send(m)
    PROVE  Grows
<1>1. PICK u \in Topics :
        /\ u = TopicOf[m] /\ Len(log[u]) \in Nat
        /\ log' \in [Topics -> Seq(EventTypes)]
        /\ Len(log'[u]) = Len(log[u]) + 1 /\ log'[u][Len(log[u]) + 1] = m
        /\ \A n \in 1 .. Len(log[u]) : log'[u][n] = log[u][n]
        /\ \A t \in Topics \ {u} : log'[t] = log[t]
  <2>1. Len(log[TopicOf[m]]) \in Nat
    BY SendAppends DEF TypeOK
  <2>2. QED
    BY <2>1, SendAppends
<1>2. \A t \in Topics : Len(log[t]) \in Nat
  BY DEF TypeOK
<1>3. ASSUME NEW t \in Topics, NEW n \in 1 .. Len(log'[t]) PROVE TopicOf[log'[t][n]] = t
  <2>1. CASE t = u /\ n = Len(log[u]) + 1
    BY <1>1, <2>1
  <2>2. CASE n \in 1 .. Len(log[t])
    BY <1>1, <2>2 DEF LogsSorted
  <2>3. QED
    BY <1>1, <1>2, <1>3, <2>1, <2>2
<1>4. \A t \in Topics :
        /\ Len(log[t]) <= Len(log'[t])
        /\ \A n \in 1 .. Len(log[t]) : log'[t][n] = log[t][n]
  BY <1>1, <1>2
<1>5. QED
  BY <1>1, <1>3, <1>4 DEF Grows, LogsSorted

\* An instance that emits has an event to emit.
LEMMA HeadToEmit ==
    ASSUME Typed, NEW i \in Instances, pc[i] = "emit"
    PROVE  /\ out[i] \in Seq(EventTypes) /\ out[i] # <<>>
           /\ Head(out[i]) \in EventTypes /\ Len(out[i]) \in Nat \ {0}
           /\ Head(out[i]) = out[i][1]
           /\ Tail(out[i]) \in Seq(EventTypes) /\ Len(Tail(out[i])) = Len(out[i]) - 1
           /\ \A k \in 1 .. Len(out[i]) - 1 : Tail(out[i])[k] = out[i][k + 1]
<1>1. out[i] \in Seq(EventTypes) /\ out[i] # <<>>
  BY DEF Typed, TypeOK, AtWork
<1>2. QED
  BY <1>1

\* The kinds of steps, by what they do to the topics, the row and the events to
\* emit.  A step may write nothing of these, but forget events to emit; send what
\* the relay or a domain consumer sends; emit the first event of an instance;
\* save the row for a case; or note a compensation in it.
OthersKeep(i) == \A j \in Instances \ {i} : out'[j] = out[j]
Quiet ==
    UNCHANGED <<log, state, pending, completed>>
    /\ \A j \in Instances : out'[j] = out[j] \/ out'[j] = <<>>
FromOutside ==
    \E m \in EventTypes \ Emissions :
        Send(m) /\ UNCHANGED <<state, pending, completed, out>>
Emitting(i) ==
    /\ pc[i] = "emit" /\ Send(Head(out[i]))
    /\ out'[i] = Tail(out[i]) \/ out'[i] = <<>>
    /\ OthersKeep(i) /\ UNCHANGED <<state, pending, completed>>
Saving(i) ==
    /\ pc[i] = "save" /\ pc'[i] # "save" /\ SaveRow(i) /\ UNCHANGED log
    /\ out'[i] = Reaction[Message(i)].emits \/ out'[i] = <<>>
    /\ OthersKeep(i)
Reporting(i) ==
    /\ pc[i] = "barrier" /\ BarrierRow(i) /\ UNCHANGED log
    /\ \/ out'[i] = <<>>
       \/ out'[i] = <<"OrderCancelled">> /\ state = "COMPENSATING" /\ state' = "CANCELLED"
    /\ OthersKeep(i)

\* Every step is of one of these kinds.
LEMMA StepKinds ==
    ASSUME Typed, [Next]_vars
    PROVE  \/ Quiet \/ FromOutside
           \/ \E i \in Instances : Emitting(i) \/ Saving(i) \/ Reporting(i)
<1> USE DEF kafka, group, row, mem
<1>1. CASE PublishOrder \/ RepublishOrder
  <2>1. "OrderCreated" \in EventTypes /\ "OrderCreated" \notin Emissions
    BY TopicTable DEF Emissions, After
  <2>2. QED
    BY <1>1, <2>1 DEF PublishOrder, RepublishOrder, FromOutside
<1>2. ASSUME NEW t \in Topics, Serve(t) \/ ServeUnmarked(t) PROVE FromOutside
  <2>1. PICK n \in served[t] + 1 .. Len(log[t]) :
           (\E a \in Answers(log[t][n]) : Send(a)) /\ UNCHANGED <<row, mem>>
    BY <1>2 DEF Serve, ServeUnmarked
  <2>2. log[t][n] \in EventTypes
    BY DEF Typed, TypeOK
  <2>3. QED
    BY <2>1, <2>2, AnswerTable DEF FromOutside
<1>3. \A i \in Instances : i \in DOMAIN out /\ (pc[i] = "barrier" => out[i] = <<>>)
  BY DEF Typed, TypeOK, AtWork
<1>4. ASSUME NEW i \in Instances, NEW s, out' = [out EXCEPT ![i] = s]
      PROVE  out'[i] = s /\ OthersKeep(i)
  BY <1>3, <1>4 DEF OthersKeep
<1>a. ASSUME NEW i \in Instances, NEW p, Goto(i, p) PROVE pc'[i] = p
  BY <1>a DEF Typed, TypeOK, Goto
<1>5. ASSUME NEW i \in Instances, out' = [out EXCEPT ![i] = <<>>],
             UNCHANGED <<log, state, pending, completed>>
      PROVE  Quiet
  BY <1>4, <1>5 DEF Quiet, OthersKeep
<1>6. ASSUME NEW i \in Instances, Emit(i) PROVE Emitting(i)
  BY <1>4, <1>6 DEF Emit, Emitting
<1>7. ASSUME NEW i \in Instances, SaveSaga(i) PROVE Saving(i)
  BY <1>4, <1>7, <1>a DEF SaveSaga, Saving
<1>8. ASSUME NEW i \in Instances, Barrier(i) PROVE Reporting(i)
  <2>1. pc[i] = "barrier" /\ BarrierRow(i) /\ UNCHANGED log
    BY <1>8 DEF Barrier
  <2>2. CASE state' = "CANCELLED" /\ state # "CANCELLED"
    <3>1. state = "COMPENSATING"
      BY <2>1, <2>2 DEF BarrierRow
    <3>2. QED
      BY <1>4, <1>8, <2>1, <2>2, <3>1 DEF Barrier, Reporting
  <2>3. CASE ~(state' = "CANCELLED" /\ state # "CANCELLED")
    BY <1>3, <1>8, <2>1, <2>3 DEF Barrier, Reporting, OthersKeep
  <2>4. QED
    BY <2>2, <2>3
<1>9. ASSUME NEW i \in Instances, Error(i)
      PROVE  Quiet \/ Emitting(i) \/ Saving(i) \/ Reporting(i)
  <2>1. out' = [out EXCEPT ![i] = <<>>]
    BY <1>9 DEF Error
  <2>2. out'[i] = <<>> /\ OthersKeep(i)
    BY <1>4, <2>1
  <2>a. pc'[i] = "read"
    BY <1>9, <1>a DEF Error
  <2>3. \/ pc[i] = "save" /\ SaveRow(i) /\ UNCHANGED log
        \/ pc[i] = "barrier" /\ BarrierRow(i) /\ UNCHANGED log
        \/ pc[i] = "emit" /\ Send(Head(out[i])) /\ UNCHANGED row
        \/ UNCHANGED <<log, row>>
    BY <1>9 DEF Error
  <2>4. QED
    BY <1>5, <2>1, <2>2, <2>3, <2>a DEF Emitting, Saving, Reporting
<1>10. ASSUME NEW i \in Instances, Mark(i) \/ GiveUp(i) \/ Crash(i) PROVE Quiet
  BY <1>5, <1>10 DEF Mark, GiveUp, Crash, Return, Clear
<1>11. ASSUME UNCHANGED <<log, state, pending, completed, out>> PROVE Quiet
  BY <1>11 DEF Quiet
<1>12. QED
  BY <1>1, <1>2, <1>6, <1>7, <1>8, <1>9, <1>10, <1>11
     DEF Next, Handle, vars, ServeToDlq, ReadSaga, TakeNext, Steal, Take

\* No step makes a topic shorter.
LEMMA TopicsGrow ==
    ASSUME Typed, [Next]_vars
    PROVE  Grows
<1>1. CASE UNCHANGED log
  BY <1>1, NothingSent DEF Typed
<1>2. CASE FromOutside
  BY <1>2, SendGrows DEF Typed, FromOutside
<1>3. ASSUME NEW i \in Instances, Emitting(i) PROVE Grows
  BY <1>3, SendGrows, HeadToEmit DEF Typed, Emitting
<1>4. QED
  BY <1>1, <1>2, <1>3, StepKinds DEF Quiet, Saving, Reporting

\* What was sent stays sent.
LEMMA SentStays ==
    ASSUME Typed, Grows, NEW m \in EventTypes, Sent(m)
    PROVE  Sent(m)'
<1>1. PICK t \in Topics : t = TopicOf[m]
  BY TopicsOfTypes
<1>2. Len(log[t]) \in Nat /\ Len(log'[t]) \in Nat
  BY DEF Typed, TypeOK, Grows
<1>3. QED
  BY <1>1, <1>2 DEF Sent, Grows

-----------------------------------------------------------------------------
(* Types, and instances at work *)

\* TypeOK by the parts a step writes together.
OffsetTypes ==
    /\ served \in [Topics -> Nat] /\ \A t \in Topics : served[t] <= Len(log[t])
    /\ taken \in [SagaTopics -> Nat] /\ \A t \in SagaTopics : taken[t] <= Len(log[t])
RowTypes == state \in States /\ pending \subseteq Compensations /\ completed \subseteq Compensations
InstanceTypes ==
    /\ pc \in [Instances -> {"idle", "read", "save", "barrier", "emit", "mark"}]
    /\ topic \in [Instances -> SagaTopics \cup {None}]
    /\ idx \in [Instances -> Nat]
    /\ out \in [Instances -> Seq(EventTypes)]
GroupTypes ==
    holder \in [SagaTopics -> Instances \cup {None}] /\ marked \subseteq Topics \X Nat
CountTypes == faults \in 0 .. MaxFaults /\ steals \in 0 .. faults /\ lost \in BOOLEAN

\* The parts make up TypeOK.
LEMMA TypeParts ==
    TypeOK <=> /\ log \in [Topics -> Seq(EventTypes)]
               /\ OffsetTypes /\ RowTypes /\ InstanceTypes /\ GroupTypes /\ CountTypes
BY DEF TypeOK, OffsetTypes, RowTypes, InstanceTypes, GroupTypes, CountTypes

\* An instance that does not move, and whose topic only grows, stays at work.
LEMMA StaysAtWork ==
    ASSUME Typed, Grows, NEW i \in Instances,
           UNCHANGED <<pc[i], topic[i], idx[i], out[i]>>
    PROVE  AtWork(i)'
<1>1. AtWork(i)
  BY DEF Typed
<1>2. CASE pc[i] = "idle"
  BY <1>1, <1>2 DEF AtWork
<1>3. CASE pc[i] # "idle"
  <2>1. topic[i] \in Topics /\ idx[i] \in 1 .. Len(log[topic[i]])
    BY <1>1, <1>3 DEF AtWork, SagaTopics
  <2>2. Len(log[topic[i]]) \in Nat /\ Len(log'[topic[i]]) \in Nat
    BY <2>1 DEF Typed, TypeOK, Grows
  <2>3. Message(i)' = Message(i) /\ idx[i] \in 1 .. Len(log'[topic[i]])
    BY <2>1, <2>2 DEF Grows, Message
  <2>4. QED
    BY <1>1, <1>3, <2>3 DEF AtWork
<1>4. QED
  BY <1>2, <1>3

\* A step of i to point p with the events o to emit.
LEMMA MovesAtWork ==
    ASSUME Typed, Grows, NEW i \in Instances, pc[i] # "idle",
           NEW p \in {"read", "save", "barrier", "emit", "mark"}, pc' = [pc EXCEPT ![i] = p],
           NEW o \in Seq(EventTypes), out' = [out EXCEPT ![i] = o],
           UNCHANGED <<topic, idx>>,
           p = "save" => Message(i) \in DOMAIN Reaction,
           p = "barrier" => Message(i) \in DOMAIN Completes,
           p = "emit" <=> o # <<>>
    PROVE  InstanceTypes' /\ \A j \in Instances : AtWork(j)'
<1>1. InstanceTypes
  BY TypeParts DEF Typed
<1>2. InstanceTypes'
  BY <1>1 DEF InstanceTypes
<1>3. /\ pc'[i] = p /\ out'[i] = o
      /\ \A j \in Instances \ {i} : UNCHANGED <<pc[j], topic[j], idx[j], out[j]>>
  BY <1>1 DEF InstanceTypes
<1>4. AtWork(i)'
  <2>1. topic[i] \in SagaTopics /\ idx[i] \in 1 .. Len(log[topic[i]])
    BY DEF Typed, AtWork
  <2>2. topic[i] \in Topics
    BY <2>1 DEF SagaTopics
  <2>3. Len(log[topic[i]]) \in Nat /\ Len(log'[topic[i]]) \in Nat
    BY <2>2 DEF Typed, TypeOK, Grows
  <2>4. Message(i)' = Message(i) /\ idx[i] \in 1 .. Len(log'[topic[i]])
    BY <2>1, <2>2, <2>3 DEF Grows, Message
  <2>5. QED
    BY <1>3, <2>1, <2>4 DEF AtWork
<1>5. QED
  BY <1>2, <1>3, <1>4, StaysAtWork

\* The steps of the instances.
LEMMA InstancesStep ==
    ASSUME Typed, [Next]_vars
    PROVE  InstanceTypes' /\ \A j \in Instances : AtWork(j)'
<1> USE DEF kafka, group, row, mem
<1> DEFINE Goal == InstanceTypes' /\ \A j \in Instances : AtWork(j)'
<1>1. Grows
  BY TopicsGrow
<1>2. InstanceTypes
  BY TypeParts DEF Typed
<1>3. CASE UNCHANGED mem
  BY <1>1, <1>2, <1>3, StaysAtWork DEF InstanceTypes
<1>4. ASSUME NEW i \in Instances, NEW t \in SagaTopics, Take(i, t), ~UNCHANGED mem PROVE Goal
  <2>1. PICK n \in taken[t] + 1 .. Len(log[t]) :
          /\ topic' = [topic EXCEPT ![i] = t] /\ idx' = [idx EXCEPT ![i] = n]
          /\ pc' = [pc EXCEPT ![i] = "read"] /\ out' = out /\ log' = log /\ pc[i] = "idle"
    BY <1>4 DEF Take, Goto
  <2>2. taken[t] \in Nat /\ n \in Nat /\ n \in 1 .. Len(log[t])
    BY <2>1 DEF Typed, TypeOK
  <2>3. /\ InstanceTypes'
        /\ pc'[i] = "read" /\ topic'[i] = t /\ idx'[i] = n
        /\ \A j \in Instances \ {i} : UNCHANGED <<pc[j], topic[j], idx[j], out[j]>>
    BY <1>2, <2>1, <2>2 DEF InstanceTypes
  <2>4. out[i] = <<>>
    BY <2>1 DEF Typed, AtWork
  <2>5. AtWork(i)'
    BY <2>1, <2>2, <2>3, <2>4 DEF AtWork
  <2>6. QED
    BY <1>1, <2>3, <2>5, StaysAtWork
<1>5. ASSUME NEW i \in Instances, Clear(i) PROVE Goal
  <2>1. /\ InstanceTypes'
        /\ pc'[i] = "idle" /\ out'[i] = <<>>
        /\ \A j \in Instances \ {i} : UNCHANGED <<pc[j], topic[j], idx[j], out[j]>>
    BY <1>2, <1>5 DEF InstanceTypes, Clear
  <2>2. AtWork(i)'
    BY <2>1 DEF AtWork
  <2>3. QED
    BY <1>1, <2>1, <2>2, StaysAtWork
<1>6. ASSUME NEW i \in Instances, pc[i] # "emit"
      PROVE  out = [out EXCEPT ![i] = <<>>] /\ <<>> \in Seq(EventTypes)
  BY <1>2, <1>6 DEF InstanceTypes, Typed, AtWork
<1>7. ASSUME NEW i \in Instances, ReadSaga(i) PROVE Goal
  BY <1>1, <1>6, <1>7, MovesAtWork DEF ReadSaga, Goto
<1>8. ASSUME NEW i \in Instances, SaveSaga(i) PROVE Goal
  <2>1. Message(i) \in DOMAIN Reaction
    BY <1>8 DEF SaveSaga, Typed, AtWork
  <2>2. Reaction[Message(i)].emits \in Seq(EventTypes) /\ Reaction[Message(i)].emits # <<>>
    BY <2>1, ReactionTable
  <2>3. QED
    BY <1>1, <1>8, <2>2, MovesAtWork DEF SaveSaga, Goto
<1>9. ASSUME NEW i \in Instances, Barrier(i) PROVE Goal
  <2>1. <<"OrderCancelled">> \in Seq(EventTypes) /\ <<"OrderCancelled">> # <<>>
    BY TopicTable
  <2>2. QED
    BY <1>1, <1>6, <1>9, <2>1, MovesAtWork DEF Barrier, Goto
<1>10. ASSUME NEW i \in Instances, Emit(i) PROVE Goal
  <2>1. /\ pc[i] = "emit" /\ Len(out[i]) \in Nat \ {0} /\ Tail(out[i]) \in Seq(EventTypes)
        /\ Len(Tail(out[i])) = Len(out[i]) - 1
    BY <1>10, HeadToEmit DEF Emit
  <2>2. Len(out[i]) = 1 <=> Tail(out[i]) = <<>>
    <3>1. PICK s \in Seq(EventTypes) : s = Tail(out[i])
      BY <2>1
    <3>2. PICK n \in Nat : n = Len(out[i])
      BY <2>1
    <3>3. Len(s) = n - 1
      BY <2>1, <3>1, <3>2
    <3>4. s = <<>> <=> n = 1
      BY <3>3
    <3>5. QED
      BY <3>1, <3>2, <3>4
  <2>3. QED
    BY <1>1, <1>10, <2>1, <2>2, MovesAtWork DEF Emit, Goto
<1>11. ASSUME NEW i \in Instances, Error(i) PROVE Goal
  <2>1. <<>> \in Seq(EventTypes)
    OBVIOUS
  <2>2. QED
    BY <1>1, <1>11, <2>1, MovesAtWork DEF Error, Goto
<1>12. Goal
  BY <1>3, <1>4, <1>5, <1>7, <1>8, <1>9, <1>10, <1>11
     DEF Next, Handle, vars, PublishOrder, RepublishOrder, Serve, ServeUnmarked, ServeToDlq,
         TakeNext, Steal, Mark, Return, GiveUp, Crash
<1>13. QED
  BY <1>12

\* Offsets stay within the topics.
LEMMA OffsetsStep ==
    ASSUME Typed, [Next]_vars
    PROVE  OffsetTypes'
<1> USE DEF kafka, group, row, mem
<1>1. Grows
  BY TopicsGrow
<1>2. /\ OffsetTypes /\ SagaTopics \subseteq Topics
      /\ \A t \in Topics : Len(log[t]) \in Nat /\ Len(log'[t]) \in Nat /\ Len(log[t]) <= Len(log'[t])
  BY <1>1, TypeParts DEF Typed, TypeOK, Grows, SagaTopics
<1>3. CASE UNCHANGED <<served, taken>>
  <2>1. \A t \in Topics : served[t] \in Nat /\ served[t] <= Len(log[t])
    BY <1>2 DEF OffsetTypes
  <2>2. \A t \in SagaTopics : taken[t] \in Nat /\ taken[t] <= Len(log[t])
    BY <1>2 DEF OffsetTypes
  <2>3. \A t \in Topics : served[t] <= Len(log'[t])
    BY <1>2, <2>1
  <2>4. \A t \in SagaTopics : taken[t] <= Len(log'[t])
    BY <1>2, <2>2
  <2>5. QED
    BY <1>2, <1>3, <2>3, <2>4 DEF OffsetTypes
<1>4. ASSUME NEW t \in Topics, NEW n \in served[t] + 1 .. Len(log[t]),
             served' = [served EXCEPT ![t] = n], UNCHANGED taken
      PROVE  OffsetTypes'
  BY <1>2, <1>4 DEF OffsetTypes
<1>5. ASSUME NEW t \in SagaTopics, NEW n \in Nat, n <= Len(log[t]),
             taken' = [taken EXCEPT ![t] = n], UNCHANGED served
      PROVE  OffsetTypes'
  <2>1. taken \in [SagaTopics -> Nat]
    BY <1>2 DEF OffsetTypes
  <2>2. /\ taken' \in [SagaTopics -> Nat] /\ taken'[t] = n
        /\ \A u \in SagaTopics \ {t} : taken'[u] = taken[u]
    BY <1>5, <2>1
  <2>3. \A u \in Topics : served'[u] <= Len(log'[u])
    BY <1>2, <1>5 DEF OffsetTypes
  <2>4. \A u \in SagaTopics : taken'[u] <= Len(log'[u])
    <3>1. ASSUME NEW u \in SagaTopics PROVE taken'[u] \in Nat /\ taken'[u] <= Len(log[u])
      BY <1>2, <1>5, <2>2 DEF OffsetTypes
    <3>2. QED
      BY <1>2, <3>1
  <2>5. QED
    BY <1>2, <1>5, <2>2, <2>3, <2>4 DEF OffsetTypes
<1>6. ASSUME NEW t \in Topics, Serve(t) \/ ServeUnmarked(t) \/ ServeToDlq(t)
      PROVE  OffsetTypes'
  BY <1>3, <1>4, <1>6 DEF Serve, ServeUnmarked, ServeToDlq
<1>7. ASSUME NEW i \in Instances, NEW t \in SagaTopics, Take(i, t) PROVE OffsetTypes'
  <2>1. taken[t] \in Nat
    BY <1>2 DEF OffsetTypes
  <2>2. \A n \in taken[t] + 1 .. Len(log[t]) : n \in Nat /\ n <= Len(log[t])
    BY <1>2, <2>1
  <2>3. QED
    BY <1>3, <1>5, <1>7, <2>2 DEF Take
<1>8. ASSUME NEW i \in Instances, pc[i] # "idle", Return(i), UNCHANGED served
      PROVE  OffsetTypes'
  <2>1. topic[i] \in SagaTopics /\ idx[i] \in 1 .. Len(log[topic[i]])
    BY <1>8 DEF Typed, AtWork
  <2>2. idx[i] \in Nat /\ idx[i] <= Len(log[topic[i]])
    BY <1>2, <2>1
  <2>3. QED
    BY <1>3, <1>5, <1>8, <2>1, <2>2 DEF Return
<1>9. QED
  BY <1>3, <1>6, <1>7, <1>8
     DEF Next, Handle, vars, PublishOrder, RepublishOrder, TakeNext, Steal, ReadSaga, SaveSaga,
         Barrier, Emit, Mark, Error, GiveUp, Crash

\* The row holds a state and sets of compensations.
LEMMA RowStep ==
    ASSUME Typed, [Next]_vars
    PROVE  RowTypes'
<1> USE DEF kafka, group, row, mem
<1>1. RowTypes
  BY TypeParts DEF Typed
<1>2. CASE UNCHANGED row
  BY <1>1, <1>2 DEF RowTypes
<1>3. ASSUME NEW i \in Instances, pc[i] = "save", SaveRow(i) PROVE RowTypes'
  <2>1. Message(i) \in DOMAIN Reaction
    BY <1>3 DEF Typed, AtWork
  <2>2. QED
    BY <1>3, <2>1, ReactionTable DEF SaveRow, RowTypes
<1>4. ASSUME NEW i \in Instances, pc[i] = "barrier", BarrierRow(i) PROVE RowTypes'
  <2>1. Message(i) \in DOMAIN Completes
    BY <1>4 DEF Typed, AtWork
  <2>2. Completes[Message(i)] \in Compensations
    BY <2>1 DEF Completes, Compensations
  <2>3. QED
    BY <1>1, <1>4, <2>2 DEF BarrierRow, RowTypes, States
<1>5. QED
  BY <1>2, <1>3, <1>4
     DEF Next, Handle, vars, PublishOrder, RepublishOrder, Serve, ServeUnmarked, ServeToDlq,
         TakeNext, Steal, Take, ReadSaga, SaveSaga, Barrier, Emit, Mark, Error, GiveUp, Crash

\* Holders and markers.
LEMMA GroupStep ==
    ASSUME Typed, [Next]_vars
    PROVE  GroupTypes'
<1> USE DEF kafka, group, row, mem
<1>1. GroupTypes
  BY TypeParts DEF Typed
<1>2. CASE UNCHANGED <<holder, marked>>
  BY <1>1, <1>2 DEF GroupTypes
<1>3. ASSUME NEW i \in Instances, NEW t \in SagaTopics, Take(i, t) PROVE GroupTypes'
  BY <1>1, <1>3 DEF Take, GroupTypes
<1>4. ASSUME NEW i \in Instances, pc[i] # "idle"
      PROVE  EventId(topic[i], idx[i]) \in Topics \X Nat
  <2>1. topic[i] \in Topics /\ idx[i] \in Nat
    BY <1>4 DEF Typed, TypeOK, AtWork, SagaTopics
  <2>2. QED
    BY <2>1 DEF EventId
<1>5. ASSUME NEW i \in Instances, Mark(i) \/ GiveUp(i) PROVE GroupTypes'
  BY <1>1, <1>4, <1>5 DEF Mark, GiveUp, Return, GroupTypes
<1>6. ASSUME NEW i \in Instances, Error(i) PROVE GroupTypes'
  BY <1>1, <1>4, <1>6 DEF Error, GroupTypes
<1>7. ASSUME NEW i \in Instances, Crash(i) PROVE GroupTypes'
  BY <1>1, <1>7 DEF Crash, GroupTypes
<1>8. QED
  BY <1>2, <1>3, <1>5, <1>6, <1>7
     DEF Next, Handle, vars, PublishOrder, RepublishOrder, Serve, ServeUnmarked, ServeToDlq,
         TakeNext, Steal, ReadSaga, SaveSaga, Barrier, Emit

\* The counters of what went wrong.
LEMMA CountStep ==
    ASSUME Typed, [Next]_vars
    PROVE  CountTypes'
<1> USE DEF kafka, group, row, mem
<1>1. CountTypes
  BY TypeParts DEF Typed
<1>2. faults \in Nat /\ steals \in Nat /\ steals <= faults /\ faults <= MaxFaults
  BY <1>1, BoundsAssumption DEF CountTypes
<1>3. lost' \in BOOLEAN
  BY <1>1
     DEF CountTypes, Next, Handle, vars, PublishOrder, RepublishOrder, Serve, ServeUnmarked,
         ServeToDlq, TakeNext, Steal, Take, ReadSaga, SaveSaga, Barrier, Emit, Mark, Error,
         GiveUp, Crash
<1>4. CASE UNCHANGED <<faults, steals>>
  BY <1>1, <1>3, <1>4 DEF CountTypes
<1>5. CASE Fault /\ UNCHANGED steals
  BY <1>2, <1>3, <1>5, BoundsAssumption DEF CountTypes, Fault
<1>6. ASSUME NEW i \in Instances, NEW t \in SagaTopics, Steal(i, t) PROVE CountTypes'
  BY <1>2, <1>3, <1>6, BoundsAssumption DEF CountTypes, Steal
<1>7. QED
  BY <1>4, <1>5, <1>6
     DEF Next, Handle, vars, PublishOrder, RepublishOrder, Serve, ServeUnmarked,
         ServeToDlq, TakeNext, ReadSaga, SaveSaga, Barrier, Emit, Mark, Error,
         GiveUp, Crash

\* The topics are empty and the instances idle at first.
LEMMA TypedInit == Init => Typed
<1> SUFFICES ASSUME Init PROVE Typed
  OBVIOUS
<1>1. log = [t \in Topics |-> <<>>] /\ \A t \in Topics : Len(log[t]) = 0
  BY DEF Init
<1>2. log \in [Topics -> Seq(EventTypes)] /\ LogsSorted
  BY <1>1 DEF LogsSorted
<1>3. OffsetTypes
  BY <1>1 DEF Init, OffsetTypes, SagaTopics
<1>4. RowTypes /\ GroupTypes
  BY DEF Init, RowTypes, GroupTypes, States
<1>5. InstanceTypes
  BY DEF Init, InstanceTypes
<1>6. CountTypes
  <2>1. faults \in 0 .. MaxFaults /\ steals \in 0 .. faults
    BY BoundsAssumption DEF Init
  <2>2. QED
    BY <2>1, Zenon DEF Init, CountTypes
<1>7. \A i \in Instances : AtWork(i)
  BY DEF Init, AtWork
<1>8. QED
  BY <1>2, <1>3, <1>4, <1>5, <1>6, <1>7, TypeParts DEF Typed

\* Every step keeps types, sorted topics and instances on course.
LEMMA TypedNext == Typed /\ [Next]_vars => Typed'
<1> SUFFICES ASSUME Typed, [Next]_vars PROVE Typed'
  OBVIOUS
<1>1. log' \in [Topics -> Seq(EventTypes)] /\ LogsSorted'
  BY TopicsGrow DEF Grows
<1>2. /\ OffsetTypes' /\ RowTypes' /\ GroupTypes' /\ CountTypes'
      /\ InstanceTypes' /\ \A j \in Instances : AtWork(j)'
  BY OffsetsStep, RowStep, GroupStep, CountStep, InstancesStep
<1>3. TypeOK'
  BY <1>1, <1>2 DEF TypeOK, OffsetTypes, RowTypes, GroupTypes, CountTypes, InstanceTypes
<1>4. QED
  BY <1>1, <1>2, <1>3 DEF Typed

-----------------------------------------------------------------------------
(* What was sent, and what is about to be *)

\* The message an instance works on was sent, in the topic of its type.
LEMMA MessageSent ==
    ASSUME Typed, NEW i \in Instances, pc[i] # "idle"
    PROVE  Message(i) \in EventTypes /\ TopicOf[Message(i)] = topic[i] /\ Sent(Message(i))
<1>1. topic[i] \in Topics /\ idx[i] \in 1 .. Len(log[topic[i]])
  BY DEF Typed, AtWork, SagaTopics
<1>2. TopicOf[Message(i)] = topic[i] /\ Message(i) \in EventTypes
  <2>1. log[topic[i]] \in Seq(EventTypes)
    BY <1>1 DEF Typed, TypeOK
  <2>2. log[topic[i]][idx[i]] \in EventTypes
    BY <1>1, <2>1
  <2>3. QED
    BY <1>1, <2>2 DEF Typed, LogsSorted, Message
<1>3. QED
  BY <1>1, <1>2 DEF Sent, Message

\* A message that is new in its topic is the one just sent.
LEMMA SentBy ==
    ASSUME Typed, NEW x \in EventTypes, Send(x), NEW m \in EventTypes, Sent(m)'
    PROVE  Sent(m) \/ m = x
<1>1. PICK n \in 1 .. Len(log'[TopicOf[m]]) : log'[TopicOf[m]][n] = m
  BY DEF Sent
<1>2. TopicOf[m] \in Topics /\ Len(log[TopicOf[m]]) \in Nat
  <2>1. TopicOf[m] \in Topics
    BY TopicsOfTypes
  <2>2. QED
    BY <2>1 DEF Typed, TypeOK
<1>3. CASE TopicOf[m] = TopicOf[x]
  <2>1. /\ Len(log'[TopicOf[m]]) = Len(log[TopicOf[m]]) + 1
        /\ log'[TopicOf[m]][Len(log[TopicOf[m]]) + 1] = x
        /\ \A k \in 1 .. Len(log[TopicOf[m]]) : log'[TopicOf[m]][k] = log[TopicOf[m]][k]
    BY <1>3, SendAppends DEF Typed
  <2>2. n \in 1 .. Len(log[TopicOf[m]]) \/ n = Len(log[TopicOf[m]]) + 1
    BY <1>2, <2>1
  <2>3. QED
    BY <1>1, <2>1, <2>2 DEF Sent
<1>4. CASE TopicOf[m] # TopicOf[x]
  <2>1. log'[TopicOf[m]] = log[TopicOf[m]]
    BY <1>2, <1>4, SendAppends DEF Typed
  <2>2. QED
    BY <1>1, <2>1 DEF Sent
<1>5. QED
  BY <1>3, <1>4

\* An event is only ever on its way because processEvent just decided to emit it.
Decided(m) ==
    \E i \in Instances :
        \/ Saving(i) /\ \E k \in 1 .. Len(Reaction[Message(i)].emits) : Reaction[Message(i)].emits[k] = m
        \/ Reporting(i) /\ m = "OrderCancelled" /\ state = "COMPENSATING" /\ state' = "CANCELLED"

\* Only a case or the barrier adds to what is emitted.
LEMMA EmittedBy ==
    ASSUME Typed, [Next]_vars, NEW m \in Emissions, Emitted(m)'
    PROVE  Emitted(m) \/ Decided(m)
<1>0. m \in EventTypes
  BY EmissionTable
<1>1. ~\E k \in 1 .. Len(<<>>) : <<>>[k] = m
  OBVIOUS
<1>2. CASE Quiet
  <2>1. Sent(m)' => Sent(m)
    BY <1>2 DEF Quiet, Sent
  <2>2. Waiting(m)' => Waiting(m)
    BY <1>1, <1>2 DEF Quiet, Waiting
  <2>3. QED
    BY <2>1, <2>2 DEF Emitted
<1>3. CASE FromOutside
  <2>1. Sent(m)' => Sent(m)
    BY <1>0, <1>3, SentBy DEF FromOutside
  <2>2. QED
    BY <1>3, <2>1 DEF FromOutside, Emitted, Waiting
<1>4. ASSUME NEW i \in Instances, Emitting(i) PROVE Emitted(m)
  <2>1. /\ Head(out[i]) \in EventTypes /\ Head(out[i]) = out[i][1] /\ Len(out[i]) \in Nat \ {0}
        /\ Len(Tail(out[i])) = Len(out[i]) - 1
        /\ \A k \in 1 .. Len(out[i]) - 1 : Tail(out[i])[k] = out[i][k + 1]
    BY <1>4, HeadToEmit DEF Emitting
  <2>2. Sent(m)' => Sent(m) \/ m = out[i][1]
    BY <1>0, <1>4, <2>1, SentBy DEF Emitting
  <2>3. m = out[i][1] => Waiting(m)
    BY <2>1 DEF Waiting
  <2>4. Waiting(m)' => Waiting(m)
    <3>1. ASSUME NEW k \in 1 .. Len(Tail(out[i])), Tail(out[i])[k] = m
          PROVE  k + 1 \in 1 .. Len(out[i]) /\ out[i][k + 1] = m
      BY <2>1, <3>1
    <3>2. QED
      BY <1>1, <1>4, <3>1 DEF Emitting, OthersKeep, Waiting
  <2>5. QED
    BY <2>2, <2>3, <2>4 DEF Emitted
<1>5. ASSUME NEW i \in Instances, Saving(i) PROVE Emitted(m) \/ Decided(m)
  <2>1. Sent(m)' => Sent(m)
    BY <1>5 DEF Saving, Sent
  <2>2. Waiting(m)' => Waiting(m) \/ Decided(m)
    <3>1. ASSUME Waiting(m)', ~Waiting(m) PROVE \E k \in 1 .. Len(out'[i]) : out'[i][k] = m
      BY <1>5, <3>1 DEF Saving, OthersKeep, Waiting
    <3>2. QED
      BY <1>1, <1>5, <3>1 DEF Saving, Decided
  <2>3. QED
    BY <2>1, <2>2 DEF Emitted
<1>6. ASSUME NEW i \in Instances, Reporting(i) PROVE Emitted(m) \/ Decided(m)
  <2>1. Sent(m)' => Sent(m)
    BY <1>6 DEF Reporting, Sent
  <2>2. Waiting(m)' => Waiting(m) \/ Decided(m)
    <3>1. ASSUME Waiting(m)', ~Waiting(m) PROVE \E k \in 1 .. Len(out'[i]) : out'[i][k] = m
      BY <1>6, <3>1 DEF Reporting, OthersKeep, Waiting
    <3>2. ASSUME NEW k \in 1 .. Len(<<"OrderCancelled">>), <<"OrderCancelled">>[k] = m
          PROVE  m = "OrderCancelled"
      BY <3>2
    <3>3. QED
      BY <1>1, <1>6, <3>1, <3>2 DEF Reporting, Decided
  <2>3. QED
    BY <2>1, <2>2 DEF Emitted
<1>7. QED
  BY <1>2, <1>3, <1>4, <1>5, <1>6, StepKinds

-----------------------------------------------------------------------------
(* The compensation barrier *)

\* Nothing is emitted at first.
LEMMA CompensatedInit == Init => Compensated
<1> SUFFICES ASSUME Init PROVE Compensated
  OBVIOUS
<1>1. TopicOf["OrderCancelled"] = "orders" /\ "orders" \in Topics
  BY TopicTable DEF Topics
<1>2. ~Sent("OrderCancelled")
  BY <1>1 DEF Init, Sent
<1>3. ~Waiting("OrderCancelled")
  BY DEF Init, Waiting
<1>4. QED
  BY <1>2, <1>3 DEF Init, Compensated, RowHonest, Emitted

\* OrderCancelled is decided on only when the last compensation owed is reported.
LEMMA CompensatedNext == Typed /\ Compensated /\ [Next]_vars => Compensated'
<1> SUFFICES ASSUME Typed, Compensated, [Next]_vars PROVE Compensated'
  OBVIOUS
<1> DEFINE Reports == {"PaymentRefunded", "InventoryReleased", "InventoryReservationFailed"}
<1>1. \A m \in Reports : Sent(m) => Sent(m)'
  <2>1. \A m \in Reports : m \in EventTypes
    BY TopicTable
  <2>2. QED
    BY <2>1, TopicsGrow, SentStays
<1>2. ASSUME NEW i \in Instances, Saving(i) PROVE RowHonest'
  <2>1. Message(i) \in DOMAIN Reaction /\ Sent(Message(i))
    BY <1>2, MessageSent DEF Saving, Typed, AtWork
  <2>2. /\ Reaction[Message(i)].to = "COMPENSATING" =>
             /\ "PAYMENT_REFUND" \in Reaction[Message(i)].pending
             /\ \/ "INVENTORY_RELEASE" \in Reaction[Message(i)].pending
                \/ Message(i) = "InventoryReservationFailed"
    BY <2>1, ReactionFits
  <2>3. QED
    BY <1>1, <1>2, <2>1, <2>2 DEF Saving, SaveRow, RowHonest
<1>3. ASSUME NEW i \in Instances, Reporting(i)
      PROVE  /\ RowHonest'
             /\ state = "COMPENSATING" /\ state' = "CANCELLED" => Settled'
  <2>1. Message(i) \in DOMAIN Completes /\ Sent(Message(i))
    BY <1>3, MessageSent DEF Reporting, Typed, AtWork
  <2>2. \/ Message(i) = "PaymentRefunded" /\ Completes[Message(i)] = "PAYMENT_REFUND"
        \/ Message(i) = "InventoryReleased" /\ Completes[Message(i)] = "INVENTORY_RELEASE"
    BY <2>1 DEF Completes
  <2>3. \/ Sent("PaymentRefunded")' /\ Completes[Message(i)] = "PAYMENT_REFUND"
        \/ Sent("InventoryReleased")' /\ Completes[Message(i)] = "INVENTORY_RELEASE"
    BY <1>1, <2>1, <2>2
  <2>4. CASE state # "COMPENSATING"
    BY <1>1, <1>3, <2>4 DEF Reporting, BarrierRow, row, Compensated, RowHonest
  <2>5. CASE state = "COMPENSATING"
    <3>1. completed' = completed \cup {Completes[Message(i)]} /\ pending' = pending
      BY <1>3, <2>5 DEF Reporting, BarrierRow
    <3>2. /\ "PAYMENT_REFUND" \in completed' => Sent("PaymentRefunded")'
          /\ "INVENTORY_RELEASE" \in completed' => Sent("InventoryReleased")'
      BY <1>1, <2>3, <3>1 DEF Compensated, RowHonest
    <3>3. /\ "PAYMENT_REFUND" \in pending
          /\ "INVENTORY_RELEASE" \in pending \/ Sent("InventoryReservationFailed")'
      BY <1>1, <2>5 DEF Compensated, RowHonest
    <3>4. state' = "CANCELLED" => pending \subseteq completed'
      BY <1>3, <2>5, <3>1 DEF Reporting, BarrierRow, AllCompleted
    <3>5. QED
      BY <3>1, <3>2, <3>3, <3>4 DEF RowHonest, Settled
  <2>6. QED
    BY <2>4, <2>5
<1>4. RowHonest'
  <2>1. CASE UNCHANGED <<state, pending, completed>>
    BY <1>1, <2>1 DEF Compensated, RowHonest
  <2>2. QED
    BY <1>2, <1>3, <2>1, StepKinds DEF Quiet, FromOutside, Emitting
<1>5. Emitted("OrderCancelled")' => Settled'
  <2>1. "OrderCancelled" \in Emissions
    BY DEF Emissions, After
  <2>2. Emitted("OrderCancelled") => Settled'
    BY <1>1 DEF Compensated, Settled
  <2>3. Decided("OrderCancelled") => Settled'
    <3>1. ASSUME NEW i \in Instances, Saving(i),
                 NEW k \in 1 .. Len(Reaction[Message(i)].emits)
          PROVE  Reaction[Message(i)].emits[k] # "OrderCancelled"
      <4>1. Message(i) \in DOMAIN Reaction
        BY <3>1 DEF Saving, Typed, AtWork
      <4>2. QED
        BY <4>1, ReactionFits
    <3>2. QED
      BY <1>3, <3>1 DEF Decided
  <2>4. QED
    BY <2>1, <2>2, <2>3, EmittedBy
<1>6. QED
  BY <1>4, <1>5 DEF Compensated

-----------------------------------------------------------------------------
(* Counting messages *)

\* The places in topic u that hold a message of M.
Places(u, M) == {n \in 1 .. Len(log[u]) : log[u][n] \in M}

\* Types of one topic are counted in that topic.
LEMMA CountInTopic ==
    ASSUME Typed, NEW u \in Topics, NEW M \in SUBSET EventTypes, \A m \in M : TopicOf[m] = u
    PROVE  Count(M) = Cardinality({u} \X Places(u, M)) /\ IsFiniteSet({u} \X Places(u, M))
<1>1. \A t \in Topics : \A n \in 1 .. Len(log[t]) : log[t][n] \in M => t = u
  BY DEF Typed, LogsSorted
<1>2. UNION {{<<t, n>> : n \in {k \in 1 .. Len(log[t]) : log[t][k] \in M}} : t \in Topics}
        = {u} \X Places(u, M)
  BY <1>1 DEF Places
<1>3. IsFiniteSet({u} \X Places(u, M))
  <2>1. Len(log[u]) \in Nat
    BY DEF Typed, TypeOK
  <2>2. IsFiniteSet(1 .. Len(log[u]))
    BY <2>1, FS_Interval
  <2>3. IsFiniteSet(Places(u, M))
    BY <2>2, FS_Subset DEF Places
  <2>4. IsFiniteSet({u})
    BY FS_Singleton
  <2>5. QED
    BY <2>3, <2>4, FS_Product
<1>4. QED
  BY <1>2, <1>3 DEF Count

\* No two places: a count of at most one.
LEMMA CountAtMostOne ==
    ASSUME Typed, NEW u \in Topics, NEW M \in SUBSET EventTypes, \A m \in M : TopicOf[m] = u,
           \A n, k \in Places(u, M) : n = k
    PROVE  Count(M) <= 1
<1>1. CASE Places(u, M) = {}
  <2>1. {u} \X Places(u, M) = {}
    BY <1>1
  <2>2. Count(M) = 0
    BY <2>1, CountInTopic, FS_EmptySet
  <2>3. QED
    BY <2>2
<1>2. CASE Places(u, M) # {}
  <2>1. PICK n \in Places(u, M) : TRUE
    BY <1>2
  <2>2. {u} \X Places(u, M) = {<<u, n>>}
    BY <2>1
  <2>3. Count(M) = 1
    BY <2>2, CountInTopic, FS_Singleton
  <2>4. QED
    BY <2>3
<1>3. QED
  BY <1>1, <1>2

\* The barrier holds whenever the refund and the release are settled.
LEMMA BarrierHolds == Typed /\ Compensated => CancelledIsCompensated
<1> SUFFICES ASSUME Typed, Compensated, Sent("OrderCancelled")
             PROVE  /\ Sent("PaymentRefunded")
                    /\ Sent("InventoryReserved") /\ ~Sent("InventoryReservationFailed")
                         => Sent("InventoryReleased")
  BY DEF CancelledIsCompensated
<1>1. Settled
  BY DEF Compensated, Emitted
<1>2. QED
  BY <1>1 DEF Settled

-----------------------------------------------------------------------------
(* Short of a zombie, one instance works on a topic *)

\* Steals are not forgotten.
LEMMA StealsStay ==
    ASSUME Typed, [Next]_vars, steals' = 0
    PROVE  steals = 0 /\ ~\E i \in Instances, t \in SagaTopics : Steal(i, t)
<1> USE DEF kafka, group, row, mem
<1>1. steals \in Nat
  BY BoundsAssumption DEF Typed, TypeOK
<1>2. ASSUME NEW i \in Instances, NEW t \in SagaTopics, Steal(i, t) PROVE FALSE
  BY <1>1, <1>2 DEF Steal
<1>3. QED
  BY <1>2
     DEF Next, Handle, vars, PublishOrder, RepublishOrder, Serve, ServeUnmarked, ServeToDlq,
         TakeNext, ReadSaga, SaveSaga, Barrier, Emit, Mark, Error, GiveUp, Crash

\* A topic is taken from nobody and returned by its holder.
LEMMA HoldingStep ==
    ASSUME Typed, [Next]_vars, Holding, steals' = 0
    PROVE  Holding'
<1> USE DEF kafka, group, row, mem
<1>1. InstanceTypes /\ holder \in [SagaTopics -> Instances \cup {None}]
  BY TypeParts DEF Typed, GroupTypes
<1>2. \A j \in Instances : pc[j] # "idle" => topic[j] \in SagaTopics
  BY DEF Typed, AtWork
<1>3. ASSUME NEW i \in Instances, \A j \in Instances \ {i} : UNCHANGED <<pc[j], topic[j]>>,
             \A j \in Instances \ {i} : pc[j] # "idle" => holder'[topic[j]] = holder[topic[j]],
             pc'[i] # "idle" => holder'[topic'[i]] = i
      PROVE  Holding'
  BY <1>3 DEF Holding
<1>4. CASE UNCHANGED <<pc, topic, holder>>
  BY <1>4 DEF Holding
<1>5. ASSUME NEW i \in Instances, NEW t \in SagaTopics, TakeNext(i, t) PROVE Holding'
  <2>1. \A j \in Instances : pc[j] # "idle" => topic[j] # t
    BY <1>5, NoneAssumption DEF TakeNext, Holding
  <2>2. CASE UNCHANGED mem
    <3>1. holder' = [holder EXCEPT ![t] = None] \/ holder' = [holder EXCEPT ![t] = i]
      BY <1>5 DEF TakeNext, Take
    <3>2. \A u \in SagaTopics \ {t} : holder'[u] = holder[u]
      BY <1>1, <3>1
    <3>3. QED
      BY <1>2, <2>1, <2>2, <3>2 DEF Holding
  <2>3. CASE ~UNCHANGED mem
    <3>1. /\ holder' = [holder EXCEPT ![t] = i] /\ topic' = [topic EXCEPT ![i] = t]
          /\ pc' = [pc EXCEPT ![i] = "read"]
      BY <1>5, <2>3 DEF TakeNext, Take, Goto
    <3>2. /\ \A u \in SagaTopics \ {t} : holder'[u] = holder[u]
          /\ holder'[t] = i /\ topic'[i] = t
          /\ \A j \in Instances \ {i} : UNCHANGED <<pc[j], topic[j]>>
      BY <1>1, <3>1 DEF InstanceTypes
    <3>3. QED
      BY <1>2, <1>3, <2>1, <3>2
  <2>4. QED
    BY <2>2, <2>3
<1>6. ASSUME NEW i \in Instances, pc[i] # "idle", NEW p, pc' = [pc EXCEPT ![i] = p],
             UNCHANGED <<topic, holder>>
      PROVE  Holding'
  <2>1. \A j \in Instances \ {i} : UNCHANGED <<pc[j], topic[j]>>
    BY <1>1, <1>6 DEF InstanceTypes
  <2>2. QED
    BY <1>3, <1>6, <2>1 DEF Holding
<1>7. ASSUME NEW i \in Instances, ReadSaga(i) \/ SaveSaga(i) \/ Barrier(i) \/ Emit(i) \/ Error(i)
      PROVE  Holding'
  <2>1. pc[i] # "idle" /\ (\E p : pc' = [pc EXCEPT ![i] = p]) /\ UNCHANGED <<topic, holder>>
    BY <1>7 DEF ReadSaga, SaveSaga, Barrier, Emit, Error, Goto
  <2>2. QED
    BY <1>6, <2>1
<1>8. ASSUME NEW i \in Instances, Clear(i),
             \A u \in SagaTopics : holder'[u] = holder[u] \/ holder[u] = i
      PROVE  Holding'
  <2>1. pc'[i] = "idle" /\ \A j \in Instances \ {i} : UNCHANGED <<pc[j], topic[j]>>
    BY <1>1, <1>8 DEF InstanceTypes, Clear
  <2>2. QED
    BY <1>2, <1>3, <1>8, <2>1 DEF Holding
<1>9. ASSUME NEW i \in Instances, Mark(i) \/ GiveUp(i) PROVE Holding'
  <2>1. topic[i] \in SagaTopics /\ Return(i)
    BY <1>2, <1>9 DEF Mark, GiveUp
  <2>2. \A u \in SagaTopics : holder'[u] = holder[u] \/ holder[u] = i
    BY <1>1, <2>1 DEF Return
  <2>3. QED
    BY <1>8, <2>1, <2>2 DEF Return
<1>10. ASSUME NEW i \in Instances, Crash(i) PROVE Holding'
  BY <1>8, <1>10 DEF Crash
<1>11. QED
  BY <1>4, <1>5, <1>7, <1>9, <1>10, StealsStay
     DEF Next, Handle, vars, PublishOrder, RepublishOrder, Serve, ServeUnmarked, ServeToDlq

\* An instance about to save was so before, or has just read the row.
LEMMA Savers ==
    ASSUME Typed, [Next]_vars, NEW j \in Instances, pc'[j] = "save"
    PROVE  /\ Message(j)' = Message(j) /\ pc[j] # "idle"
           /\ \/ pc[j] = "save"
              \/ state = Reaction[Message(j)].from /\ UNCHANGED <<state, pending, completed>>
<1> USE DEF kafka, group, row, mem
<1>1. InstanceTypes /\ Grows
  BY TypeParts, TopicsGrow DEF Typed
<1>2. ASSUME pc[j] # "idle", UNCHANGED <<topic[j], idx[j]>> PROVE Message(j)' = Message(j)
  <2>1. topic[j] \in Topics /\ idx[j] \in 1 .. Len(log[topic[j]])
    BY <1>2 DEF Typed, AtWork, SagaTopics
  <2>2. QED
    BY <1>1, <1>2, <2>1 DEF Grows, Message
<1>3. CASE UNCHANGED mem
  BY <1>2, <1>3
<1>4. ASSUME NEW i \in Instances, NEW t \in SagaTopics, Take(i, t), ~UNCHANGED mem
      PROVE  pc[j] = "save" /\ UNCHANGED <<topic[j], idx[j]>>
  BY <1>1, <1>4 DEF Take, Goto, InstanceTypes
<1>5. ASSUME NEW i \in Instances, Clear(i) PROVE pc[j] = "save" /\ UNCHANGED <<topic[j], idx[j]>>
  BY <1>1, <1>5 DEF Clear, InstanceTypes
<1>6. ASSUME NEW i \in Instances, SaveSaga(i) \/ Barrier(i) \/ Emit(i) \/ Error(i)
      PROVE  pc[j] = "save" /\ UNCHANGED <<topic[j], idx[j]>>
  BY <1>1, <1>6 DEF SaveSaga, Barrier, Emit, Error, Goto, InstanceTypes
<1>7. ASSUME NEW i \in Instances, ReadSaga(i)
      PROVE  /\ UNCHANGED <<topic[j], idx[j]>> /\ pc[j] # "idle"
             /\ \/ pc[j] = "save"
                \/ state = Reaction[Message(j)].from /\ UNCHANGED <<state, pending, completed>>
  <2>1. UNCHANGED <<topic, idx>> /\ UNCHANGED <<state, pending, completed>> /\ pc[i] = "read"
    BY <1>7 DEF ReadSaga
  <2>2. CASE i = j
    <3>1. state = Reaction[Message(j)].from
      BY <1>1, <1>7, <2>2 DEF ReadSaga, Goto, InstanceTypes
    <3>2. QED
      BY <2>1, <2>2, <3>1
  <2>3. CASE i # j
    <3>1. pc'[j] = pc[j]
      BY <1>1, <1>7, <2>3 DEF ReadSaga, Goto, InstanceTypes
    <3>2. QED
      BY <2>1, <3>1
  <2>4. QED
    BY <2>2, <2>3
<1>8. QED
  BY <1>2, <1>3, <1>4, <1>5, <1>6, <1>7
     DEF Next, Handle, vars, PublishOrder, RepublishOrder, Serve, ServeUnmarked, ServeToDlq,
         TakeNext, Steal, Mark, Return, GiveUp, Crash

\* At most one instance is about to save.
LEMMA OneSaver ==
    ASSUME Typed, Holding, Current, NEW i \in Instances, NEW j \in Instances,
           pc[i] = "save", pc[j] = "save"
    PROVE  i = j
<1>1. Message(i) \in DOMAIN Reaction /\ Message(j) \in DOMAIN Reaction
  BY DEF Typed, AtWork
<1>2. TopicOf[Message(i)] = TopicOf[Message(j)]
  <2>1. Reaction[Message(i)].from = Reaction[Message(j)].from
    BY DEF Current
  <2>2. QED
    BY <1>1, <2>1, StateHasTopic
<1>3. topic[i] = topic[j]
  BY <1>2, MessageSent
<1>4. QED
  BY <1>3 DEF Holding

\* Nobody is at work at first.
LEMMA ExclusiveInit == Init => Exclusive
BY DEF Init, Exclusive, Holding, Current, Owing

\* What is saved was decided on the row as it still is.
LEMMA ExclusiveNext == Typed /\ Exclusive /\ [Next]_vars => Exclusive'
<1> SUFFICES ASSUME Typed, Exclusive, [Next]_vars, steals' = 0
             PROVE  Holding' /\ Current' /\ Owing'
  BY DEF Exclusive
<1>1. Holding /\ Current /\ Owing
  BY StealsStay DEF Exclusive
<1>2. Holding'
  BY <1>1, HoldingStep
<1>3. \A i \in Instances : pc[i] = "save" => Message(i) \in DOMAIN Reaction
  BY DEF Typed, AtWork
<1>4. Current'
  <2>1. SUFFICES ASSUME NEW j \in Instances, pc'[j] = "save"
                 PROVE  state' = Reaction[Message(j)'].from
    BY DEF Current
  <2>2. Message(j)' = Message(j)
    BY <2>1, Savers
  <2>3. CASE UNCHANGED <<state, pending, completed>>
    BY <1>1, <2>1, <2>2, <2>3, Savers DEF Current
  <2>4. ASSUME NEW i \in Instances, Saving(i) PROVE FALSE
    <3>1. CASE pc[j] = "save"
      BY <1>1, <2>1, <2>4, <3>1, OneSaver DEF Saving
    <3>2. CASE pc[j] # "save"
      <4>1. state = Reaction[Message(i)].from /\ state' = Reaction[Message(i)].to
        BY <1>1, <2>4 DEF Saving, SaveRow, Current
      <4>2. state' = state
        BY <2>1, <3>2, Savers
      <4>3. Reaction[Message(i)].from # Reaction[Message(i)].to
        BY <1>3, <2>4, ReactionMoves DEF Saving
      <4>4. QED
        BY <4>1, <4>2, <4>3
    <3>3. QED
      BY <3>1, <3>2
  <2>5. ASSUME NEW i \in Instances, Reporting(i) PROVE UNCHANGED <<state, pending, completed>>
    <3>1. CASE pc[j] = "save"
      <4>1. state # "COMPENSATING"
        BY <1>1, <1>3, <3>1, ReactionFits DEF Current
      <4>2. QED
        BY <2>5, <4>1 DEF Reporting, BarrierRow, row
    <3>2. CASE pc[j] # "save"
      BY <2>1, <3>2, Savers
    <3>3. QED
      BY <3>1, <3>2
  <2>6. QED
    BY <2>3, <2>4, <2>5, StepKinds DEF Quiet, FromOutside, Emitting
<1>5. Owing'
  <2>1. CASE UNCHANGED <<state, pending, completed>>
    BY <1>1, <2>1 DEF Owing
  <2>2. ASSUME NEW i \in Instances, Saving(i) PROVE Owing'
    BY <1>3, <2>2, ReactionFits DEF Saving, SaveRow, Owing
  <2>3. ASSUME NEW i \in Instances, Reporting(i) PROVE Owing'
    BY <1>1, <2>3 DEF Reporting, BarrierRow, row, Owing
  <2>4. QED
    BY <2>1, <2>2, <2>3, StepKinds DEF Quiet, FromOutside, Emitting
<1>6. QED
  BY <1>2, <1>4, <1>5

-----------------------------------------------------------------------------
(* Short of a zombie, what is emitted is emitted once *)

\* A state that follows an emission is only left for another such state.
LEMMA AfterStep ==
    ASSUME Typed, [Next]_vars, Current, NEW m \in Emissions, state \in After[m]
    PROVE  state' \in After[m]
<1>1. CASE UNCHANGED <<state, pending, completed>>
  BY <1>1
<1>2. ASSUME NEW i \in Instances, Saving(i) PROVE state' \in After[m]
  <2>1. /\ Message(i) \in DOMAIN Reaction /\ state = Reaction[Message(i)].from
        /\ state' = Reaction[Message(i)].to
    BY <1>2 DEF Saving, SaveRow, Current, Typed, AtWork
  <2>2. QED
    BY <2>1, ReactionFits
<1>3. ASSUME NEW i \in Instances, Reporting(i) PROVE state' \in After[m]
  <2>1. state' = state \/ (state = "COMPENSATING" /\ state' = "CANCELLED")
    BY <1>3 DEF Reporting, BarrierRow, row
  <2>2. "COMPENSATING" \in After[m] => "CANCELLED" \in After[m]
    BY DEF Emissions, After, States
  <2>3. QED
    BY <2>1, <2>2
<1>4. QED
  BY <1>1, <1>2, <1>3, StepKinds DEF Quiet, FromOutside, Emitting

\* What a step decides to emit, the state it leaves did not follow.
LEMMA DecidedAfresh ==
    ASSUME Typed, Current, NEW m \in Emissions, Decided(m)
    PROVE  state \notin After[m] /\ state' \in After[m]
<1>1. ASSUME NEW i \in Instances, Saving(i),
             NEW k \in 1 .. Len(Reaction[Message(i)].emits), Reaction[Message(i)].emits[k] = m
      PROVE  state \notin After[m] /\ state' \in After[m]
  <2>1. /\ Message(i) \in DOMAIN Reaction /\ state = Reaction[Message(i)].from
        /\ state' = Reaction[Message(i)].to
    BY <1>1 DEF Saving, SaveRow, Current, Typed, AtWork
  <2>2. QED
    BY <1>1, <2>1, ReactionFits
<1>2. "COMPENSATING" \notin After["OrderCancelled"] /\ "CANCELLED" \in After["OrderCancelled"]
  BY DEF After
<1>3. QED
  BY <1>1, <1>2 DEF Decided

\* A message is in its topic once if it was not there before it was sent.
LEMMA LogStaysOnce ==
    ASSUME Typed, NEW m \in EventTypes, OnceInLog(m), NEW x \in EventTypes, Send(x),
           x = m => ~Sent(m)
    PROVE  OnceInLog(m)'
<1>1. PICK t \in Topics : t = TopicOf[m]
  BY TopicsOfTypes
<1>2. Len(log[t]) \in Nat
  BY DEF Typed, TypeOK
<1>3. CASE t # TopicOf[x]
  <2>1. log'[t] = log[t]
    BY <1>3, SendAppends DEF Typed
  <2>2. QED
    BY <1>1, <2>1 DEF OnceInLog
<1>4. CASE t = TopicOf[x]
  <2>1. /\ Len(log'[t]) = Len(log[t]) + 1 /\ log'[t][Len(log[t]) + 1] = x
        /\ \A n \in 1 .. Len(log[t]) : log'[t][n] = log[t][n]
    BY <1>4, SendAppends DEF Typed
  <2>2. \A n \in 1 .. Len(log'[t]) : n \in 1 .. Len(log[t]) \/ n = Len(log[t]) + 1
    BY <1>2, <2>1
  <2>3. CASE x = m
    <3>1. \A n \in 1 .. Len(log[t]) : log[t][n] # m
      BY <1>1, <2>3 DEF Sent
    <3>2. \A n \in 1 .. Len(log'[t]) : log'[t][n] = m => n = Len(log[t]) + 1
      BY <2>1, <2>2, <3>1
    <3>3. QED
      BY <1>1, <3>2 DEF OnceInLog
  <2>4. CASE x # m
    <3>1. \A n \in 1 .. Len(log'[t]) : log'[t][n] = m => n \in 1 .. Len(log[t]) /\ log[t][n] = m
      BY <2>1, <2>2, <2>4
    <3>2. QED
      BY <1>1, <3>1 DEF OnceInLog
  <2>5. QED
    BY <2>3, <2>4
<1>5. QED
  BY <1>3, <1>4

\* Emitting an event leaves it in its topic and nowhere else.
LEMMA EmittingOnce ==
    ASSUME Typed, NEW m \in Emissions, OnePlace(m), NEW i \in Instances, Emitting(i)
    PROVE  OnceInLog(m)' /\ OnceWaiting(m)' /\ (Waiting(m)' => ~Sent(m)')
<1>0. m \in EventTypes
  BY EmissionTable
<1>1. PICK x \in EventTypes : x = out[i][1] /\ Send(x)
  BY HeadToEmit DEF Emitting
<1>2. Len(out[i]) \in Nat \ {0}
  BY HeadToEmit DEF Emitting
<1>3. ASSUME NEW k \in 1 .. Len(out'[i])
      PROVE  k \in Nat /\ k + 1 \in 1 .. Len(out[i]) /\ out'[i][k] = out[i][k + 1] /\ k + 1 # 1
  <2>1. /\ Len(Tail(out[i])) = Len(out[i]) - 1
        /\ \A n \in 1 .. Len(out[i]) - 1 : Tail(out[i])[n] = out[i][n + 1]
    BY HeadToEmit DEF Emitting
  <2>2. out'[i] = Tail(out[i])
    <3>1. ASSUME out'[i] = <<>> PROVE FALSE
      BY <1>3, <3>1
    <3>2. QED
      BY <3>1 DEF Emitting
  <2>3. QED
    BY <1>2, <1>3, <2>1, <2>2
<1>4. \A j \in Instances \ {i} : out'[j] = out[j]
  BY DEF Emitting, OthersKeep
<1>5. x = m => ~Sent(m)
  <2>1. 1 \in 1 .. Len(out[i])
    BY <1>2
  <2>2. QED
    BY <1>1, <2>1 DEF OnePlace, Waiting
<1>6. OnceInLog(m)'
  BY <1>0, <1>1, <1>5, LogStaysOnce DEF OnePlace
<1>7. OnceWaiting(m)'
  <2>1. SUFFICES ASSUME NEW j \in Instances, NEW l \in Instances,
                        NEW n \in 1 .. Len(out'[j]), NEW k \in 1 .. Len(out'[l]),
                        out'[j][n] = m, out'[l][k] = m
                 PROVE  j = l /\ n = k
    BY DEF OnceWaiting
  <2>2. PICK a \in 1 .. Len(out[j]) :
          out[j][a] = m /\ (j = i => n \in Nat /\ a = n + 1) /\ (j # i => a = n)
    <3>1. CASE j = i
      BY <1>3, <2>1, <3>1
    <3>2. CASE j # i
      BY <1>4, <2>1, <3>2
    <3>3. QED
      BY <3>1, <3>2
  <2>3. PICK b \in 1 .. Len(out[l]) :
          out[l][b] = m /\ (l = i => k \in Nat /\ b = k + 1) /\ (l # i => b = k)
    <3>1. CASE l = i
      BY <1>3, <2>1, <3>1
    <3>2. CASE l # i
      BY <1>4, <2>1, <3>2
    <3>3. QED
      BY <3>1, <3>2
  <2>4. j = l /\ a = b
    BY <2>2, <2>3 DEF OnePlace, OnceWaiting
  <2>5. QED
    BY <2>2, <2>3, <2>4
<1>8. Waiting(m)' => Waiting(m) /\ x # m
  <2>1. SUFFICES ASSUME NEW j \in Instances, NEW k \in 1 .. Len(out'[j]), out'[j][k] = m
                 PROVE  Waiting(m) /\ x # m
    BY DEF Waiting
  <2>2. 1 \in 1 .. Len(out[i])
    BY <1>2
  <2>3. CASE j = i
    BY <1>1, <1>3, <2>1, <2>2, <2>3 DEF Waiting, OnePlace, OnceWaiting
  <2>4. CASE j # i
    BY <1>1, <1>4, <2>1, <2>2, <2>4 DEF Waiting, OnePlace, OnceWaiting
  <2>5. QED
    BY <2>3, <2>4
<1>9. Waiting(m)' => ~Sent(m)'
  BY <1>0, <1>1, <1>8, SentBy DEF OnePlace
<1>10. QED
  BY <1>6, <1>7, <1>9

\* New events to emit are not waiting twice.
LEMMA DecidingOnce ==
    ASSUME Typed, Current, NEW m \in Emissions, OnePlace(m), NEW i \in Instances,
           Saving(i) \/ Reporting(i)
    PROVE  OnceWaiting(m)' /\ (Waiting(m)' => ~Sent(m)')
<1>1. OthersKeep(i) /\ UNCHANGED log
  BY DEF Saving, Reporting
<1>2. \A n, k \in 1 .. Len(out'[i]) : out'[i][n] = out'[i][k] => n = k
  <2>1. CASE out'[i] = <<>> \/ out'[i] = <<"OrderCancelled">>
    BY <2>1
  <2>2. CASE Saving(i) /\ out'[i] = Reaction[Message(i)].emits
    <3>1. Message(i) \in DOMAIN Reaction
      BY <2>2 DEF Saving, Typed, AtWork
    <3>2. QED
      BY <2>2, <3>1, ReactionFits
  <2>3. QED
    BY <2>1, <2>2 DEF Saving, Reporting
<1>3. ASSUME NEW k \in 1 .. Len(out'[i]), out'[i][k] = m PROVE ~Emitted(m)
  <2>1. out'[i] # <<>>
    BY <1>3
  <2>2. CASE Saving(i)
    <3>1. Decided(m)
      BY <1>3, <2>1, <2>2 DEF Saving, Decided
    <3>2. QED
      BY <3>1, DecidedAfresh DEF OnePlace
  <2>3. CASE Reporting(i)
    <3>1. /\ out'[i] = <<"OrderCancelled">> /\ state = "COMPENSATING" /\ state' = "CANCELLED"
      BY <2>1, <2>3 DEF Reporting
    <3>2. m = "OrderCancelled"
      BY <1>3, <3>1
    <3>3. Decided(m)
      BY <2>3, <3>1, <3>2 DEF Decided
    <3>4. QED
      BY <3>3, DecidedAfresh DEF OnePlace
  <2>4. QED
    BY <2>2, <2>3
<1>4. CASE \E k \in 1 .. Len(out'[i]) : out'[i][k] = m
  <2>1. ~Waiting(m) /\ ~Sent(m)
    BY <1>3, <1>4 DEF Emitted
  <2>2. ASSUME NEW j \in Instances, NEW n \in 1 .. Len(out'[j]), out'[j][n] = m PROVE j = i
    BY <1>1, <2>1, <2>2 DEF Waiting, OthersKeep
  <2>3. OnceWaiting(m)'
    BY <1>2, <2>2 DEF OnceWaiting
  <2>4. ~Sent(m)'
    BY <1>1, <2>1 DEF Sent
  <2>5. QED
    BY <2>3, <2>4
<1>5. CASE \A k \in 1 .. Len(out'[i]) : out'[i][k] # m
  <2>1. OnceWaiting(m)'
    BY <1>1, <1>5 DEF OnceWaiting, OnePlace, OthersKeep
  <2>2. Waiting(m)' => Waiting(m)
    BY <1>1, <1>5 DEF Waiting, OthersKeep
  <2>3. Sent(m)' => Sent(m)
    BY <1>1 DEF Sent
  <2>4. QED
    BY <2>1, <2>2, <2>3 DEF OnePlace
<1>6. QED
  BY <1>4, <1>5

\* Nothing is emitted at first, so nothing twice.
LEMMA EmittedOnceInit == Init => EmittedOnce
<1> SUFFICES ASSUME Init, NEW m \in Emissions PROVE OnePlace(m)
  BY DEF EmittedOnce
<1>1. TopicOf[m] \in Topics
  BY EmissionTable, TopicsOfTypes
<1>2. \A t \in Topics : Len(log[t]) = 0
  BY DEF Init
<1>3. \A i \in Instances : Len(out[i]) = 0
  BY DEF Init
<1>4. OnceInLog(m) /\ ~Sent(m)
  BY <1>1, <1>2 DEF OnceInLog, Sent
<1>5. OnceWaiting(m) /\ ~Waiting(m)
  BY <1>3 DEF OnceWaiting, Waiting
<1>6. QED
  BY <1>4, <1>5 DEF OnePlace, Emitted

\* A step emits what the state did not yet follow, and moves what it sends.
LEMMA EmittedOnceNext == Typed /\ Exclusive /\ EmittedOnce /\ [Next]_vars => EmittedOnce'
<1> SUFFICES ASSUME Typed, Exclusive, EmittedOnce, [Next]_vars, steals' = 0, NEW m \in Emissions
             PROVE  OnePlace(m)'
  BY DEF EmittedOnce
<1>1. Current /\ OnePlace(m) /\ m \in EventTypes
  BY StealsStay, EmissionTable DEF Exclusive, EmittedOnce
<1>2. Emitted(m)' => state' \in After[m]
  BY <1>1, EmittedBy, AfterStep, DecidedAfresh DEF OnePlace
<1>3. CASE Quiet
  <2>1. \A j \in Instances : \A k \in 1 .. Len(out'[j]) : k \in 1 .. Len(out[j]) /\ out'[j][k] = out[j][k]
    BY <1>3 DEF Quiet
  <2>2. OnceWaiting(m)' /\ (Waiting(m)' => Waiting(m))
    BY <1>1, <2>1 DEF OnePlace, OnceWaiting, Waiting
  <2>3. OnceInLog(m)' /\ (Sent(m)' => Sent(m))
    BY <1>1, <1>3 DEF Quiet, OnePlace, OnceInLog, Sent
  <2>4. QED
    BY <1>1, <1>2, <2>2, <2>3 DEF OnePlace
<1>4. CASE FromOutside
  <2>1. PICK x \in EventTypes : x # m /\ Send(x) /\ UNCHANGED out
    BY <1>4 DEF FromOutside
  <2>2. OnceInLog(m)' /\ (Sent(m)' => Sent(m))
    BY <1>1, <2>1, LogStaysOnce, SentBy DEF OnePlace
  <2>3. OnceWaiting(m)' /\ (Waiting(m)' => Waiting(m))
    BY <1>1, <2>1 DEF OnePlace, OnceWaiting, Waiting
  <2>4. QED
    BY <1>1, <1>2, <2>2, <2>3 DEF OnePlace
<1>5. ASSUME NEW i \in Instances, Emitting(i) PROVE OnePlace(m)'
  BY <1>1, <1>2, <1>5, EmittingOnce DEF OnePlace
<1>6. ASSUME NEW i \in Instances, Saving(i) \/ Reporting(i) PROVE OnePlace(m)'
  <2>1. OnceInLog(m)'
    BY <1>1, <1>6 DEF Saving, Reporting, OnePlace, OnceInLog
  <2>2. QED
    BY <1>1, <1>2, <1>6, <2>1, DecidingOnce DEF OnePlace
<1>7. QED
  BY <1>3, <1>4, <1>5, <1>6, StepKinds

-----------------------------------------------------------------------------
(* The theorems *)

\* Inv holds in every reachable state.
THEOREM Invariance == Spec => []Inv
<1>1. Init => Inv
  BY TypedInit, CompensatedInit, ExclusiveInit, EmittedOnceInit DEF Inv
<1>2. Inv /\ [Next]_vars => Inv'
  BY TypedNext, CompensatedNext, ExclusiveNext, EmittedOnceNext DEF Inv
<1>3. QED
  BY <1>1, <1>2, PTL DEF Spec

\* Topics, offsets, the saga row and what the instances remember of the message
\* they handle always hold values of their kinds.
THEOREM TypeCorrect == Spec => []TypeOK
<1>1. Inv => TypeOK
  BY DEF Inv, Typed
<1>2. QED
  BY <1>1, Invariance, PTL

\* The barrier: OrderCancelled is never emitted before the refund and, where stock
\* was reserved, its release are reported, in whatever order, however often, and
\* with any number of zombies, crashes and retries.
THEOREM BarrierSafe == Spec => []CancelledIsCompensated
<1>1. Inv => CancelledIsCompensated
  BY BarrierHolds DEF Inv
<1>2. QED
  BY <1>1, Invariance, PTL

\* While no zombie came up, orders.events announces at most one outcome, once.
THEOREM OneOutcome == Spec => []AtMostOneOutcome
<1>1. Inv => AtMostOneOutcome
  <2>1. SUFFICES ASSUME Inv, steals = 0 PROVE Count(Outcomes) <= 1
    BY DEF AtMostOneOutcome
  <2>2. /\ Outcomes \in SUBSET EventTypes /\ \A m \in Outcomes : TopicOf[m] = "orders"
        /\ "orders" \in Topics
    BY EmissionTable DEF Topics
  <2>3. ASSUME NEW n \in Places("orders", Outcomes), NEW k \in Places("orders", Outcomes)
        PROVE  n = k
    <3>1. PICK a \in Outcomes, b \in Outcomes :
            /\ n \in 1 .. Len(log["orders"]) /\ log["orders"][n] = a
            /\ k \in 1 .. Len(log["orders"]) /\ log["orders"][k] = b
      BY <2>3 DEF Places
    <3>2. OnePlace(a) /\ OnePlace(b)
      BY <2>1, EmissionTable DEF Inv, EmittedOnce
    <3>3. Sent(a) /\ Sent(b)
      BY <2>2, <3>1 DEF Sent
    <3>4. state = OutcomeOf[a] /\ state = OutcomeOf[b]
      BY <3>2, <3>3, EmissionTable DEF OnePlace, Emitted
    <3>5. a = b
      BY <3>4, EmissionTable
    <3>6. QED
      BY <2>2, <3>1, <3>2, <3>5 DEF OnePlace, OnceInLog
  <2>4. QED
    BY <2>1, <2>2, <2>3, CountAtMostOne DEF Inv
<1>2. QED
  BY <1>1, Invariance, PTL

\* While no zombie came up, no crash, retry or redelivery makes the orchestrator
\* request a payment, a reservation, a shipment or a refund twice.
THEOREM CommandsOnce == Spec => []CommandsAtMostOnce
<1>1. Inv => CommandsAtMostOnce
  <2>1. SUFFICES ASSUME Inv, steals = 0,
                        NEW m \in {"PaymentRequested", "InventoryReservationRequested",
                                   "ShipmentRequested", "PaymentRefundRequested"}
                 PROVE  Count({m}) <= 1
    BY DEF CommandsAtMostOnce
  <2>2. m \in Emissions
    BY <2>1 DEF Emissions, After
  <2>3. {m} \in SUBSET EventTypes /\ TopicOf[m] \in Topics /\ OnePlace(m)
    BY <2>1, <2>2, EmissionTable, TopicsOfTypes DEF Inv, EmittedOnce
  <2>4. \A n, k \in Places(TopicOf[m], {m}) : n = k
    BY <2>3 DEF OnePlace, OnceInLog, Places
  <2>5. QED
    BY <2>1, <2>3, <2>4, CountAtMostOne DEF Inv
<1>2. QED
  BY <1>1, Invariance, PTL

-----------------------------------------------------------------------------
(* The order's life cycle *)

\* A message that announces no outcome leaves the announcements alone.
LEMMA AnnouncedStays ==
    ASSUME Typed, NEW x \in EventTypes \ Outcomes, Send(x)
    PROVE  Announced' = Announced
<1>1. "orders" \in Topics
  BY DEF Topics
<1>2. Len(log["orders"]) \in Nat
  BY <1>1 DEF Typed, TypeOK
<1>3. CASE TopicOf[x] # "orders"
  <2>1. log'["orders"] = log["orders"]
    BY <1>1, <1>3, SendAppends DEF Typed
  <2>2. QED
    BY <2>1 DEF Announced
<1>4. CASE TopicOf[x] = "orders"
  <2>1. /\ Len(log'["orders"]) = Len(log["orders"]) + 1
        /\ log'["orders"][Len(log["orders"]) + 1] = x
        /\ \A n \in 1 .. Len(log["orders"]) : log'["orders"][n] = log["orders"][n]
    BY <1>4, SendAppends DEF Typed
  <2>2. \A n \in 1 .. Len(log'["orders"]) :
          n \in 1 .. Len(log["orders"]) \/ n = Len(log["orders"]) + 1
    BY <1>2, <2>1
  <2>3. \A n \in 1 .. Len(log["orders"]) : n \in 1 .. Len(log'["orders"])
    BY <1>2, <2>1
  <2>4. \A n : /\ n \in 1 .. Len(log'["orders"])
               /\ log'["orders"][n] \in Outcomes
             <=> /\ n \in 1 .. Len(log["orders"])
                 /\ log["orders"][n] \in Outcomes
    BY <2>1, <2>2, <2>3
  <2>5. {n \in 1 .. Len(log'["orders"]) : log'["orders"][n] \in Outcomes}
          = {n \in 1 .. Len(log["orders"]) : log["orders"][n] \in Outcomes}
    BY <2>4
  <2>6. QED
    BY <2>1, <2>5 DEF Announced
<1>5. QED
  BY <1>3, <1>4

\* An outcome is announced once the order has it, as the first announcement.
LEMMA Announcing ==
    ASSUME Inv, steals = 0, NEW x \in Outcomes, Waiting(x), Send(x),
           UNCHANGED <<state, pending, completed>>
    PROVE  Lifecycle!Announce
<1>1. x \in EventTypes /\ x \in Emissions /\ TopicOf[x] = "orders" /\ "orders" \in Topics
  BY EmissionTable DEF Topics
<1>2. ~Sent(x) /\ state = OutcomeOf[x]
  BY <1>1, EmissionTable DEF Inv, EmittedOnce, OnePlace, Emitted
<1>3. \A n \in 1 .. Len(log["orders"]) : log["orders"][n] \notin Outcomes
  <2>1. SUFFICES ASSUME NEW n \in 1 .. Len(log["orders"]), NEW y \in Outcomes, log["orders"][n] = y
                 PROVE  FALSE
    OBVIOUS
  <2>2. Sent(y)
    BY <2>1, EmissionTable DEF Sent
  <2>3. state = OutcomeOf[y]
    BY <2>2, EmissionTable DEF Inv, EmittedOnce, OnePlace, Emitted
  <2>4. y = x
    BY <1>2, <2>3, EmissionTable
  <2>5. QED
    BY <1>2, <2>2, <2>4
<1>4. Announced = {}
  BY <1>3 DEF Announced
<1>5. /\ Len(log["orders"]) \in Nat
      /\ Len(log'["orders"]) = Len(log["orders"]) + 1
      /\ log'["orders"][Len(log["orders"]) + 1] = x
      /\ \A n \in 1 .. Len(log["orders"]) : log'["orders"][n] = log["orders"][n]
  <2>1. Len(log["orders"]) \in Nat
    BY <1>1 DEF Inv, Typed, TypeOK
  <2>2. QED
    BY <1>1, <2>1, SendAppends DEF Inv, Typed
<1>6. {n \in 1 .. Len(log'["orders"]) : log'["orders"][n] \in Outcomes} = {Len(log["orders"]) + 1}
  BY <1>3, <1>5
<1>7. Announced' = {<<Len(log["orders"]) + 1, OutcomeOf[x]>>}
  BY <1>5, <1>6 DEF Announced
<1>8. Phase = OutcomeOf[x] /\ Phase' = Phase /\ Phase \in {"COMPLETED", "FAILED", "CANCELLED"}
  BY <1>2 DEF Phase, Outcomes, OutcomeOf, Terminal
<1>9. QED
  BY <1>4, <1>7, <1>8 DEF Lifecycle!Announce, Lifecycle!Outcomes

\* Short of a zombie, orchestrator and compensation barrier implement the order's
\* life cycle: a case of processEvent accepts, decides or undoes an open order, the
\* barrier reports a compensation, and emitting an outcome announces it.
THEOREM Refinement == Spec => ImplementsLifecycle
<1>1. Init => Lifecycle!Init
  <2>1. ASSUME Init PROVE Announced = {}
    <3>1. Len(log["orders"]) = 0
      BY <2>1 DEF Init, Topics
    <3>2. QED
      BY <3>1 DEF Announced
  <2>2. QED
    BY <2>1 DEF Init, Lifecycle!Init, Phase
<1>2. ASSUME Inv, Inv', [Next]_vars PROVE [Lifecycle!Next \/ steals' > 0]_(Lifecycle!vars)
  <2>1. CASE steals' # 0
    <3>1. steals' \in Nat
      BY <1>2, BoundsAssumption DEF Inv, Typed, TypeOK
    <3>2. steals' > 0
      BY <2>1, <3>1
    <3>3. QED
      BY <3>2
  <2>2. CASE steals' = 0
    <3>1. steals = 0 /\ Current /\ Owing /\ Typed
      BY <1>2, <2>2, StealsStay DEF Inv, Exclusive
    <3>2. CASE Quiet
      BY <3>2 DEF Quiet, Lifecycle!vars, Phase, Announced
    <3>3. CASE FromOutside
      <4>1. Announced' = Announced
        BY <3>1, <3>3, AnnouncedStays, EmissionTable DEF FromOutside
      <4>2. QED
        BY <3>3, <4>1 DEF FromOutside, Lifecycle!vars, Phase
    <3>4. ASSUME NEW i \in Instances, Emitting(i) PROVE Lifecycle!Announce \/ UNCHANGED Lifecycle!vars
      <4>1. PICK x \in EventTypes : Send(x) /\ Waiting(x) /\ UNCHANGED <<state, pending, completed>>
        <5>1. /\ Head(out[i]) \in EventTypes /\ Head(out[i]) = out[i][1]
              /\ Len(out[i]) \in Nat \ {0}
          BY <3>1, <3>4, HeadToEmit DEF Emitting
        <5>2. 1 \in 1 .. Len(out[i])
          BY <5>1
        <5>3. Waiting(Head(out[i]))
          BY <5>1, <5>2 DEF Waiting
        <5>4. QED
          BY <3>4, <5>1, <5>3 DEF Emitting
      <4>2. CASE x \in Outcomes
        BY <1>2, <3>1, <4>1, <4>2, Announcing
      <4>3. CASE x \notin Outcomes
        <5>1. Announced' = Announced
          BY <3>1, <4>1, <4>3, AnnouncedStays
        <5>2. QED
          BY <4>1, <5>1 DEF Lifecycle!vars, Phase
      <4>4. QED
        BY <4>2, <4>3
    <3>5. ASSUME NEW i \in Instances, Saving(i)
          PROVE  Lifecycle!Accept \/ Lifecycle!Decide \/ Lifecycle!Undo \/ UNCHANGED Lifecycle!vars
      <4>1. PICK c : c = Reaction[Message(i)]
        OBVIOUS
      <4>2. /\ Message(i) \in DOMAIN Reaction
            /\ state = c.from /\ state' = c.to /\ pending' = c.pending /\ completed' = {}
            /\ Announced' = Announced
        BY <3>1, <3>5, <4>1 DEF Saving, SaveRow, Current, Typed, AtWork, Announced
      <4>3. /\ c.pending \subseteq Compensations
            /\ c.to # "COMPENSATING" => c.pending = {}
            /\ c.to = "COMPENSATING" => "PAYMENT_REFUND" \in c.pending
            /\ c.from \notin {"COMPENSATING", "CANCELLED"}
        BY <4>1, <4>2, ReactionTable, ReactionFits
      <4>4. \/ c.from = "NONE" /\ c.to \in Open
            \/ c.from \in Open /\ c.to \in Open \cup {"COMPLETED", "FAILED", "COMPENSATING"}
        BY <4>1, <4>2, ReactionMoves
      <4>5. pending = {} /\ completed = {}
        BY <3>1, <4>2, <4>3 DEF Owing
      <4>6. CASE c.to = "COMPENSATING"
        <5>1. Phase = "OPEN" /\ Phase' = "COMPENSATING"
          BY <4>2, <4>4, <4>6 DEF Phase, Open, Terminal
        <5>2. QED
          BY <4>2, <4>3, <4>5, <4>6, <5>1 DEF Lifecycle!Undo
      <4>7. CASE c.to # "COMPENSATING"
        <5>1. pending' = pending /\ completed' = completed
          BY <4>2, <4>3, <4>5, <4>7
        <5>2. \/ Phase = "NONE" /\ Phase' = "OPEN"
              \/ Phase = "OPEN" /\ Phase' \in {"OPEN", "COMPLETED", "FAILED"}
          BY <4>2, <4>4, <4>7 DEF Phase, Open, Terminal
        <5>3. QED
          BY <4>2, <5>1, <5>2 DEF Lifecycle!Accept, Lifecycle!Decide, Lifecycle!vars
      <4>8. QED
        BY <4>6, <4>7
    <3>6. ASSUME NEW i \in Instances, Reporting(i)
          PROVE  (\E c \in Compensations : Lifecycle!Report(c)) \/ UNCHANGED Lifecycle!vars
      <4>1. Announced' = Announced
        BY <3>6 DEF Reporting, Announced
      <4>2. CASE state # "COMPENSATING"
        BY <3>6, <4>1, <4>2 DEF Reporting, BarrierRow, row, Lifecycle!vars, Phase
      <4>3. CASE state = "COMPENSATING"
        <5>1. PICK c \in Compensations : c = Completes[Message(i)]
          BY <3>1, <3>6 DEF Reporting, Typed, AtWork, Completes, Compensations
        <5>2. /\ completed' = completed \cup {c} /\ pending' = pending
              /\ state' = IF pending \subseteq completed' THEN "CANCELLED" ELSE "COMPENSATING"
          BY <3>6, <4>3, <5>1 DEF Reporting, BarrierRow, AllCompleted
        <5>3. Phase = "COMPENSATING" /\ Phase' = state'
          BY <4>3, <5>2 DEF Phase, Terminal
        <5>4. Lifecycle!Report(c)
          BY <4>1, <5>2, <5>3 DEF Lifecycle!Report
        <5>5. QED
          BY <5>4
      <4>4. QED
        BY <4>2, <4>3
    <3>7. QED
      BY <1>2, <3>1, <3>2, <3>3, <3>4, <3>5, <3>6, StepKinds DEF Lifecycle!Next
  <2>3. QED
    BY <2>1, <2>2
<1>3. QED
  BY <1>1, <1>2, Invariance, PTL DEF Spec, ImplementsLifecycle

=============================================================================

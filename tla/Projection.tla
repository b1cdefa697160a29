----------------------------- MODULE Projection -----------------------------
(***************************************************************************)
(* The query side for one order: ProjectionConsumer appends every event to *)
(* the event store and projects it onto the read models, while POST        *)
(* /replay (EventReplayService.replayAggregate) deletes those of the order *)
(* and rebuilds them from the store.                                       *)
(*                                                                         *)
(* The saga's messages lie in their topics from the start: a consumer that *)
(* lags behind sees the same orders as one they are published to one by    *)
(* one.  An event is named by its type: answers a domain consumer repeats  *)
(* under a fresh event_id are left to Saga.  The same event, by its id,    *)
(* lies in its topic once at first, and again when the relay repeats       *)
(* OrderCreated or replayDLQ sends it anew.                                *)
(***************************************************************************)
EXTENDS Integers, Sequences, SequencesExt, Contracts

CONSTANTS
    Scenarios,     \* what a behaviour starts from, and its bounds
    Instances,     \* processes of projection-read-model-group
    Replayers,     \* concurrent POST /replay requests
    TotalStock,    \* total_stock of the SKU the order asks for
    StealCost,     \* how much of the bound on faults a rebalance uses up
    None           \* no row, no process, no event

\* topics: the messages of the order, per topic; read: how many of each the group
\* has behind it; past: those events in the order they were projected in; others:
\* units reserved for other orders; quantity: of the SKU in the order, an integer
\* of which POST /orders only checks that it is a number; faults: bound on crashes,
\* errors, rebalances and resent messages; replays: bound on replay requests.
ASSUME ScenariosAssumption ==
    \A s \in Scenarios :
        /\ s.topics \in [Topics -> Seq(EventTypes)] /\ s.read \in [Topics -> Nat]
        /\ s.past \in Seq(EventTypes)
        /\ s.others \in 0 .. TotalStock /\ s.quantity \in Int /\ s.faults \in Nat /\ s.replays \in Nat

\* Every event lies once in the topic of its type, and what the group has behind it
\* is the past: every event once, and those of a topic in the topic's order.
ReadInOrder(topics, read, past) ==
    /\ \A t \in Topics :
         /\ read[t] <= Len(topics[t])
         /\ \A n \in 1 .. Len(topics[t]) :
              /\ TopicOf[topics[t][n]] = t
              /\ \A k \in 1 .. n - 1 : topics[t][k] # topics[t][n]
              /\ n <= read[t] <=> topics[t][n] \in ToSet(past)
    /\ \A k \in 1 .. Len(past) :
         LET topic == topics[TopicOf[past[k]]] IN
         /\ past[k] \in ToSet(topic)
         /\ \A j \in 1 .. k - 1 :
              /\ past[j] # past[k]
              /\ \A a, b \in 1 .. Len(topic) :
                   topic[a] = past[j] /\ topic[b] = past[k] => a < b

ASSUME PastAssumption ==
    \A s \in Scenarios : ReadInOrder(s.topics, s.read, s.past)

\* The orchestrator releases only what was reserved.
ASSUME ReleaseAssumption ==
    \A s \in Scenarios : LET topic == s.topics["inventory"] IN
        \A n \in 1 .. Len(topic) : topic[n] = "InventoryReleased" =>
            \E k \in 1 .. n - 1 : topic[k] = "InventoryReserved"
ASSUME BoundsAssumption == TotalStock \in Nat /\ StealCost \in Nat \ {0}
ASSUME NoneAssumption == None \notin Instances \cup Replayers \cup EventTypes

VARIABLES
    \* Kafka
    log,         \* the messages of the order, per topic
    taken,       \* offset of the group per topic
    holder,      \* the instance that works on a topic's next message
    \* instances
    pc, cur,     \* where handleMessage stands, and with which event
    \* database
    processed,   \* processed_events of projection-consumer
    store,       \* event_store, in the order of sequence_number
    timeline,    \* order_events: rows per event
    rows,        \* order_, payment_ and shipment_read_model of the order
    stock,       \* inventory_read_model of the SKU
    applied,     \* projection_applied_events of the order
    \* replay requests
    rpc, todo,   \* where replayAggregate stands, the events it has yet to apply
    \* observation
    scenario,
    notified,    \* events websocket clients were told of
    lost,        \* events diverted to the DLQ
    quiet,       \* nobody else wrote since the replay read the store
    faults, steals, replays

kafka  == <<log, taken, holder>>
mem    == <<pc, cur>>
model  == <<rows, stock, applied>>
rep    == <<rpc, todo>>
bounds == <<faults, steals, replays>>
vars   == <<log, taken, holder, pc, cur, processed, store, timeline, rows, stock, applied,
            rpc, todo, scenario, notified, lost, quiet, faults, steals, replays>>

Points == {"idle", "append", "check", "apply", "finish"}
ReplayPoints == {"idle", "order", "payment", "shipment", "applied", "check", "apply"}

-----------------------------------------------------------------------------
(* applyHistoricalEvent: the status each case writes to order_read_model *)

OrderStatus ==
    [OrderCreated |-> "pending", OrderCompleted |-> "completed",
     OrderCancelled |-> "cancelled", OrderFailed |-> "failed"]
PaymentStatus ==
    [PaymentRequested |-> "payment_pending", PaymentAuthorized |-> "payment_approved",
     PaymentRejected |-> "payment_rejected"]
InventoryStatus ==
    [InventoryReservationRequested |-> "inventory_pending",
     InventoryReserved |-> "inventory_reserved",
     InventoryReservationFailed |-> "inventory_failed"]
FraudStatus ==
    [FraudCheckRequested |-> "fraud_pending", FraudApproved |-> "fraud_approved",
     FraudRejected |-> "fraud_rejected"]
ShippingStatus ==
    [ShipmentRequested |-> "shipping_pending", ShipmentCreated |-> "shipping_created"]

StatusIn ==
    [orders |-> OrderStatus, payments |-> PaymentStatus, inventory |-> InventoryStatus,
     fraud |-> FraudStatus, shipping |-> ShippingStatus, notifications |-> <<>>]

HasStatus(e) == e \in DOMAIN StatusIn[TopicOf[e]]
StatusAfter(e) == StatusIn[TopicOf[e]][e]

\* OrderCreated inserts the row or resets it to pending; every other case is
\* an UPDATE, without effect as long as there is no row.
OrderRow(row, e) ==
    IF e = "OrderCreated" \/ (row # None /\ HasStatus(e)) THEN StatusAfter(e) ELSE row

PaymentRow(row, e) ==
    IF e = "PaymentAuthorized" THEN "AUTHORIZED"
    ELSE IF e = "PaymentRefunded" /\ row # None THEN "REFUNDED" ELSE row

ShipmentRow(row, e) == IF e = "ShipmentCreated" THEN "CREATED" ELSE row

Project(r, e) == [order    |-> OrderRow(r.order, e),
                  payment  |-> PaymentRow(r.payment, e),
                  shipment |-> ShipmentRow(r.shipment, e)]

NoRows == [order |-> None, payment |-> None, shipment |-> None]

\* GREATEST(0, a - b).
Minus(a, b) == IF a > b THEN a - b ELSE 0

\* The units the counters move by: item.quantity || 1.
Units(s) == IF s.quantity = 0 THEN 1 ELSE s.quantity

\* The stock counters after InventoryReserved and InventoryReleased.
StockAfter(s, c, e) ==
    IF e = "InventoryReserved"
      THEN [reserved |-> c.reserved + Units(s), available |-> Minus(c.available, Units(s))]
    ELSE IF e = "InventoryReleased"
      THEN [reserved |-> Minus(c.reserved, Units(s)), available |-> c.available + Units(s)]
    ELSE c

\* The stock when only other orders hold any of it.
StockOf(s) == [reserved |-> s.others, available |-> TotalStock - s.others]

\* What event e of the order makes of the read models.
ModelsAfter(s, m, e) == [rows |-> Project(m.rows, e), stock |-> StockAfter(s, m.stock, e)]

\* The read models after the first k events of es.
ModelsAlong(s, es) ==
    LET models[k \in 0 .. Len(es)] ==
          IF k = 0 THEN [rows |-> NoRows, stock |-> StockOf(s)]
          ELSE ModelsAfter(s, models[k - 1], es[k])
    IN models

Rebuilt(s, es) == ModelsAlong(s, es)[Len(es)]

\* getOrder, the answer to GET /orders/:order_id: the read model, or else the
\* row createOrder wrote, whose status nobody changes.
GetOrder == IF rows.order # None THEN rows.order ELSE "pending"

-----------------------------------------------------------------------------
\* Offsets, tables, handlers and requests hold values of their kinds.
TypeOK ==
    /\ log \in [Topics -> Seq(EventTypes)]
    /\ \A t \in Topics : taken[t] \in 0 .. Len(log[t])
    /\ holder \in [Topics -> Instances \cup {None}]
    /\ pc \in [Instances -> Points]
    /\ cur \in [Instances -> EventTypes \cup {None}]
    /\ processed \subseteq EventTypes /\ applied \subseteq EventTypes
    /\ store \in Seq(EventTypes)
    /\ timeline \in [EventTypes -> Nat]
    /\ DOMAIN rows = {"order", "payment", "shipment"}
    /\ stock \in [reserved : Int, available : Int]
    /\ rpc \in [Replayers -> ReplayPoints]
    /\ todo \in [Replayers -> Seq(EventTypes)]
    /\ quiet \in [Replayers -> BOOLEAN]
    /\ scenario \in Scenarios
    /\ notified \subseteq EventTypes /\ lost \subseteq EventTypes
    /\ faults \in 0 .. scenario.faults /\ steals \in 0 .. faults
    /\ replays \in 0 .. scenario.replays

\* The past events went through one after the other.
Init ==
    \E s \in Scenarios :
        /\ scenario = s
        /\ log      = s.topics
        /\ taken    = s.read
        /\ holder   = [t \in Topics |-> None]
        /\ pc       = [i \in Instances |-> "idle"]
        /\ cur      = [i \in Instances |-> None]
        /\ store    = s.past
        /\ timeline = [e \in EventTypes |-> IF e \in ToSet(s.past) THEN 1 ELSE 0]
        /\ processed = ToSet(s.past) /\ applied = ToSet(s.past) /\ notified = ToSet(s.past)
        /\ rows     = Rebuilt(s, s.past).rows
        /\ stock    = Rebuilt(s, s.past).stock
        /\ rpc      = [r \in Replayers |-> "idle"]
        /\ todo     = [r \in Replayers |-> <<>>]
        /\ quiet    = [r \in Replayers |-> FALSE]
        /\ lost = {} /\ faults = 0 /\ steals = 0 /\ replays = 0

\* Something fails; the bound makes failures finite in number.
Fault == faults < scenario.faults /\ faults' = faults + 1

\* A write by replayer r (None: by the consumer) that other replays may miss.
Writes(r) == quiet' = [q \in Replayers |-> quiet[q] /\ q = r]

\* The transaction of applyHistoricalEvent commits: the read models and
\* markProjectionEventApplied (ON CONFLICT DO NOTHING).
CommitEvent(e) ==
    /\ rows' = Project(rows, e)
    /\ stock' = StockAfter(scenario, stock, e)
    /\ applied' = applied \cup {e}

\* Variant: the applied-events log is not consulted.
Bug_IsAppliedNever(e) == FALSE

\* isProjectionEventApplied.
IsApplied(e) == e \in applied

-----------------------------------------------------------------------------
(* Kafka and the group *)

Resend(e) ==
    /\ Fault
    /\ log' = [log EXCEPT ![TopicOf[e]] = Append(@, e)]
    /\ UNCHANGED <<taken, holder, mem, store, timeline, model, rep, scenario, notified, lost,
                   quiet, steals, replays>>

\* The relay publishes OrderCreated again.
RepublishOrder ==
    /\ "OrderCreated" \in ToSet(log["orders"])
    /\ Resend("OrderCreated")
    /\ UNCHANGED processed

\* replayDLQ deletes the marker of a diverted event and sends it again.
ReplayDlq(e) ==
    /\ e \in lost
    /\ Resend(e)
    /\ processed' = processed \ {e}

\* handleMessage starts with the next message of topic t; one whose event is
\* already marked is skipped (isEventProcessed).
Take(i, t) ==
    LET e == log[t][taken[t] + 1] IN
    /\ pc[i] = "idle"
    /\ taken[t] < Len(log[t])
    /\ IF e \in processed
         THEN /\ taken' = [taken EXCEPT ![t] = @ + 1]
              /\ holder' = [holder EXCEPT ![t] = None]
              /\ UNCHANGED mem
         ELSE /\ holder' = [holder EXCEPT ![t] = i]
              /\ cur' = [cur EXCEPT ![i] = e]
              /\ pc' = [pc EXCEPT ![i] = "append"]
              /\ UNCHANGED taken
    /\ UNCHANGED <<log, processed, store, timeline, model, rep, scenario, notified, lost,
                   quiet, replays>>

TakeNext(i, t) == holder[t] = None /\ Take(i, t) /\ UNCHANGED <<faults, steals>>

\* A rebalance gives the topic's partition to i while its former owner is still
\* busy with the message.
Steal(i, t) ==
    /\ holder[t] \notin {None, i}
    /\ faults + StealCost <= scenario.faults
    /\ faults' = faults + StealCost
    /\ steals' = steals + 1
    /\ Take(i, t)

\* Variant: the group accepts the offset of a former owner.
Bug_ReturnByAnyone(i) ==
    LET t == TopicOf[cur[i]] IN
    /\ pc' = [pc EXCEPT ![i] = "idle"]
    /\ cur' = [cur EXCEPT ![i] = None]
    /\ taken' = [taken EXCEPT ![t] = @ + 1]
    /\ holder' = [holder EXCEPT ![t] = IF @ = i THEN None ELSE @]
    /\ UNCHANGED log

\* Instance i is through with its message; only the owner moves the offset.
Return(i) ==
    LET t == TopicOf[cur[i]] IN
    /\ pc' = [pc EXCEPT ![i] = "idle"]
    /\ cur' = [cur EXCEPT ![i] = None]
    /\ IF holder[t] = i
         THEN /\ taken' = [taken EXCEPT ![t] = @ + 1]
              /\ holder' = [holder EXCEPT ![t] = None]
         ELSE UNCHANGED <<taken, holder>>
    /\ UNCHANGED log

-----------------------------------------------------------------------------
(* ProjectionConsumer.processEvent *)

Goto(i, p) == pc' = [pc EXCEPT ![i] = p] /\ UNCHANGED cur

\* Variant: no ON CONFLICT clause on event_id.
Bug_AppendedTwice(e) == Append(store, e)

\* INSERT ... MAX(sequence_number) + 1 ... ON CONFLICT (event_id) DO NOTHING,
\* serialised per order by the advisory lock.
Appended(e) == IF e \in ToSet(store) THEN store ELSE Append(store, e)

\* Variant: the append is not awaited, so that its failure goes unnoticed.
Bug_AppendNotAwaited(i) ==
    /\ pc[i] = "append"
    /\ store' \in {store, Appended(cur[i])}
    /\ Writes(None)
    /\ Goto(i, "check")
    /\ UNCHANGED <<kafka, processed, timeline, model, rep, scenario, notified, lost, bounds>>

AppendToEventStore(i) ==
    /\ pc[i] = "append"
    /\ store' = Appended(cur[i])
    /\ Writes(None)
    /\ Goto(i, "check")
    /\ UNCHANGED <<kafka, processed, timeline, model, rep, scenario, notified, lost, bounds>>

\* recordEvent: a plain INSERT nobody but the timeline reads, repeated by every
\* attempt.
RecordEvent(e) == timeline' = [timeline EXCEPT ![e] = @ + 1]

\* Variant: an event already applied leaves processEvent at once.
Bug_CheckAppliedReturns(i) ==
    /\ pc[i] = "check"
    /\ RecordEvent(cur[i])
    /\ IF IsApplied(cur[i])
         THEN Return(i) /\ processed' = processed \cup {cur[i]}
         ELSE Goto(i, "apply") /\ UNCHANGED <<kafka, processed>>
    /\ UNCHANGED <<store, model, rep, scenario, notified, lost, quiet, bounds>>

\* recordEvent; then the transaction begins and looks the event up, which in
\* READ COMMITTED does not keep another transaction from applying it meanwhile.
CheckApplied(i) ==
    /\ pc[i] = "check"
    /\ RecordEvent(cur[i])
    /\ Goto(i, IF IsApplied(cur[i]) THEN "finish" ELSE "apply")
    /\ UNCHANGED <<kafka, processed, store, model, rep, scenario, notified, lost, quiet, bounds>>

ApplyEvent(i) ==
    /\ pc[i] = "apply"
    /\ CommitEvent(cur[i])
    /\ Writes(None)
    /\ Goto(i, "finish")
    /\ UNCHANGED <<kafka, processed, store, timeline, rep, scenario, notified, lost, bounds>>

\* emitLiveNotifications.
EmitLiveNotifications(e) == notified' = notified \cup {e}

\* ... and markEventProcessed, upon which handleMessage returns.
Finish(i) ==
    /\ pc[i] = "finish"
    /\ EmitLiveNotifications(cur[i])
    /\ processed' = processed \cup {cur[i]}
    /\ Return(i)
    /\ UNCHANGED <<store, timeline, model, rep, scenario, lost, quiet, bounds>>

\* How far a handler that is cut off had come: what it emitted and marked.
CutOff(i) ==
    \/ UNCHANGED <<notified, processed>>
    \/ /\ pc[i] = "finish"
       /\ EmitLiveNotifications(cur[i])
       /\ processed' \in {processed, processed \cup {cur[i]}}

\* A statement throws, before it took effect or with its answer lost; the retry
\* loop runs processEvent from the start.
Retry(i) ==
    /\ pc[i] \in {"check", "apply", "finish"}
    /\ Fault
    /\ CutOff(i)
    /\ Goto(i, "append")
    /\ UNCHANGED <<kafka, store, timeline, model, rep, scenario, lost, quiet, steals, replays>>

\* The last attempt throws: the message goes to the DLQ, its marker is FAILED.
GiveUp(i) ==
    /\ pc[i] # "idle"
    /\ Fault
    /\ \/ UNCHANGED notified
       \/ pc[i] = "finish" /\ EmitLiveNotifications(cur[i])
    /\ lost' = lost \cup {cur[i]}
    /\ processed' = processed \ {cur[i]}
    /\ Return(i)
    /\ UNCHANGED <<store, timeline, model, rep, scenario, quiet, steals, replays>>

\* The process dies; its message will be taken again.
Crash(i) ==
    /\ pc[i] # "idle"
    /\ Fault
    /\ CutOff(i)
    /\ holder' = [t \in Topics |-> IF holder[t] = i THEN None ELSE holder[t]]
    /\ pc' = [pc EXCEPT ![i] = "idle"]
    /\ cur' = [cur EXCEPT ![i] = None]
    /\ UNCHANGED <<log, taken, store, timeline, model, rep, scenario, lost, quiet, steals, replays>>

-----------------------------------------------------------------------------
(* EventReplayService.replayAggregate *)

ReplayGoto(r, p) == rpc' = [rpc EXCEPT ![r] = p]

replayFrame == <<kafka, mem, processed, store, timeline, scenario, notified, lost, faults, steals>>

\* getEventsByAggregateId: the events of the order by sequence_number.
EventsByAggregate == store

\* POST /replay: the events are read first.
ReplayStart(r) ==
    /\ rpc[r] = "idle"
    /\ replays < scenario.replays
    /\ replays' = replays + 1
    /\ todo' = [todo EXCEPT ![r] = EventsByAggregate]
    /\ quiet' = [quiet EXCEPT ![r] = TRUE]
    /\ ReplayGoto(r, "order")
    /\ UNCHANGED <<replayFrame, model>>

\* resetReadModelForAggregate: one DELETE per table, each on its own.
DeleteRow(r, table, next) ==
    /\ rpc[r] = table
    /\ rows' = [rows EXCEPT ![table] = None]
    /\ Writes(r)
    /\ ReplayGoto(r, next)
    /\ UNCHANGED <<replayFrame, stock, applied, todo, replays>>

\* Variant: the reset leaves the applied-events log alone.
Bug_DeleteAppliedForgotten(r) ==
    /\ rpc[r] = "applied"
    /\ ReplayGoto(r, "check")
    /\ UNCHANGED <<replayFrame, model, todo, quiet, replays>>

DeleteApplied(r) ==
    /\ rpc[r] = "applied"
    /\ applied' = {}
    /\ Writes(r)
    /\ ReplayGoto(r, "check")
    /\ UNCHANGED <<replayFrame, rows, stock, todo, replays>>

Reset(r) ==
    \/ DeleteRow(r, "order", "payment")
    \/ DeleteRow(r, "payment", "shipment")
    \/ DeleteRow(r, "shipment", "applied")
    \/ DeleteApplied(r)

ReplayNext(r) == todo' = [todo EXCEPT ![r] = Tail(@)]

\* The loop over the events: applyHistoricalEvent looks the next one up ...
ReplayCheck(r) ==
    /\ rpc[r] = "check"
    /\ todo[r] # <<>>
    /\ IF IsApplied(Head(todo[r]))
         THEN ReplayNext(r) /\ UNCHANGED rpc
         ELSE ReplayGoto(r, "apply") /\ UNCHANGED todo
    /\ UNCHANGED <<replayFrame, model, quiet, replays>>

\* ... and commits it.
ReplayApply(r) ==
    /\ rpc[r] = "apply"
    /\ CommitEvent(Head(todo[r]))
    /\ Writes(r)
    /\ ReplayNext(r)
    /\ ReplayGoto(r, "check")
    /\ UNCHANGED <<replayFrame, replays>>

\* SUCCESS, with the state read by getOrder.
ReplayEnd(r) ==
    /\ rpc[r] = "check"
    /\ todo[r] = <<>>
    /\ ReplayGoto(r, "idle")
    /\ UNCHANGED <<replayFrame, model, todo, quiet, replays>>

\* A statement throws and replayAggregate answers FAILED, or the process dies;
\* what was deleted stays deleted.
ReplayFails(r) ==
    /\ rpc[r] # "idle"
    /\ Fault
    /\ ReplayGoto(r, "idle")
    /\ todo' = [todo EXCEPT ![r] = <<>>]
    /\ UNCHANGED <<kafka, mem, processed, store, timeline, model, scenario, notified, lost,
                   quiet, steals, replays>>

-----------------------------------------------------------------------------
Handle(i) ==
    \/ AppendToEventStore(i) \/ CheckApplied(i) \/ ApplyEvent(i) \/ Finish(i)
    \/ \E t \in Topics : TakeNext(i, t)

Replay(r) == Reset(r) \/ ReplayCheck(r) \/ ReplayApply(r) \/ ReplayEnd(r)

Next ==
    \/ \E i \in Instances : Handle(i) \/ Retry(i) \/ GiveUp(i) \/ Crash(i)
    \/ \E i \in Instances, t \in Topics : Steal(i, t)
    \/ RepublishOrder
    \/ \E e \in lost : ReplayDlq(e)
    \/ \E r \in Replayers : ReplayStart(r) \/ Replay(r) \/ ReplayFails(r)

Spec == Init /\ [][Next]_vars

Progress == (\E i \in Instances : Handle(i)) \/ (\E r \in Replayers : Replay(r))

\* Handlers and requests end and the group takes what is in its topics; faults
\* and requests are finite in number and so is the rest of the work.
Fairness == WF_vars(Progress)

FairSpec == Spec /\ Fairness

-----------------------------------------------------------------------------
(* Properties *)

\* Where an event first stands in its topic.
FirstAt(e) == CHOOSE n \in 1 .. Len(log[TopicOf[e]]) :
                 /\ log[TopicOf[e]][n] = e
                 /\ \A k \in 1 .. n - 1 : log[TopicOf[e]][k] # e

\* The event store holds every event once and, unless one was diverted to the
\* DLQ, the events of a topic in the topic's order, whatever crashes, retries
\* and zombie handlers append (appendToEventStore): a replay applies a refund
\* after its payment and a release after its reservation.
StoreKeepsTopicOrder ==
    \A j, k \in 1 .. Len(store) :
        j < k => /\ store[j] # store[k]
                 /\ lost = {} /\ TopicOf[store[j]] = TopicOf[store[k]]
                    => FirstAt(store[j]) < FirstAt(store[k])

\* Nothing is in the read models, or was told to a client, that a replay would
\* not find in the event store.
NothingUnstored == applied \cup notified \subseteq ToSet(store)

\* The events of topic t that have been projected are its first n.
AppliedUpTo(t, n) ==
    \A k \in 1 .. Len(log[t]) : log[t][k] \in applied <=> k <= n

\* The part of the read models that topic t feeds.
FedBy(t, m) ==
    [inventory |-> m.stock, payments |-> m.rows.payment, shipping |-> m.rows.shipment][t]

Models == [rows |-> rows, stock |-> stock]

\* Short of zombies, replays and diverted events, the events of a topic are
\* applied in its order, without a gap, and the rows it feeds are what they give:
\* a redelivery or a retry after a crash anywhere between append and mark neither
\* deducts stock twice nor takes a REFUNDED payment back to AUTHORIZED.
ModelsFollowTopics ==
    steals = 0 /\ replays = 0 /\ lost = {} =>
        \A t \in {"inventory", "payments", "shipping"} : \E n \in 0 .. Len(log[t]) :
            /\ AppliedUpTo(t, n)
            /\ FedBy(t, Models) =
                 FedBy(t, Rebuilt(scenario, SubSeq(log[t], 1, n)))

Larger(a, b) == IF a > b THEN a ELSE b

\* The stock counters never go below zero, whatever is applied twice, if the
\* quantity is positive.  Short of zombies, replays and diverted events no stock is
\* lost, whatever the quantity, and none is created but by the release of a
\* reservation that exceeded what was available (GREATEST): what the counters then
\* sum up to is at most what had been reserved.
StockAccounted ==
    /\ Units(scenario) > 0 => stock.reserved >= 0 /\ stock.available >= 0
    /\ steals = 0 /\ replays = 0 /\ lost = {} =>
         stock.reserved + stock.available
           \in TotalStock .. Larger(TotalStock, scenario.others + Units(scenario))

\* A replay nobody interfered with ends with the rows the event store gives in
\* the order of its sequence numbers, and with every event logged as applied,
\* whatever state a crash or an earlier, failed replay had left behind.
QuietReplayRebuilds ==
    \A r \in Replayers :
        rpc[r] = "check" /\ todo[r] = <<>> /\ quiet[r] =>
            rows = Rebuilt(scenario, store).rows /\ applied = ToSet(store)

Arrived == UNION {ToSet(log[t]) : t \in Topics}

\* Every event is in the end stored and told to the clients, also when a crash
\* came between its transaction and its notification, unless it was diverted;
\* and, unless a replay interfered, it is in the read models for good.
EventuallyProjected ==
    <>[](/\ Arrived \ lost \subseteq notified
         /\ replays = 0 => Arrived \ lost \subseteq applied)

AllIdle == /\ \A i \in Instances : pc[i] = "idle"
           /\ \A r \in Replayers : rpc[r] = "idle"
AllTaken == \A t \in Topics : taken[t] = Len(log[t])

\* docs/01_ARCHITECTURE.md: "OrderCancelled -> Read Model status = cancelled".
OutcomeShown ==
    AllIdle /\ AllTaken =>
        \A e \in Outcomes \cap Arrived : GetOrder = StatusAfter(e)

\* The stock is what the events logged as applied make of it.
StockMatchesApplied ==
    stock = Rebuilt(scenario, SelectSeq(log["inventory"], LAMBDA e : e \in applied)).stock

\* docs/11_EVENT_REPLAY.md: replay rebuilds "without ... duplicate inventory
\* deductions".
ReplayKeepsStock == AllIdle => StockMatchesApplied

\* docs/11_EVENT_REPLAY.md: projection_applied_events is there "to prevent duplicate
\* state mutations during ... concurrent consumer executions".
ConcurrencyKeepsStock == AllIdle /\ replays = 0 => StockMatchesApplied

=============================================================================

# TLA+ models of the order fulfilment platform

This directory holds TLA+ models of the platform's core: the transactional
outbox, the idempotent consumers with their dead letter queue, the saga
orchestrator, and the query side with event store and replay. The models are translated from the TypeScript sources; each
definition that stands for code is mapped to its lines in `PROJECT.json`.

## 1. The system

`POST /orders` writes an order and an `OrderCreated` row in one PostgreSQL
transaction. A relay publishes that row to Kafka. From there everything is
driven by events: the saga orchestrator turns each event into the next command,
five domain consumers turn commands into answers, a projection consumer turns
all of them into read models. Kafka delivers at least once, one topic per
domain, all messages of an order in one partition of each topic.

| Part | State | Operations | Hard about it | What makes it correct |
|---|---|---|---|---|
| order service (`order-service.ts`) | `orders`, `outbox_events` | `createOrder` | two tables, one transaction | an event exists exactly for committed orders |
| outbox relay (`outbox-relay.ts`, `database.ts`) | row: status, lease, attempts; process: batch, current row | start, stop, poll/trigger, claim, send, mark published, mark failed | several relays, leases that expire under a slow worker, lost answers, crashes, the attempt limit | PUBLISHED means delivered; duplicates bounded; a stale worker changes nothing; every row is settled |
| base consumer (`base-consumer.ts`) | `processed_events`, `dlq_messages`, `dlq_outbox`, group offset | receive, check, process, mark, divert to DLQ | check and mark are separate, retries after an effect, zombies after a rebalance, swallowed errors | nothing lost, effects repeated only after a fault, no blocked partition |
| DLQ replay (`event-replay-service.ts`) | DLQ row status, marker | `replayDLQ` | overlapping requests, a failure in the middle | REPLAYED means sent again |
| saga orchestrator (`saga-orchestrator.ts`) | `saga_instances` | one case per event, compensation barrier | topics are not ordered among each other, several instances, save and emit not atomic | one outcome, no repeated command, cancelled only after compensation, the saga ends |
| domain consumers | none of their own | answer a command | answer twice, differently | (see saga) |
| projection and event store (`projection-consumer.ts`, `database.ts`) | read models, `event_store`, `projection_applied_events`, `order_events` | append, record, check and apply, notify | topics without mutual order, three transactions per event, zombies, redelivery | nothing projected is missing from the store; each topic's order kept; stock and payment changed once per event, stock neither lost nor created |
| aggregate replay (`event-replay-service.ts`) | events read, position in the loop | read, reset table by table, re-apply | overlapping requests, failure in the middle, live events | an undisturbed replay rebuilds what the store says |
| chaos engine, HTTP API, realtime gateway, contracts, legacy services, logging | - | - | - | see section 7 |

Interactions: `createOrder` calls the relay's `trigger`; relay and consumers
meet only in Kafka; orchestrator and domain consumers exchange commands and
answers over the domain topics; all of them share the database, each its own
tables. `replayDLQ` runs in an HTTP request next to the consumer whose marker
it deletes.

## 2. Modules

| Module | Models |
|---|---|
| `Outbox` | `createOrder`, `OutboxRelay` and the three outbox queries |
| `AtLeastOnce` | the abstract promise of the outbox |
| `OutboxProofs` | theorems about `Outbox`, with proofs |
| `Consumer` | `BaseConsumer.handleMessage`, both DLQ handlers, group offsets, `replayDLQ` |
| `ConsumerProofs` | theorems about `Consumer`, with proofs |
| `Contracts` | topics and event types; extended by `Saga` and `Projection` |
| `ContractsProofs` | lemmas about `Contracts`, used by `SagaProofs` and `ProjectionProofs` |
| `Saga` | `SagaOrchestrator`, the compensation barrier and the domain consumers, for one order |
| `OrderLifecycle` | the abstract promise of the saga |
| `SagaProofs` | theorems about `Saga`, with proofs |
| `Projection` | `ProjectionConsumer`, event store, read models and `replayAggregate`, for one order |
| `ProjectionProofs` | theorems about the event store of `Projection`, with proofs |
| `ReadModelProofs` | theorems about its types and read models, with proofs |
| `MCOutbox`, `MCConsumer`, `MCSaga`, `MCProjection` | instances for TLC |

Definitions whose names start with `Bug_` are wrong variants of the definition
that follows them. No specification uses them; substituted for the original
they show that a property notices the mistake.

### Outbox

One function per column of `outbox_events` (`status`, `owner`, `lease`,
`attempts`), per worker a `life` (process) and `pc`, `todo`, `cur`
(`processBatch` and `publishEvent`), and `copies`, the number of messages in
Kafka. Every `await` ends a step. An event is identified with its `created_at`
rank, so that `ORDER BY created_at LIMIT n` is `Oldest`; `RETURNING` promises no
order, so a worker takes its batch in any. A statement that throws may or may
not have had its effect (`ClaimError`, `MarkPublishedError`, `MarkFailedError`,
`SendError`). The clock is `LeaseExpire`: at any moment, whatever the owner is
doing. A worker is an incarnation of a relay process, since the constructor
draws a new `workerId`; `SKIP LOCKED` lets a claim pass over rows another
worker's mark has locked.

`AtLeastOnce` has four actions: accept, deliver, confirm (only what was
delivered), give up. `Outbox` implements it under the mapping in the module.

### Consumer

One partition of one consumer group. `Receive` to `DlqMark` are the awaits of
`handleMessage`; `processEvent` is an effect that is counted. The group's side:
`Join`, `Rebalance` (the former owner goes on with its message as a zombie),
`Commit`, `Crash`. The consumers subscribe with `fromBeginning: false`: until
the first commit an assignment starts at the end of the log (`Assign`), which
the model records in `skipped`. `replayDLQ` is a process of its own
(`ReplayStart` to `ReplayCrash`). kafkajs redelivers a message whose handler
threw; only `isEventProcessed` can throw out of `handleMessage`.
`MaxFaults` bounds crashes, rebalances, errors and replay requests together;
`processEvent` failing without effect needs no fault, `MaxRetries` bounds it.

### Saga

One order; a topic is the log of its messages. `Reaction` is the table of the
cases of `processEvent`: state accepted, row saved, events emitted. An instance
reads the row (`ReadSaga`), saves it (`SaveSaga`) or runs the barrier's
transaction (`Barrier`), emits one event per step (`Emit`) and marks the message
(`Mark`). Domain consumers answer a command with one of its possible answers
(`Serve`), with an answer but no mark, so that the command comes again
(`ServeUnmarked`), or never (`ServeToDlq`). Inside the orchestrator a step may
throw with or without effect and be retried (`Error`), the last retry may fail
(`GiveUp`), the process may die (`Crash`), and a rebalance may hand a partition
to another instance while the former one is still working (`Steal`). Messages a
reader has no case for are passed over together with the next one it has.
`lost` and `steals` record that a message was lost and that a zombie exists.

`OrderLifecycle` has one variable each for the phase of the order, for the
compensations owed and reported, and for the announcements: the set of the
outcomes in `orders.events`, each with its place. `Saga` implements it short of a
zombie (`ImplementsLifecycle`): the property allows anything of a step that a
zombie exists in.

### Projection

One order, one SKU. The messages lie in their topics from the start and each
topic is taken in order, so that TLC chooses every order in which a lagging
group could have seen them. What they are is a scenario: a record of the messages
of each topic (`topics`), how many of them the group has behind it (`read`), those
events in the order they were projected in (`past`), the stock other orders hold,
the quantity ordered, and bounds on faults and replay requests. The quantity is any
integer: `POST /orders` checks that it is a number, the schema that would demand a
positive one (`contracts/events/order.ts`) is not applied to the event, and zero counts
as one unit (`Units`). `PastAssumption` says that these fit
together: every event lies once in the topic of its type, and the past is what was
read, those of a topic in the topic's order. `ReleaseAssumption` says that what is released
was reserved before. An event is named by its type; it comes
to lie in its topic again by `RepublishOrder` (the relay) or `ReplayDlq`.
`processEvent` is cut at its transactions: `AppendToEventStore`, `CheckApplied`
(with `recordEvent`, which only the timeline reads, and the lookup in the
applied-events log), `ApplyEvent` (the commit of the read models and the
applied-events row), `Finish` (notification and marker). Check and commit are
two steps because READ COMMITTED lets another transaction in between. `Retry`,
`GiveUp` and `Crash` cut a handler off at any of them; `Steal` leaves a zombie.
`replayAggregate` reads the store, deletes table by table (`DeleteRow`,
`DeleteApplied`: no transaction encloses them), and applies event by event;
`ReplayFails` stops it anywhere. `MAX(sequence_number) + 1` under the advisory
lock makes the store a sequence. `quiet` records whether anybody else wrote
since a replay read the store. What a sequence of events makes of the read models
is a recursive function of the number of events (`ModelsAlong`), each of which
changes them as one transaction of `applyHistoricalEvent` does (`ModelsAfter`).

## 3. Runs

| Run | Checks | Bounds |
|---|---|---|
| `outbox` | `TypeOK`, `PublishedIsDelivered`, `CopiesWithinAttempts`, `PendingIsClaimable`, `NoStaleCompletion`, `ImplementsAtLeastOnce`, `EventuallySettled`, `ExpiredLeaseReclaimed` | 2 events, one mortal and one immortal relay, batches of 2, 2 attempts |
| `outbox_reclaim` | finding: `EveryExpiredLeaseReclaimed` fails | batches of 1 |
| `consumer` | `TypeOK`, `LossesAccounted`, `DuplicatesNeedFaults`, `ReplayedIsResent` | 1 event and malformed messages, 3 messages, 2 members, 2 replay requests, 2 tries, 2 faults |
| `consumer_live` | `EveryMessageHandled` | 2 messages, 2 members, 1 replay request, 2 faults |
| `consumer_lost`, `consumer_dlq` | findings: `NothingLost`, `DlqEventuallyPublished` fail | 2 messages, 1 fault |
| `saga` | `TypeOK`, `CancelledIsCompensated`, `AtMostOneOutcome`, `CommandsAtMostOnce`, `ImplementsLifecycle`, `SagaEndsUnlessLost` | 2 instances, 2 faults or 1 rebalance |
| `saga_stuck` | finding: `SagaEnds` fails | 1 fault |
| `projection` | `TypeOK`, `StoreKeepsTopicOrder`, `NothingUnstored`, `ModelsFollowTopics`, `StockAccounted`, `QuietReplayRebuilds`, `EventuallyProjected` | 2 instances, 2 replay requests at a time, 20 scenarios with up to 2 faults or 3 requests |
| `projection_status`, `projection_stock`, `projection_zombie` | findings: `OutcomeShown`, `ReplayKeepsStock`, `ConcurrencyKeepsStock` fail | no fault; no fault, 1 replay; 1 rebalance |

Why the bounds suffice for the cases of interest. Outbox: two attempts let a
row be claimed and lost to a second worker while the first still holds it; a
batch of two lets a failure abort the rest of a batch; the proofs cover the
safety properties for all other sizes (two mortal relays and three attempts
were checked too). Consumer: three messages are the original, a duplicate
from the relay and a replay; two faults are, for example, two overlapping
replays, or a crash and a replay (four messages, or three faults, were checked
too and take a few minutes). Saga: two faults include a duplicate answer
followed by a crash; two instances are enough for the two compensation reports
to be handled at the same time and for a zombie with its successor. A rebalance
uses up two faults (`StealCost`), so that it is not combined with others.
Projection: the scenarios are stretches of every history the saga can have, each
long enough to hold the events that can overtake each other, and the past takes
the place of what came before; two faults are, for example, a duplicate and a
zombie, three requests an interrupted, an overlapping and a repairing replay. A
stock of one unit, held by another order in some scenarios, is at its limit; the
quantities are 1, and in four scenarios -1, 0 and 2: what is out of range, what counts
as another quantity, and what exceeds the stock.

What two of the properties leave open, and why. `SagaEndsUnlessLost` promises nothing
once a message was lost between save and emit; that the code can lose one is
what `saga_stuck` shows, whose `SagaEnds` asks for an end that is announced. `CancelledIsCompensated`
asks for no release when the reservation was answered with a failure: the saga ended
there, and a reservation the consumer makes when it handles the request a second time
is held for good.

Fairness. Outbox: a relay that stays up fires its timer and its awaits end
(weak fairness); some claim among infinitely many is answered (strong fairness,
as `ClaimError` may alternate with it); a mark query ends, at the latest with
its process; time passes (`LeaseExpire`). Nothing is assumed of a relay that may
die. Sends and marks may fail every time. Consumer, Saga, Projection: faults and
requests are finite in number, and apart from them every step brings a handler,
an offset or a request forward, so that no behaviour goes on for ever without
finishing the work. It is enough that the system does not stand still while a
step of a handler, of the group (an owner for the partition, auto-commit), of a
domain consumer or of a replay is possible: weak fairness of their disjunction
(`Progress`). It is what an event loop and the broker give: awaits end, and a
member with a message to fetch fetches it.

## 4. What the findings say

* `outbox_reclaim`: the claim both requires `attempts < 10` and increments, so a
  worker that dies in attempt ten leaves a row that is never claimed again and
  never FAILED. `EventuallySettled` counts such a row as settled (`Exhausted`).
* `consumer_lost`: a failing DLQ transaction is swallowed and the message lost.
* `consumer_dlq`: nothing drains `dlq_outbox`; a failed send to `platform.dlq`
  is final. The direct mark does not match either, as it asks for PROCESSING.
* `saga_stuck`: between `saveSagaInstance` and `emit` a crash loses the command,
  and the guard ignores the redelivered event. After a crash behind the barrier's
  commit the saga is CANCELLED and `OrderCancelled` is never announced.
* `projection_status`: each event overwrites the order's status with its own.
  `OrderCancelled` in `orders.events` can be taken before
  `InventoryReservationFailed` in `inventory.events`, by a second instance or by
  one that catches up, and the order is shown as `inventory_failed` for good.
* `projection_stock`: the reset of a replay forgets which events were applied
  but not what they did to the stock counters, which a replay deducts again.
* `projection_zombie`: `isProjectionEventApplied` selects before the updates and the
  insert, `ON CONFLICT DO NOTHING`, comes after them, in READ COMMITTED: a zombie and
  its successor both find nothing and both deduct the stock, against
  docs/11_EVENT_REPLAY.md:56 and 67.

Each is quoted with its documentation line in `PROJECT.json`.

Behaviour of the models that no run calls wrong, but that explains a condition
of a property: a zombie orchestrator that read the saga row before a rebalance
overwrites, by the unconditional upsert, a row its successor has taken to a
terminal state (`steals` in `ImplementsLifecycle`, against
docs/06_SAGA.md:79 "without state corruption"); the barrier, which locks, is
safe. A replay and the consumer both pass `isProjectionEventApplied` just as a zombie and
its successor do (`steals = 0` and `replays = 0` in `ModelsFollowTopics` and
`StockAccounted`). An order with a negative quantity lowers `reserved_stock` and raises
`available_stock`, and drives the former below zero when nobody else holds as much:
`StockAccounted` promises counters of at least zero for positive quantities only. A
reservation beyond the available stock is clamped, its release is not, so that the two
together create the difference; `StockAccounted` allows that much and no more.
An event that is appended after a replay
read the store and applied before its deletes is missing from the rows until the
next replay (`quiet` in `QuietReplayRebuilds`). During a replay GET
/orders/:order_id falls back to the `orders` row and answers `pending`.

## 5. Proofs

`OutboxProofs` proves, for every set of events, finite set of workers, batch
size and number of attempts:

* `TypeCorrect`, `PublishedDelivered`, `CopiesBounded`, `PendingClaimable`: the
  four invariants of run `outbox`;
* `StaleWorkersFenced`: the action property `NoStaleCompletion`;
* `Refinement`: `Outbox` implements `AtLeastOnce`.

The argument rests on one inductive invariant `Inv` (theorem `Invariance`).
`CopiesWithinAttempts` is not inductive: a send adds a copy and no attempt.
What makes it true is that a worker needs a claim to send, and a claim costs an
attempt: with `Holders(e)` the workers that have `e` in their batch unsent,
`copies[e] + Cardinality(Holders(e)) <= attempts[e]` (`ClaimsPayForCopies`). A
claim adds one holder and one attempt, a send turns a holder into a copy, a
crash or an aborted batch drops holders. For `PublishedIsDelivered` the
invariant says that a worker about to mark a row has delivered it
(`WorkInProgress`); `PendingIsClaimable` needs the attempt bound of the failure
mark; `AbsentIsUntouched` says that a row not yet inserted has no copies and no
holder. The fence is needed for the refinement: without it a late mark reopens
or changes an outcome. The assumptions are those of `Outbox`: events are
natural numbers, workers are finite in number, bounds are positive, `None` is
neither worker nor event.

`ConsumerProofs` proves, for every set of events, finite sets of group members
and replay requests, and every bound on the log, retries and faults:

* `TypeCorrect`, `Accounting`, `ReplayTruthful`, `DuplicatesBounded`: the
  invariants `TypeOK`, `LossesAccounted`, `ReplayedIsResent` and
  `DuplicatesNeedFaults` of run `consumer`.

`Inv` has a part for each. All rest on the types and on where a handler or a
replay request stands (`HandlersOnCourse`, `ReplaysOnCourse`: it works on a
message of the log, on a row that exists, in an attempt that is allowed).
`LossesAccounted` speaks of the committed offset, which jumps to the owner's
position: the invariant accounts for everything the owner has returned from, and
says that a marker stands for a `processEvent` that returned
(`ProgressAccounted`). `ReplayedIsResent` needs that a request that is about to
resolve a row has sent its event (`ResendBeforeResolve`); topic and DLQ only
grow (`Grows`), so it stays sent. `DuplicatesNeedFaults` is a budget: an effect
of `e` happens when the owner is due one (`Due`: no marker yet, or past the
check), when a zombie still has `e` in hand before its mark (`Late`), or after a
replay request took the marker away (`Reopening`). With all of these counted as
if they had happened, the faults and replay requests so far still pay:
`effects[e] + Due(e) + Cardinality(Late(e)) + Cardinality(Reopening(e)) <= 1 +
faults` (`FaultsPayForEffects`). A rebalance turns the owner's due effect into a
zombie's and makes the new owner due one, for one fault. The sets of processes
have to be finite for these counts (`ProcessesAssumption`).

`SagaProofs` proves, for every set of orchestrator instances, every number of
faults and every cost of a rebalance:

* `TypeCorrect`, `BarrierSafe`, `OneOutcome`, `CommandsOnce`: the four invariants
  of run `saga`;
* `Refinement`: `ImplementsLifecycle`, that short of a zombie `Saga` implements
  `OrderLifecycle`.

`StepKinds` reduces every step to one of five kinds, by what it does to the
topics, the row and the events to emit: nothing but forget events to emit,
sending from outside, emitting, saving the row for a case, reporting to the
barrier. On them rest three invariants, beside types and the fact that every
message is in the topic of its type and every instance at work has one
(`Typed`). `Compensated` is the barrier, and holds with zombies too: a
compensating row owes the refund, and the release unless the reservation was
answered with a failure; a compensation is noted only once its report is in a
topic; so `OrderCancelled`, whether in the topic or still to be emitted, has
both behind it. `Exclusive` says what is only true while nothing was stolen: an
instance at work holds its topic, and the row is still as the instance about to
save it has read it. The second needs the first, and that the cases which accept
one state all belong to one topic (`StateHasTopic`): two instances in the same
state would be handling the same topic. `EmittedOnce` then follows every event
the orchestrator emits: it is in one place, in the topic or among the events to
emit, and the row is in one of the states that come after its decision
(`After`), which no step leaves; a case emits only what the state it leaves does
not follow (`ReactionFits`). From it come the two counts and, in the refinement,
that an announcement is the first one and names the row's state.

`ProjectionProofs` proves, for every set of scenarios, instances and requests:

* `ProjectedIsStored`, `StoreOrdered`: the invariants `NothingUnstored` and
  `StoreKeepsTopicOrder` of run `projection`.

For the first, the inductive invariant `StoreInv` adds what makes it true: a handler past its
first step works on an event of the store (`HandledIsStored`), a replay has only
events of the store to do (`ReplayedIsStored`), and the store only grows. From
the constants it uses that the past of a scenario is a sequence of events.

For the second, `OrderInv` adds why a zombie cannot store an event early. An event
has had its turn (`Ready`) when one of its places in the topic has only stored
events before it. Everything stored and every event in hand has (`InTurn`), also
that of a zombie: its successor takes the same message, and an offset passes a
message only when it is stored (a marker stands for a stored event, and the holder
of a topic works on its next message, `HolderAtNext`) or diverted, upon which the
property promises no order. An event that is appended is not in the store, so none
of its places lies before a place at which a stored event had its turn. `Ordered`
says of all places of an event, however often it was sent again, what the property
says of the first; the first place comes from the least-number principle
(`LeastNumber`). The initial states satisfy it by `PastAssumption`.

`ReadModelProofs` proves, for every set of scenarios, instances and requests, every
integer as the ordered quantity and every stock:

* `TypeCorrect`, `ReplayRebuilds`, `ModelsFollow`, `StockSafe`: the invariants `TypeOK`,
  `QuietReplayRebuilds`, `ModelsFollowTopics` and `StockAccounted` of run `projection`.

All four are about what a sequence of events makes of the read models, that is,
about the recursive function `ModelsAlong`. The induction theorems of the library
take an operator, which the provers cannot instantiate; in their place stands
`Induction`, of a set of numbers with zero and every successor, from the
least-number principle. With it the recursion has a solution (`ModelsExist`), which
obeys its defining equations (`ModelsBegin`, `ModelsStep`); what is proved of
`ModelsAlong` is then proved by that lemma once more, over the number of events.

`TypeOK` says of the stock counters that they are integers, as a quantity may be negative.
With `OrderInv`, which has the types of the topics, it is inductive in the form `TypeInv`,
which also says that a positive quantity keeps them from going below zero: the clamps
preserve `ModelsTyped` (`AfterTyped`), from the state the past leaves on (`AlongTyped`).

`QuietReplayRebuilds` speaks of the end of a replay. `QuietReplays` says of every
moment of an undisturbed one where it is: while it deletes, its list is the whole
store and the rows behind it are gone; in the loop, its list is the store after the
first `d` events, the rows are what those give, and exactly they are logged as
applied. For the lookup to find nothing, the next event must not be one of them:
the store holds every event once (`OrderInv`). A write of anybody else ends
`quiet` (`Writes`), and a request that fails goes back to idle, so that neither needs
more than that.

`ModelsFollowTopics` needs why a check of the applied-events log still holds when its
outcome is used, although no lock protects it. Short of zombies an instance at work
holds its topic, so that nobody else has the same event in hand, and without replays
nobody takes anything out of the log (`Orderly`; it says also that a marked event is
applied, which is what lets an offset pass it). Then the applied events of a topic are
those up to the offset, or one further, when a handler has committed and not returned
(`Follows`), and the part of the models the topic feeds is what they give: events of
other topics leave it alone (`FedByOthers`) and what the next one makes of it
depends on that part only (`FedByItself`). Only `OrderCreated` is ever repeated while
nothing was diverted, and it feeds none of the three topics (`Once`). That `Follows` holds
at first is again an induction, over the past of the scenario (`PastMatches`): its
events came in a mixed order of the topics, and `PastAssumption` says that what lies
before a past event in its topic lies before it in the past.

`StockAccounted` then follows without an induction over steps. That the counters do not
go below zero for a positive quantity is part of `TypeInv`, and holds whatever is applied
twice. The sum needs `Following`: short of zombies, replays and diverted events the stock
is what a prefix of the inventory topic gives, a topic that is still as the scenario has
it (`Once`) and, by `ReleaseAssumption`, reserves before it releases. Along it the stock
is what the others hold, what is left with the order's units taken, or what their return
makes of that (`StockOnce`), and the three sums are within the bounds (`StockSums`).

Only model-checked: the liveness properties, as fairness is outside the prover's
reach, and the runs that find a property violated. Every safety property of a
passing run is a theorem. `Inv` of `ConsumerProofs` and `SagaProofs`, `OrderInv`,
`QuietReplays` and `Following` (`Orderly` with `Once` and `Follows`) were checked with
TLC on the instances of the runs before they were proved.

## 6. Plan

1. `Outbox`, `AtLeastOnce`, `OutboxProofs`: done.
2. `Consumer`, `ConsumerProofs`: done.
3. `Saga`, `OrderLifecycle`, `SagaProofs`: done, for one order.
4. `Projection`, `ProjectionProofs`, `ReadModelProofs`: done, for one order.
5. Left: the composition of outbox duplicates with a consumer's marker (effect at
   most once short of faults), and several orders that share a SKU.

## 7. Not modelled

The HTTP layer beside the three requests that change state and the status of an
order, Socket.IO rooms, logging, benchmarks and scripts: no state of their own
that a property is about. The chaos engine is present only through the choices
it makes possible. `RealtimeConsumer`, the legacy producers and services are not
started by `index.ts`. `getPendingDLQOutboxEvents`, `markDLQOutboxFailed` and
`updateOrderStatus` have no caller. Payloads, amounts and identifiers are
abstracted to what the control flow distinguishes; collisions of the shortened
UUIDs are left out. In `Projection` a domain consumer's repeated answer, which
has a fresh event_id and is applied as an event of its own, is left out, as are
several SKUs and orders: their rows are disjoint but for the stock counters,
to which each event adds or subtracts. A quantity that is not an integer, or a sum that
does not fit the INT columns, makes the statement throw, which ends like any failing event
(`Retry`, `GiveUp`), and is not modelled as a value.

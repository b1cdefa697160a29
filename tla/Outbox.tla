------------------------------- MODULE Outbox -------------------------------
(***************************************************************************)
(* The transactional outbox: OrderService.createOrder writes an order and  *)
(* its OrderCreated row in one transaction, OutboxRelay workers claim rows *)
(* under a lease, publish them to Kafka and record the outcome.            *)
(*                                                                         *)
(* An event is its created_at rank: transactions commit in any order, so   *)
(* rows become visible in any order.  A worker is one incarnation of a     *)
(* relay process (workerId is drawn afresh by the constructor), so a       *)
(* restart is the start of another worker.                                 *)
(***************************************************************************)
EXTENDS Naturals, FiniteSets

CONSTANTS
    Events,        \* ids of outbox events, ordered like created_at
    Workers,       \* relay incarnations
    Mortal,        \* the incarnations that may stop or crash
    BatchSize,     \* LIMIT of the claim query (50 in the code)
    MaxAttempts,   \* the attempt bound of the claim (10 in the code)
    None           \* SQL NULL

ASSUME EventsAssumption == Events \subseteq Nat
ASSUME WorkersAssumption == IsFiniteSet(Workers) /\ Mortal \subseteq Workers
ASSUME BoundsAssumption == BatchSize \in Nat \ {0} /\ MaxAttempts \in Nat \ {0}
ASSUME NoneAssumption == None \notin Workers /\ None \notin Events

VARIABLES
    \* table outbox_events, one function per column
    status,        \* "ABSENT" before the insert
    owner,         \* lease_owner
    lease,         \* lease_expires_at seen from the clock
    attempts,
    \* the relay processes
    life,          \* of the process
    pc,            \* where processBatch / publishEvent stands
    todo,          \* claimed rows publishEvent has not been called for
    cur,           \* the row publishEvent is working on
    \* Kafka
    copies         \* how often the topic holds the event

row  == <<status, owner, lease, attempts>>
mem  == <<pc, todo, cur>>
vars == <<status, owner, lease, attempts, life, pc, todo, cur, copies>>

Statuses == {"ABSENT", "PENDING", "PROCESSING", "PUBLISHED", "FAILED"}
Leases   == {"null", "valid", "expired"}
Lives    == {"new", "running", "stopping", "disconnected", "dead"}
Points   == {"idle", "claiming", "publishing", "marking", "failing"}

\* Columns, processes and counters hold values of their declared kinds.
TypeOK ==
    /\ status   \in [Events -> Statuses]
    /\ owner    \in [Events -> Workers \cup {None}]
    /\ lease    \in [Events -> Leases]
    /\ attempts \in [Events -> 0 .. MaxAttempts]
    /\ life     \in [Workers -> Lives]
    /\ pc       \in [Workers -> Points]
    /\ todo     \in [Workers -> SUBSET Events]
    /\ cur      \in [Workers -> Events \cup {None}]
    /\ copies   \in [Events -> Nat]

Init ==
    /\ status   = [e \in Events |-> "ABSENT"]
    /\ owner    = [e \in Events |-> None]
    /\ lease    = [e \in Events |-> "null"]
    /\ attempts = [e \in Events |-> 0]
    /\ life     = [w \in Workers |-> "new"]
    /\ pc       = [w \in Workers |-> "idle"]
    /\ todo     = [w \in Workers |-> {}]
    /\ cur      = [w \in Workers |-> None]
    /\ copies   = [e \in Events |-> 0]

-----------------------------------------------------------------------------
(* OrderService *)

\* createOrder commits: insertOrder and insertOutboxEvent in one transaction.
\* The trigger() that follows is one of the occasions on which a relay polls.
CreateOrder(e) ==
    /\ status[e] = "ABSENT"
    /\ status' = [status EXCEPT ![e] = "PENDING"]
    /\ UNCHANGED <<owner, lease, attempts, life, pc, todo, cur, copies>>

-----------------------------------------------------------------------------
(* The relay process *)

Start(w) ==
    /\ life[w] = "new"
    /\ life' = [life EXCEPT ![w] = "running"]
    /\ UNCHANGED <<row, mem, copies>>

\* stop(): no further poll; the batch in flight goes on.
Stop(w) ==
    /\ w \in Mortal
    /\ life[w] = "running"
    /\ life' = [life EXCEPT ![w] = "stopping"]
    /\ UNCHANGED <<row, mem, copies>>

\* producer.disconnect() takes effect: sends fail from here on.
Disconnect(w) ==
    /\ life[w] = "stopping"
    /\ life' = [life EXCEPT ![w] = "disconnected"]
    /\ UNCHANGED <<row, mem, copies>>

\* The process dies (a crash at any point, or process.exit after stop()).
Crash(w) ==
    /\ w \in Mortal
    /\ life[w] \in {"running", "stopping", "disconnected"}
    /\ life' = [life EXCEPT ![w] = "dead"]
    /\ pc'   = [pc EXCEPT ![w] = "idle"]
    /\ todo' = [todo EXCEPT ![w] = {}]
    /\ cur'  = [cur EXCEPT ![w] = None]
    /\ UNCHANGED <<row, copies>>

\* The poll timer or trigger() enters processBatch, unless it is already in.
Poll(w) ==
    /\ life[w] = "running"
    /\ pc[w] = "idle"
    /\ pc' = [pc EXCEPT ![w] = "claiming"]
    /\ UNCHANGED <<row, life, todo, cur, copies>>

-----------------------------------------------------------------------------
(* getPendingOutboxEvents *)

\* Variant: an off-by-one in the attempt bound.
Bug_ClaimableOnceMore(e) ==
    /\ \/ status[e] = "PENDING"
       \/ status[e] = "PROCESSING" /\ lease[e] \in {"null", "expired"}
    /\ attempts[e] <= MaxAttempts

\* Variant: expired leases are not recovered.
Bug_ClaimableNoRecovery(e) ==
    status[e] = "PENDING" /\ attempts[e] < MaxAttempts

\* The WHERE clause of the claim.
Claimable(e) ==
    /\ \/ status[e] = "PENDING"
       \/ status[e] = "PROCESSING" /\ lease[e] \in {"null", "expired"}
    /\ attempts[e] < MaxAttempts

\* Rows another worker's UPDATE holds locked; SKIP LOCKED passes over them.
BeingUpdated(w) ==
    {cur[v] : v \in {u \in Workers \ {w} : pc[u] \in {"marking", "failing"}
                                           /\ owner[cur[u]] = u}}

\* ORDER BY created_at LIMIT BatchSize.
Oldest(S) == {e \in S : Cardinality({d \in S : d < e}) < BatchSize}

\* Variant: a row taken over from another worker does not count an attempt.
Bug_TakeUncounted(w, S) ==
    /\ status'   = [e \in Events |-> IF e \in S THEN "PROCESSING" ELSE status[e]]
    /\ owner'    = [e \in Events |-> IF e \in S THEN w ELSE owner[e]]
    /\ lease'    = [e \in Events |-> IF e \in S THEN "valid" ELSE lease[e]]
    /\ attempts' = [e \in Events |-> IF e \in S /\ status[e] = "PENDING"
                                       THEN attempts[e] + 1 ELSE attempts[e]]

\* What the claim sets in the rows it takes.
Take(w, S) ==
    /\ status'   = [e \in Events |-> IF e \in S THEN "PROCESSING" ELSE status[e]]
    /\ owner'    = [e \in Events |-> IF e \in S THEN w ELSE owner[e]]
    /\ lease'    = [e \in Events |-> IF e \in S THEN "valid" ELSE lease[e]]
    /\ attempts' = [e \in Events |-> IF e \in S THEN attempts[e] + 1 ELSE attempts[e]]

\* The rows one execution of the claim may take.
ClaimSets(w) ==
    {Oldest({e \in Events : Claimable(e)} \ L) : L \in SUBSET BeingUpdated(w)}

\* The claim answers: processBatch loops over the rows (RETURNING promises no
\* order, so publishEvent takes them in any), or ends when there are none.
Claim(w) ==
    /\ pc[w] = "claiming"
    /\ \E S \in ClaimSets(w) :
          /\ Take(w, S)
          /\ todo' = [todo EXCEPT ![w] = S]
          /\ pc'   = [pc EXCEPT ![w] = IF S = {} THEN "idle" ELSE "publishing"]
    /\ UNCHANGED <<life, cur, copies>>

\* The claim throws, before it took effect or with its answer lost; finally
\* clears isProcessing and schedulePoll (or createOrder) logs the error.
ClaimError(w) ==
    /\ pc[w] = "claiming"
    /\ \E S \in ClaimSets(w) \cup {{}} : Take(w, S)
    /\ pc' = [pc EXCEPT ![w] = "idle"]
    /\ UNCHANGED <<life, todo, cur, copies>>

-----------------------------------------------------------------------------
(* publishEvent *)

\* Enter publishEvent for a claimed row, with the answer of producer.send.
Publish(w, e, next) ==
    /\ pc[w] = "publishing"
    /\ e \in todo[w]
    /\ todo' = [todo EXCEPT ![w] = @ \ {e}]
    /\ cur'  = [cur EXCEPT ![w] = e]
    /\ pc'   = [pc EXCEPT ![w] = next]
    /\ UNCHANGED <<row, life>>

SendOk(w, e) ==
    /\ life[w] \in {"running", "stopping"}
    /\ Publish(w, e, "marking")
    /\ copies' = [copies EXCEPT ![e] = @ + 1]

\* Variant: send is not awaited, its failure goes unnoticed.
Bug_SendNotAwaited(w, e) ==
    /\ Publish(w, e, "marking")
    /\ UNCHANGED copies

\* send throws; the broker may have stored the message all the same (never
\* once the producer is disconnected).
SendError(w, e) ==
    /\ Publish(w, e, "failing")
    /\ \/ UNCHANGED copies
       \/ /\ life[w] # "disconnected"
          /\ copies' = [copies EXCEPT ![e] = @ + 1]

\* publishEvent returns: the loop of processBatch goes on or ends.
NextEvent(w) ==
    /\ cur' = [cur EXCEPT ![w] = None]
    /\ pc'  = [pc EXCEPT ![w] = IF todo[w] = {} THEN "idle" ELSE "publishing"]
    /\ UNCHANGED todo

\* publishEvent throws: processBatch gives up the rest of its batch.
AbortBatch(w) ==
    /\ cur'  = [cur EXCEPT ![w] = None]
    /\ todo' = [todo EXCEPT ![w] = {}]
    /\ pc'   = [pc EXCEPT ![w] = "idle"]

\* Variants: the owner is not compared; the row is found by id alone.
Bug_FencedNoOwner(w, e) == status[e] = "PROCESSING"

Bug_FencedById(w, e) == status[e] # "ABSENT"

\* The fence of both mark queries: WHERE status = PROCESSING AND lease_owner = w.
Fenced(w, e) == status[e] = "PROCESSING" /\ owner[e] = w

\* The effect of a mark query that sets the status to s and drops the lease.
Release(w, e, s) ==
    /\ UNCHANGED attempts
    /\ IF Fenced(w, e)
         THEN /\ status' = [status EXCEPT ![e] = s]
              /\ owner'  = [owner EXCEPT ![e] = None]
              /\ lease'  = [lease EXCEPT ![e] = "null"]
         ELSE UNCHANGED <<status, owner, lease>>

\* markOutboxEventPublished answers; a fenced-out worker only logs.
MarkPublished(w) ==
    /\ pc[w] = "marking"
    /\ Release(w, cur[w], "PUBLISHED")
    /\ NextEvent(w)
    /\ UNCHANGED <<life, copies>>

\* markOutboxEventPublished throws, with or without effect: the catch clause
\* turns to markOutboxEventFailed although the message is in Kafka.
MarkPublishedError(w) ==
    /\ pc[w] = "marking"
    /\ Release(w, cur[w], "PUBLISHED") \/ UNCHANGED row
    /\ pc' = [pc EXCEPT ![w] = "failing"]
    /\ UNCHANGED <<life, todo, cur, copies>>

\* Variant: an off-by-one in the attempt bound.
Bug_AfterFailureLate(e) ==
    IF attempts[e] > MaxAttempts THEN "FAILED" ELSE "PENDING"

\* CASE WHEN attempts >= 10 THEN 'FAILED' ELSE 'PENDING' END.
AfterFailure(e) == IF attempts[e] >= MaxAttempts THEN "FAILED" ELSE "PENDING"

\* markOutboxEventFailed answers; a fenced-out worker only logs.
MarkFailed(w) ==
    /\ pc[w] = "failing"
    /\ Release(w, cur[w], AfterFailure(cur[w]))
    /\ NextEvent(w)
    /\ UNCHANGED <<life, copies>>

\* markOutboxEventFailed throws inside the catch clause, with or without effect.
MarkFailedError(w) ==
    /\ pc[w] = "failing"
    /\ Release(w, cur[w], AfterFailure(cur[w])) \/ UNCHANGED row
    /\ AbortBatch(w)
    /\ UNCHANGED <<life, copies>>

-----------------------------------------------------------------------------
(* The clock *)

\* lease_expires_at < CURRENT_TIMESTAMP becomes true.
LeaseExpire(e) ==
    /\ lease[e] = "valid"
    /\ lease' = [lease EXCEPT ![e] = "expired"]
    /\ UNCHANGED <<status, owner, attempts, life, mem, copies>>

-----------------------------------------------------------------------------
Step(w) ==
    \/ Start(w) \/ Stop(w) \/ Disconnect(w) \/ Crash(w) \/ Poll(w)
    \/ Claim(w) \/ ClaimError(w)
    \/ \E e \in Events : SendOk(w, e) \/ SendError(w, e)
    \/ MarkPublished(w) \/ MarkPublishedError(w)
    \/ MarkFailed(w) \/ MarkFailedError(w)

Next ==
    \/ \E e \in Events : CreateOrder(e) \/ LeaseExpire(e)
    \/ \E w \in Workers : Step(w)

Spec == Init /\ [][Next]_vars

\* What a relay that stays up goes on doing: its timer fires, its awaits end,
\* and a database that errs again and again still answers some claim.  A mark
\* query ends for every worker, at the latest when its process dies: it does
\* not keep its row locked for ever.
Fairness ==
    /\ \A w \in Workers \ Mortal :
          /\ WF_vars(Start(w))
          /\ WF_vars(Poll(w))
          /\ SF_vars(Claim(w))
          /\ WF_vars(\E e \in Events : SendOk(w, e) \/ SendError(w, e))
    /\ \A w \in Workers :
          /\ WF_vars(MarkPublished(w) \/ MarkPublishedError(w) \/ Crash(w))
          /\ WF_vars(MarkFailed(w) \/ MarkFailedError(w) \/ Crash(w))
    /\ \A e \in Events : WF_vars(LeaseExpire(e))

FairSpec == Spec /\ Fairness

-----------------------------------------------------------------------------
(* Properties *)

\* A row marked PUBLISHED (markOutboxEventPublished) is in Kafka: the mark only
\* follows a send the broker acknowledged, across crashes, stale workers and
\* lost answers.
PublishedIsDelivered ==
    \A e \in Events : status[e] = "PUBLISHED" => copies[e] > 0

\* Kafka never holds more copies of an event than the row was claimed: the
\* duplicates of at-least-once publication are bounded by the attempt counter,
\* whatever leases expire while workers still hold their batch.
CopiesWithinAttempts ==
    \A e \in Events : copies[e] <= attempts[e]

\* The two uses of the attempt bound agree: a row returned to PENDING can still
\* be claimed, and a row is FAILED only when its last attempt is used up.
PendingIsClaimable ==
    \A e \in Events : /\ status[e] = "PENDING" => attempts[e] < MaxAttempts
                      /\ status[e] = "FAILED"  => attempts[e] = MaxAttempts

\* A row changes hands only through its owner or after its lease expired: while
\* the lease is valid, a worker that lost an earlier lease cannot complete,
\* fail or take it (the STALE_WORKER_LOST_LEASE rejection).
NoStaleCompletion ==
    [][\A e \in Events :
          /\ status[e] = "PROCESSING" /\ owner'[e] # owner[e]
          /\ lease[e] = "valid"
          => LET w == owner[e]
             IN  cur[w] = e /\ pc[w] \in {"marking", "failing"} /\ pc'[w] # pc[w]]_vars

\* The outbox table and the topic seen through AtLeastOnce.
Accepted == {e \in Events : status[e] # "ABSENT"}
Outcome  == [e \in Events |-> IF status[e] = "PUBLISHED" THEN "published"
                             ELSE IF status[e] = "FAILED" THEN "failed" ELSE "open"]
ALO == INSTANCE AtLeastOnce WITH accepted <- Accepted, outcome <- Outcome

\* createOrder with the relay implements at-least-once publication: delivered
\* only after commit, confirmed only after delivery, PUBLISHED and FAILED never
\* reopened by a late mark or claim.
ImplementsAtLeastOnce == ALO!Spec

\* A row nobody will touch again: published, failed, or abandoned by a worker
\* that died or lost the database during the last attempt.
Exhausted(e) == status[e] = "PROCESSING" /\ attempts[e] = MaxAttempts
Settled(e) == status[e] \in {"PUBLISHED", "FAILED"} \/ Exhausted(e)

\* Every order's event is settled for good, as long as one relay stays up.
EventuallySettled ==
    \A e \in Events : status[e] # "ABSENT" ~> [](Settled(e))

\* A lease left behind by a crashed worker is taken over as long as an attempt
\* is left.
ExpiredLeaseReclaimed ==
    \A e \in Events :
        status[e] = "PROCESSING" /\ lease[e] = "expired" /\ attempts[e] < MaxAttempts
            ~> status[e] # "PROCESSING" \/ lease[e] = "valid"

\* docs/04_TRANSACTIONAL_OUTBOX.md, 4.2: "If a worker crashes mid-batch,
\* subsequent relay ticks automatically claim expired rows".
EveryExpiredLeaseReclaimed ==
    \A e \in Events :
        status[e] = "PROCESSING" /\ lease[e] = "expired"
            ~> status[e] # "PROCESSING" \/ lease[e] = "valid"

=============================================================================

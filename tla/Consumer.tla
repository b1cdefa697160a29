------------------------------ MODULE Consumer ------------------------------
(***************************************************************************)
(* BaseConsumer: what a consumer group does with one partition.  Instances *)
(* of the group take messages at-least-once, guard each event by its       *)
(* processed_events marker, retry, and divert what still fails to the dead *)
(* letter queue; EventReplayService.replayDLQ sends diverted events back.  *)
(*                                                                         *)
(* processEvent (the subclass) is an effect that is counted; which events  *)
(* it emits is the subject of Saga.                                        *)
(***************************************************************************)
EXTENDS Naturals, Sequences, FiniteSets

CONSTANTS
    Events,       \* well-formed events, by event_id
    Malformed,    \* a message that fails parsing or validation
    Instances,    \* members of the consumer group
    Replayers,    \* concurrent POST /dlq/:id/replay requests
    MaxRetries,   \* this.maxRetries (3 in the code)
    MaxLog,       \* bound on the messages of the partition
    MaxFaults,    \* bound on crashes, errors, rebalances and replays
    None

ASSUME MalformedAssumption == Malformed \notin Events
ASSUME BoundsAssumption ==
    MaxRetries \in Nat \ {0} /\ MaxLog \in Nat \ {0} /\ MaxFaults \in Nat
ASSUME NoneAssumption == None \notin Instances
ASSUME ProcessesAssumption == IsFiniteSet(Instances) /\ IsFiniteSet(Replayers)

VARIABLES
    \* Kafka
    log,         \* the partition
    committed,   \* offset of the group as its owner knows it
    stored,      \* ... and the broker has it: something was committed
    member,      \* the instance the partition is assigned to
    dlqTopic,    \* ids sent to platform.dlq
    \* instances
    pc,          \* where handleMessage stands
    pos,         \* messages taken by the instance
    attempt,
    dlqId,       \* the DLQ row being published
    \* database
    processed,   \* processed_events of this consumer
    dlq,         \* dlq_messages with dlq_outbox, by id
    \* replay requests
    rpc, rid,
    \* observation
    effects,     \* times processEvent took effect
    done,        \* events whose processEvent returned normally
    dropped,     \* offsets whose DLQ transaction was lost
    skipped,     \* offsets passed over for want of a stored offset
    faults

kafka == <<log, committed, stored, member, dlqTopic>>
inst  == <<pc, pos, attempt, dlqId>>
db    == <<processed, dlq>>
rep   == <<rpc, rid>>
seen  == <<effects, done, dropped, skipped>>
vars  == <<kafka, inst, db, rep, seen, faults>>

Messages == Events \cup {Malformed}
Points   == {"idle", "check", "process", "mark", "exhausted", "dlqSend", "dlqMark"}
ReplayPoints == {"idle", "begin", "reset", "send", "resolve", "revert"}
DlqRow == [msg : Messages, offset : 1 .. MaxLog,
           status : {"UNRESOLVED", "REPLAYING", "REPLAYED"},
           outbox : {"PENDING", "PROCESSING", "PUBLISHED"}]

\* Offsets, markers, rows and request states hold values of their kinds.
TypeOK ==
    /\ log \in Seq(Messages) /\ Len(log) <= MaxLog
    /\ committed \in 0 .. Len(log) /\ stored \in BOOLEAN
    /\ member \in Instances \cup {None}
    /\ dlqTopic \subseteq 1 .. Len(dlq)
    /\ pc \in [Instances -> Points]
    /\ pos \in [Instances -> 0 .. Len(log)]
    /\ attempt \in [Instances -> 0 .. MaxRetries]
    /\ dlqId \in [Instances -> 0 .. Len(dlq)]
    /\ processed \in [Events -> {"none", "PROCESSED", "FAILED"}]
    /\ dlq \in Seq(DlqRow)
    /\ rpc \in [Replayers -> ReplayPoints]
    /\ rid \in [Replayers -> 0 .. Len(dlq)]
    /\ effects \in [Events -> Nat]
    /\ done \subseteq Events
    /\ dropped \subseteq 1 .. Len(log) /\ skipped \subseteq 1 .. Len(log)
    /\ faults \in 0 .. MaxFaults

Init ==
    /\ log = <<>> /\ committed = 0 /\ stored = FALSE /\ member = None /\ dlqTopic = {}
    /\ pc      = [i \in Instances |-> "idle"]
    /\ pos     = [i \in Instances |-> 0]
    /\ attempt = [i \in Instances |-> 0]
    /\ dlqId   = [i \in Instances |-> 0]
    /\ processed = [e \in Events |-> "none"]
    /\ dlq = <<>>
    /\ rpc = [r \in Replayers |-> "idle"]
    /\ rid = [r \in Replayers |-> 0]
    /\ effects = [e \in Events |-> 0]
    /\ done = {} /\ dropped = {} /\ skipped = {} /\ faults = 0

\* A fault happens; the bound makes faults finite in number.
Fault == faults < MaxFaults /\ faults' = faults + 1

-----------------------------------------------------------------------------
(* Kafka and the group *)

\* A producer appends a message; the relay may append an event repeatedly.
Produce(m) ==
    /\ Len(log) < MaxLog
    /\ log' = Append(log, m)
    /\ UNCHANGED <<committed, stored, member, dlqTopic, inst, db, rep, seen, faults>>

\* The partition is assigned to i, which resumes at the stored offset or, as
\* it subscribes with fromBeginning: false, at the end of the log.
Assign(i) ==
    LET from == IF stored THEN committed ELSE Len(log) IN
    /\ pc[i] = "idle"
    /\ member' = i
    /\ committed' = from
    /\ skipped' = skipped \cup committed + 1 .. from
    /\ pos' = [pos EXCEPT ![i] = from]
    /\ UNCHANGED <<log, stored, dlqTopic, pc, attempt, dlqId, db, rep, effects, done, dropped>>

\* start(): i joins and nobody owns the partition.
Join(i) == member = None /\ Assign(i) /\ UNCHANGED faults

\* A rebalance takes the partition from another instance, which goes on with
\* the message in its hands.
Rebalance(i) == member \notin {None, i} /\ Fault /\ Assign(i)

\* Auto-commit of the offsets the owner has resolved.
Commit(i) ==
    /\ member = i
    /\ committed < pos[i]
    /\ committed' = pos[i]
    /\ stored' = TRUE
    /\ UNCHANGED <<log, member, dlqTopic, inst, db, rep, seen, faults>>

\* The process dies, or stop() cuts handleMessage off, and leaves the group.
Crash(i) ==
    /\ Fault
    /\ member = i \/ pc[i] # "idle"
    /\ member'  = IF member = i THEN None ELSE member
    /\ pc'      = [pc EXCEPT ![i] = "idle"]
    /\ pos'     = [pos EXCEPT ![i] = 0]
    /\ attempt' = [attempt EXCEPT ![i] = 0]
    /\ dlqId'   = [dlqId EXCEPT ![i] = 0]
    /\ UNCHANGED <<log, committed, stored, dlqTopic, db, rep, seen>>

-----------------------------------------------------------------------------
(* handleMessage *)

Offset(i) == pos[i] + 1
Message(i) == log[Offset(i)]

\* Variant: a message that cannot be parsed throws out of handleMessage.
Bug_ReceivePoisonPill(i) ==
    /\ member = i
    /\ pc[i] = "idle"
    /\ pos[i] < Len(log)
    /\ pc' = [pc EXCEPT ![i] = IF Message(i) = Malformed THEN "idle" ELSE "check"]
    /\ attempt' = [attempt EXCEPT ![i] = 0]
    /\ UNCHANGED <<kafka, pos, dlqId, db, rep, seen, faults>>

\* handleMessage is called with the next message; a malformed one goes
\* straight to the DLQ.
Receive(i) ==
    /\ member = i
    /\ pc[i] = "idle"
    /\ pos[i] < Len(log)
    /\ pc' = [pc EXCEPT ![i] = IF Message(i) = Malformed THEN "exhausted" ELSE "check"]
    /\ attempt' = [attempt EXCEPT ![i] = 0]
    /\ UNCHANGED <<kafka, pos, dlqId, db, rep, seen, faults>>

\* handleMessage returns and the offset counts as resolved.
Return(i) ==
    /\ pc'  = [pc EXCEPT ![i] = "idle"]
    /\ pos' = [pos EXCEPT ![i] = @ + 1]
    /\ dlqId' = [dlqId EXCEPT ![i] = 0]
    /\ UNCHANGED attempt

\* Variants: no marker is found; a FAILED marker counts as processed.
Bug_AlreadyProcessedNever(e) == FALSE

Bug_AlreadyProcessedAny(e) == processed[e] # "none"

\* isEventProcessed.
AlreadyProcessed(e) == processed[e] = "PROCESSED"

CheckProcessed(i) ==
    /\ pc[i] = "check"
    /\ IF AlreadyProcessed(Message(i))
         THEN Return(i)
         ELSE pc' = [pc EXCEPT ![i] = "process"] /\ UNCHANGED <<pos, attempt, dlqId>>
    /\ UNCHANGED <<kafka, db, rep, seen, faults>>

\* isEventProcessed throws out of handleMessage: the message comes again.
CheckError(i) ==
    /\ pc[i] = "check"
    /\ Fault
    /\ pc' = [pc EXCEPT ![i] = "idle"]
    /\ UNCHANGED <<kafka, pos, attempt, dlqId, db, rep, seen>>

\* Variant: an off-by-one in the retry bound.
Bug_FailedOnceMore(i) ==
    /\ attempt' = [attempt EXCEPT ![i] = @ + 1]
    /\ pc' = [pc EXCEPT ![i] = IF attempt[i] < MaxRetries THEN "process" ELSE "exhausted"]
    /\ UNCHANGED <<pos, dlqId>>

\* The catch clause of the retry loop: try again or give up.
Failed(i) ==
    /\ attempt' = [attempt EXCEPT ![i] = @ + 1]
    /\ pc' = [pc EXCEPT ![i] = IF attempt[i] + 1 < MaxRetries THEN "process" ELSE "exhausted"]
    /\ UNCHANGED <<pos, dlqId>>

ProcessOk(i) ==
    /\ pc[i] = "process"
    /\ effects' = [effects EXCEPT ![Message(i)] = @ + 1]
    /\ done' = done \cup {Message(i)}
    /\ pc' = [pc EXCEPT ![i] = "mark"]
    /\ UNCHANGED <<kafka, pos, attempt, dlqId, db, rep, dropped, skipped, faults>>

\* processEvent throws before it did anything.
ProcessThrows(i) ==
    /\ pc[i] = "process"
    /\ Failed(i)
    /\ UNCHANGED <<kafka, db, rep, seen, faults>>

\* processEvent throws after an effect (an emit whose answer was lost).
ProcessThrowsLate(i) ==
    /\ pc[i] = "process"
    /\ Fault
    /\ effects' = [effects EXCEPT ![Message(i)] = @ + 1]
    /\ Failed(i)
    /\ UNCHANGED <<kafka, db, rep, done, dropped, skipped>>

\* markEventProcessed PROCESSED is an unconditional upsert.
MarkProcessed(i) ==
    /\ pc[i] = "mark"
    /\ processed' = [processed EXCEPT ![Message(i)] = "PROCESSED"]
    /\ Return(i)
    /\ UNCHANGED <<kafka, dlq, rep, seen, faults>>

\* markEventProcessed throws, with or without effect; it stands inside the
\* try, so processEvent is run again.
MarkError(i) ==
    /\ pc[i] = "mark"
    /\ Fault
    /\ \/ UNCHANGED processed
       \/ processed' = [processed EXCEPT ![Message(i)] = "PROCESSED"]
    /\ Failed(i)
    /\ UNCHANGED <<kafka, dlq, rep, seen>>

-----------------------------------------------------------------------------
(* handleExhaustedRetriesDLQ, handleNonRetryableDLQ *)

\* The row both handlers insert, under a fresh id, with its dlq_outbox entry.
NewRow(i) == [msg |-> Message(i), offset |-> Offset(i),
              status |-> "UNRESOLVED", outbox |-> "PENDING"]

\* The transaction commits: DLQ row, dlq_outbox entry and, for a well-formed
\* event, its FAILED marker.
DlqPersist(i) ==
    /\ pc[i] = "exhausted"
    /\ dlq' = Append(dlq, NewRow(i))
    /\ processed' = IF Message(i) = Malformed THEN processed
                    ELSE [processed EXCEPT ![Message(i)] = "FAILED"]
    /\ dlqId' = [dlqId EXCEPT ![i] = Len(dlq) + 1]
    /\ pc' = [pc EXCEPT ![i] = "dlqSend"]
    /\ UNCHANGED <<kafka, pos, attempt, rep, seen, faults>>

\* The transaction is rolled back; the error is logged and handleMessage
\* returns as if the message had been dealt with.  (A commit whose answer is
\* lost skips the send as DlqSendError does.)
DlqPersistError(i) ==
    /\ pc[i] = "exhausted"
    /\ Fault
    /\ dropped' = dropped \cup {Offset(i)}
    /\ Return(i)
    /\ UNCHANGED <<kafka, db, rep, effects, done, skipped>>

DlqSend(i) ==
    /\ pc[i] = "dlqSend"
    /\ dlqTopic' = dlqTopic \cup {dlqId[i]}
    /\ pc' = [pc EXCEPT ![i] = "dlqMark"]
    /\ UNCHANGED <<log, committed, stored, member, pos, attempt, dlqId, db, rep, seen, faults>>

\* send throws (the broker may have the message); logged, nothing retries it.
DlqSendError(i) ==
    /\ pc[i] = "dlqSend"
    /\ Fault
    /\ dlqTopic' \in {dlqTopic, dlqTopic \cup {dlqId[i]}}
    /\ Return(i)
    /\ UNCHANGED <<log, committed, stored, member, db, rep, seen>>

\* markDLQOutboxPublished: WHERE status = PROCESSING (and lease_owner is the
\* consumer, a column only a claimed row has).
MarkOutbox(d) ==
    IF dlq[d].outbox = "PROCESSING" THEN dlq' = [dlq EXCEPT ![d].outbox = "PUBLISHED"]
                                    ELSE UNCHANGED dlq

\* The row is marked, or the mark throws and is logged; either way
\* handleMessage returns.
DlqMark(i) ==
    /\ pc[i] = "dlqMark"
    /\ MarkOutbox(dlqId[i])
    /\ Return(i)
    /\ UNCHANGED <<kafka, processed, rep, seen, faults>>

-----------------------------------------------------------------------------
(* EventReplayService.replayDLQ *)

SetStatus(d, s) == dlq' = [dlq EXCEPT ![d].status = s]

ReplayTo(r, p) == rpc' = [rpc EXCEPT ![r] = p] /\ UNCHANGED rid

\* getDLQMessage finds the row; no code sets DISCARDED.
ReplayStart(r, d) ==
    /\ rpc[r] = "idle"
    /\ Fault
    /\ rpc' = [rpc EXCEPT ![r] = "begin"]
    /\ rid' = [rid EXCEPT ![r] = d]
    /\ UNCHANGED <<kafka, inst, db, seen>>

\* Variant: the row is resolved before the event is sent.
Bug_ReplayBeginResolves(r) ==
    /\ rpc[r] = "begin"
    /\ SetStatus(rid[r], "REPLAYED")
    /\ ReplayTo(r, "reset")
    /\ UNCHANGED <<kafka, inst, processed, seen, faults>>

\* setDLQStatus REPLAYING.
ReplayBegin(r) ==
    /\ rpc[r] = "begin"
    /\ SetStatus(rid[r], "REPLAYING")
    /\ ReplayTo(r, "reset")
    /\ UNCHANGED <<kafka, inst, processed, seen, faults>>

\* resetProcessedEventForReplay deletes whatever marker there is.  A malformed
\* row has no original_event: reading its aggregate_id throws.
ReplayReset(r) ==
    LET m == dlq[rid[r]].msg IN
    /\ rpc[r] = "reset"
    /\ IF m = Malformed
         THEN ReplayTo(r, "revert") /\ UNCHANGED processed
         ELSE ReplayTo(r, "send") /\ processed' = [processed EXCEPT ![m] = "none"]
    /\ UNCHANGED <<kafka, inst, dlq, seen, faults>>

ReplaySend(r) ==
    /\ rpc[r] = "send"
    /\ Len(log) < MaxLog
    /\ log' = Append(log, dlq[rid[r]].msg)
    /\ ReplayTo(r, "resolve")
    /\ UNCHANGED <<committed, stored, member, dlqTopic, inst, db, seen, faults>>

\* markDLQResolved.
ReplayResolve(r) ==
    /\ rpc[r] = "resolve"
    /\ SetStatus(rid[r], "REPLAYED")
    /\ ReplayTo(r, "idle")
    /\ UNCHANGED <<kafka, inst, processed, seen, faults>>

\* A step of replayDLQ throws, with or without its effect.
ReplayError(r) ==
    /\ Fault
    /\ \/ /\ rpc[r] = "begin"
          /\ SetStatus(rid[r], "REPLAYING") \/ UNCHANGED dlq
          /\ UNCHANGED <<log, processed>>
       \/ /\ rpc[r] = "reset" /\ dlq[rid[r]].msg # Malformed
          /\ \/ processed' = [processed EXCEPT ![dlq[rid[r]].msg] = "none"]
             \/ UNCHANGED processed
          /\ UNCHANGED <<log, dlq>>
       \/ /\ rpc[r] = "send"
          /\ \/ Len(log) < MaxLog /\ log' = Append(log, dlq[rid[r]].msg)
             \/ UNCHANGED log
          /\ UNCHANGED db
       \/ /\ rpc[r] = "resolve"
          /\ SetStatus(rid[r], "REPLAYED") \/ UNCHANGED dlq
          /\ UNCHANGED <<log, processed>>
    /\ ReplayTo(r, "revert")
    /\ UNCHANGED <<committed, stored, member, dlqTopic, inst, seen>>

\* The catch clause: status back to UNRESOLVED, an error of that ignored.
ReplayRevert(r) ==
    /\ rpc[r] = "revert"
    /\ \/ SetStatus(rid[r], "UNRESOLVED") /\ UNCHANGED faults
       \/ UNCHANGED dlq /\ Fault
    /\ ReplayTo(r, "idle")
    /\ UNCHANGED <<kafka, inst, processed, seen>>

\* The API process dies in the middle of replayDLQ.
ReplayCrash(r) ==
    /\ rpc[r] # "idle"
    /\ Fault
    /\ ReplayTo(r, "idle")
    /\ UNCHANGED <<kafka, inst, db, seen>>

-----------------------------------------------------------------------------
Handle(i) ==
    \/ Receive(i) \/ CheckProcessed(i) \/ ProcessOk(i) \/ ProcessThrows(i)
    \/ MarkProcessed(i) \/ DlqPersist(i) \/ DlqSend(i) \/ DlqMark(i)

HandleFault(i) ==
    \/ CheckError(i) \/ ProcessThrowsLate(i) \/ MarkError(i)
    \/ DlqPersistError(i) \/ DlqSendError(i)

Replay(r) ==
    \/ ReplayBegin(r) \/ ReplayReset(r) \/ ReplaySend(r)
    \/ ReplayResolve(r) \/ ReplayRevert(r)

Next ==
    \/ \E m \in Messages : Produce(m)
    \/ \E i \in Instances : Join(i) \/ Rebalance(i) \/ Commit(i) \/ Crash(i)
    \/ \E i \in Instances : Handle(i) \/ HandleFault(i)
    \/ \E r \in Replayers : \E d \in 1 .. Len(dlq) : ReplayStart(r, d)
    \/ \E r \in Replayers : Replay(r) \/ ReplayError(r) \/ ReplayCrash(r)

Spec == Init /\ [][Next]_vars

Progress ==
    \/ \E i \in Instances : Join(i) \/ Handle(i) \/ Commit(i)
    \/ \E r \in Replayers : Replay(r)

\* Awaits end, the group keeps a member for the partition and auto-commit
\* runs.  Faults are finite in number (MaxFaults) and so is the rest of the
\* work, so it is enough that the group never stands still with work left.
Fairness == WF_vars(Progress)

FairSpec == Spec /\ Fairness

-----------------------------------------------------------------------------
(* Properties *)

InDlq(p) == \E d \in 1 .. Len(dlq) : dlq[d].offset = p
Completed(p) == log[p] \in done

\* A message the group is past was processed, or is in the DLQ under its own
\* offset, or its DLQ transaction failed and the error was swallowed, or it came
\* before the group's first commit: redelivery, retries, rebalances, crashes and
\* replays lose nothing else.
LossesAccounted ==
    \A p \in 1 .. committed : Completed(p) \/ InDlq(p) \/ p \in dropped \cup skipped

\* docs/RED_TEAM_AUDIT.md: the DLQ message is "durably persisted ... before the
\* Kafka offset is committed".
NothingLost ==
    \A p \in 1 .. committed : Completed(p) \/ InDlq(p) \/ p \in skipped

\* The processed_events marker absorbs duplicate messages: processEvent takes
\* effect more than once only if something went wrong in between (a crash, a
\* rebalance, an error after the effect) or somebody asked for a replay.
DuplicatesNeedFaults ==
    \A e \in Events : effects[e] <= 1 + faults

\* replayDLQ reports REPLAYED only for an event that is back in its topic,
\* behind the offset it failed at, also when replays of one row overlap.
ReplayedIsResent ==
    \A d \in 1 .. Len(dlq) :
        dlq[d].status = "REPLAYED" =>
            \E p \in 1 .. Len(log) : p > dlq[d].offset /\ log[p] = dlq[d].msg

\* No message blocks its partition, malformed and failing ones included: the
\* group gets past each of them.
EveryMessageHandled ==
    \A p \in 1 .. MaxLog : Len(log) >= p ~> committed >= p

\* src/consumers/base-consumer.ts: "If Kafka publish fails, DLQ outbox
\* guarantees retry without data loss".
DlqEventuallyPublished ==
    \A d \in 1 .. MaxLog : Len(dlq) >= d ~> d \in dlqTopic

=============================================================================

--------------------------- MODULE ConsumerProofs ---------------------------
(***************************************************************************)
(* Proofs about Consumer for every set of events, all finite sets of group *)
(* members and of replay requests, and every value of the bounds.          *)
(***************************************************************************)
EXTENDS Consumer, FiniteSetTheorems, TLAPS

\* handleMessage works on a message of the log, runs processEvent on a
\* well-formed one only and at most MaxRetries times, and publishes a row that
\* exists and is the one of its message.
OnCourse(i) ==
    /\ pc[i] # "idle" => pos[i] < Len(log)
    /\ pc[i] \in {"check", "process", "mark"} => Message(i) \in Events
    /\ pc[i] = "check" => attempt[i] = 0
    /\ pc[i] \in {"process", "mark"} => attempt[i] < MaxRetries
    /\ pc[i] \in {"dlqSend", "dlqMark"} =>
         dlqId[i] \in 1 .. Len(dlq) /\ dlq[dlqId[i]].offset = Offset(i)
HandlersOnCourse == \A i \in Instances : OnCourse(i)

\* A replay request works on a row that exists.
ReplaysOnCourse ==
    \A r \in Replayers : rpc[r] # "idle" => rid[r] \in 1 .. Len(dlq)

\* What LossesAccounted says of the committed offsets holds of one offset.
Accounted(p) == Completed(p) \/ InDlq(p) \/ p \in dropped \cup skipped

\* Everything the owner has returned from is accounted for, not only what it
\* has committed; a marker and a pending mark speak of a processEvent that
\* returned.
ProgressAccounted ==
    /\ \A i \in Instances : member = i => \A p \in 1 .. pos[i] : Accounted(p)
    /\ \A i \in Instances : pc[i] = "mark" => Message(i) \in done
    /\ \A e \in Events : processed[e] = "PROCESSED" => e \in done

\* A row's message is in the log behind the row's offset again.
Resent(d) == \E p \in 1 .. Len(log) : p > dlq[d].offset /\ log[p] = dlq[d].msg

\* Rows are about messages of the log, and a request only resolves a row once
\* its event is sent.
ResendBeforeResolve ==
    /\ \A d \in 1 .. Len(dlq) : dlq[d].offset <= Len(log)
    /\ \A r \in Replayers : rpc[r] = "resolve" => Resent(rid[r])

\* The owner of the partition stands at one of the points P with event e.
OwnerAt(P, e) ==
    \E i \in Instances : member = i /\ pc[i] \in P /\ log[Offset(i)] = e

\* 1 if the owner, now or at a later delivery of e, may still apply e without
\* another fault, 0 if it has applied e or will find the marker.
Due(e) ==
    IF OwnerAt({"mark"}, e) THEN 0
    ELSE IF OwnerAt({"process", "exhausted"}, e) \/ processed[e] # "PROCESSED" THEN 1
    ELSE 0

\* Instances that lost the partition but may still apply e, or take its marker
\* away, with the message in their hands.
Late(e) ==
    {i \in Instances : /\ member # i
                       /\ pc[i] \in {"check", "process", "exhausted"}
                       /\ log[Offset(i)] = e}

\* Replay requests that may still take the marker of e away.
Reopening(e) ==
    {r \in Replayers : rpc[r] \in {"begin", "reset"} /\ dlq[rid[r]].msg = e}

\* The faults so far pay for the effects of e, but for the first, together with
\* the effects that are still to come without another fault.
FaultsPayForEffects ==
    \A e \in Events :
        effects[e] + Due(e) + Cardinality(Late(e)) + Cardinality(Reopening(e)) <= 1 + faults

\* The inductive invariant: types and courses, then one part for each property,
\* which needs only the types besides itself.
Typed   == TypeOK /\ HandlersOnCourse /\ ReplaysOnCourse
Losses  == LossesAccounted /\ ProgressAccounted
Replays == ReplayedIsResent /\ ResendBeforeResolve
Inv     == Typed /\ Losses /\ Replays /\ FaultsPayForEffects

-----------------------------------------------------------------------------
(* What a step does to the log and to the dead letters *)

\* Log and dead letters only ever get longer: what was written keeps its place.
Grows ==
    /\ log' \in Seq(Messages) /\ Len(log') \in Len(log) .. MaxLog
    /\ \A p \in 1 .. Len(log) : log'[p] = log[p]
    /\ dlq' \in Seq(DlqRow) /\ Len(dlq) <= Len(dlq')
    /\ \A d \in 1 .. Len(dlq) :
         dlq'[d].msg = dlq[d].msg /\ dlq'[d].offset = dlq[d].offset

\* A row is about a message.
LEMMA RowMessage ==
    ASSUME TypeOK, NEW d \in 1 .. Len(dlq)
    PROVE  dlq[d].msg \in Messages /\ dlq[d].offset \in 1 .. MaxLog
<1>1. dlq[d] \in DlqRow
  BY DEF TypeOK
<1>2. QED
  BY <1>1 DEF DlqRow

\* A step that writes neither.
LEMMA NothingWritten ==
    ASSUME TypeOK, UNCHANGED <<log, dlq>>
    PROVE  Grows
BY BoundsAssumption DEF TypeOK, Grows

\* A message is appended to the log (Produce, replayDLQ).
LEMMA MessageAppended ==
    ASSUME TypeOK, NEW m \in Messages, Len(log) < MaxLog,
           log' = Append(log, m), UNCHANGED dlq
    PROVE  Grows
BY BoundsAssumption DEF TypeOK, Grows

\* setDLQStatus and markDLQOutboxPublished rewrite a column of a row.
LEMMA RowUpdated ==
    ASSUME TypeOK, NEW d \in 1 .. Len(dlq), UNCHANGED log,
           \/ \E s \in {"UNRESOLVED", "REPLAYING", "REPLAYED"} : SetStatus(d, s)
           \/ MarkOutbox(d)
    PROVE  Grows /\ Len(dlq') = Len(dlq)
<1>1. dlq \in Seq(DlqRow) /\ dlq[d] \in DlqRow
  BY DEF TypeOK
<1>2. PICK row \in DlqRow :
         /\ dlq' = [dlq EXCEPT ![d] = row]
         /\ row.msg = dlq[d].msg /\ row.offset = dlq[d].offset
  BY <1>1 DEF SetStatus, MarkOutbox, DlqRow
<1>3. QED
  BY <1>1, <1>2, BoundsAssumption DEF TypeOK, Grows

\* Both DLQ handlers append the row of their message.
LEMMA RowAppended ==
    ASSUME Typed, NEW i \in Instances, DlqPersist(i)
    PROVE  /\ Grows
           /\ Len(dlq') = Len(dlq) + 1
           /\ dlq'[Len(dlq) + 1] = NewRow(i)
<1>1. pos[i] \in Nat /\ pos[i] < Len(log)
  BY DEF Typed, TypeOK, HandlersOnCourse, OnCourse, DlqPersist
<1>2. Message(i) \in Messages /\ Offset(i) \in 1 .. MaxLog
  BY <1>1, BoundsAssumption DEF Typed, TypeOK, Offset, Message
<1>3. NewRow(i) \in DlqRow
  BY <1>2 DEF NewRow, DlqRow
<1>4. QED
  BY <1>3, BoundsAssumption DEF Typed, TypeOK, Grows, DlqPersist, kafka

\* Every step leaves what was written in its place.
LEMMA HistoriesGrow ==
    ASSUME Typed, [Next]_vars
    PROVE  Grows
<1> USE DEF kafka, inst, db, rep, seen
<1>1. CASE UNCHANGED <<log, dlq>>
  BY <1>1, NothingWritten DEF Typed
<1>2. ASSUME NEW m \in Messages, Produce(m) PROVE Grows
  BY <1>2, MessageAppended DEF Typed, Produce
<1>3. ASSUME NEW i \in Instances, DlqPersist(i) PROVE Grows
  BY <1>3, RowAppended
<1>4. ASSUME NEW i \in Instances, DlqMark(i) PROVE Grows
  BY <1>4, RowUpdated DEF Typed, HandlersOnCourse, OnCourse, DlqMark
<1>5. ASSUME NEW r \in Replayers, ReplayBegin(r) \/ ReplayResolve(r) \/ ReplayRevert(r)
      PROVE  Grows
  <2>1. rid[r] \in 1 .. Len(dlq)
    BY <1>5 DEF Typed, ReplaysOnCourse, ReplayBegin, ReplayResolve, ReplayRevert
  <2>2. QED
    BY <1>5, <2>1, RowUpdated, NothingWritten
       DEF Typed, ReplayBegin, ReplayResolve, ReplayRevert
<1>6. ASSUME NEW r \in Replayers, ReplaySend(r) PROVE Grows
  <2>1. dlq[rid[r]].msg \in Messages
    BY <1>6, RowMessage DEF Typed, ReplaysOnCourse, ReplaySend
  <2>2. QED
    BY <1>6, <2>1, MessageAppended DEF Typed, ReplaySend
<1>7. ASSUME NEW r \in Replayers, ReplayError(r) PROVE Grows
  <2>1. rid[r] \in 1 .. Len(dlq) /\ dlq[rid[r]].msg \in Messages
    BY <1>7, RowMessage DEF Typed, ReplaysOnCourse, ReplayError
  <2>2. QED
    BY <1>7, <2>1, MessageAppended, RowUpdated, NothingWritten DEF Typed, ReplayError
<1>8. QED
  BY <1>1, <1>2, <1>3, <1>4, <1>5, <1>6, <1>7
     DEF Next, Handle, HandleFault, Replay, vars,
         Join, Rebalance, Assign, Commit, Crash, Receive, CheckProcessed, CheckError,
         ProcessOk, ProcessThrows, ProcessThrowsLate, MarkProcessed, MarkError,
         DlqPersistError, DlqSend, DlqSendError, ReplayStart, ReplayReset, ReplayCrash

-----------------------------------------------------------------------------
(* Types and courses *)

\* TypeOK by the parts a step writes together.
LogTypes ==
    /\ log \in Seq(Messages) /\ Len(log) <= MaxLog
    /\ committed \in 0 .. Len(log) /\ stored \in BOOLEAN
    /\ member \in Instances \cup {None}
    /\ dropped \subseteq 1 .. Len(log) /\ skipped \subseteq 1 .. Len(log)
DlqTypes == dlq \in Seq(DlqRow) /\ dlqTopic \subseteq 1 .. Len(dlq)
InstanceTypes ==
    /\ pc \in [Instances -> Points]
    /\ pos \in [Instances -> 0 .. Len(log)]
    /\ attempt \in [Instances -> 0 .. MaxRetries]
    /\ dlqId \in [Instances -> 0 .. Len(dlq)]
ReplayTypes ==
    rpc \in [Replayers -> ReplayPoints] /\ rid \in [Replayers -> 0 .. Len(dlq)]
EventTypes ==
    /\ processed \in [Events -> {"none", "PROCESSED", "FAILED"}]
    /\ effects \in [Events -> Nat]
    /\ done \subseteq Events
    /\ faults \in 0 .. MaxFaults

\* The parts make up TypeOK.
LEMMA TypeParts ==
    TypeOK <=> LogTypes /\ DlqTypes /\ InstanceTypes /\ ReplayTypes /\ EventTypes
BY DEF TypeOK, LogTypes, DlqTypes, InstanceTypes, ReplayTypes, EventTypes

\* An instance that does not move stays on course.
LEMMA StaysOnCourse ==
    ASSUME Typed, Grows, NEW i \in Instances,
           UNCHANGED <<pc[i], pos[i], attempt[i], dlqId[i]>>
    PROVE  OnCourse(i)'
<1>1. OnCourse(i) /\ pos[i] \in Nat /\ Len(log) \in Nat /\ Len(dlq) \in Nat
  BY DEF Typed, TypeOK, HandlersOnCourse
<1>2. pos[i] < Len(log) => log'[pos[i] + 1] = log[pos[i] + 1] /\ pos[i] < Len(log')
  <2>1. pos[i] < Len(log) => pos[i] + 1 \in 1 .. Len(log)
    BY <1>1
  <2>2. QED
    BY <1>1, <2>1 DEF Grows
<1>3. dlqId[i] \in 1 .. Len(dlq) =>
        dlqId[i] \in 1 .. Len(dlq') /\ dlq'[dlqId[i]].offset = dlq[dlqId[i]].offset
  BY <1>1 DEF Grows
<1>4. QED
  BY <1>1, <1>2, <1>3 DEF OnCourse, Offset, Message

\* Where a step may take an instance.
LEMMA InstanceMoves ==
    ASSUME Typed, Grows, NEW i \in Instances, InstanceTypes', OnCourse(i)',
           \A j \in Instances \ {i} : UNCHANGED <<pc[j], pos[j], attempt[j], dlqId[j]>>
    PROVE  InstanceTypes' /\ HandlersOnCourse'
BY StaysOnCourse DEF HandlersOnCourse

\* The steps of an instance keep it and the others on course.
LEMMA InstancesStep ==
    ASSUME Typed, [Next]_vars
    PROVE  InstanceTypes' /\ HandlersOnCourse'
<1> USE DEF kafka, inst, db, rep, seen
<1>g. Grows
  BY HistoriesGrow
<1>a. ASSUME NEW i \in Instances
      PROVE  /\ pc \in [Instances -> Points]
             /\ pos \in [Instances -> 0 .. Len(log')]
             /\ attempt \in [Instances -> 0 .. MaxRetries]
             /\ dlqId \in [Instances -> 0 .. Len(dlq')]
             /\ pc[i] # "idle" => /\ pos[i] < Len(log') /\ pos[i] + 1 \in 1 .. Len(log)
                                  /\ log'[pos[i] + 1] = Message(i)
             /\ OnCourse(i)
  <2>1. InstanceTypes /\ OnCourse(i)
    BY TypeParts DEF Typed, HandlersOnCourse
  <2>2. Len(log) \in Nat /\ Len(dlq) \in Nat /\ Len(log') \in Nat /\ Len(dlq') \in Nat
    BY <1>g DEF Grows, Typed, TypeOK
  <2>3. QED
    BY <1>g, <2>1, <2>2 DEF InstanceTypes, OnCourse, Grows, Offset, Message
<1>2. CASE UNCHANGED inst
  <2>1. InstanceTypes'
    BY <1>g, <1>2, TypeParts DEF InstanceTypes, Grows, Typed, TypeOK
  <2>2. HandlersOnCourse'
    BY <1>g, <1>2, StaysOnCourse DEF HandlersOnCourse
  <2>3. QED
    BY <2>1, <2>2
<1>3. ASSUME NEW i \in Instances, Assign(i) PROVE InstanceTypes' /\ HandlersOnCourse'
  <2>1. (IF stored THEN committed ELSE Len(log)) \in 0 .. Len(log')
    BY <1>g, <1>3 DEF Grows, Typed, TypeOK
  <2>2. InstanceTypes' /\ OnCourse(i)'
    BY <1>3, <1>a, <2>1 DEF Assign, InstanceTypes, OnCourse
  <2>3. QED
    BY <1>3, <1>g, <1>a, <2>2, InstanceMoves DEF Assign
<1>4. ASSUME NEW i \in Instances, Crash(i) PROVE InstanceTypes' /\ HandlersOnCourse'
  <2>1. Len(log') \in Nat /\ Len(dlq') \in Nat
    BY <1>g DEF Grows
  <2>2. InstanceTypes' /\ OnCourse(i)'
    BY <1>4, <1>a, <2>1, BoundsAssumption DEF Crash, Points, InstanceTypes, OnCourse
  <2>3. QED
    BY <1>4, <1>g, <1>a, <2>2, InstanceMoves DEF Crash
<1>5. ASSUME NEW i \in Instances, Receive(i) PROVE InstanceTypes' /\ HandlersOnCourse'
  <2>1. pos[i] \in Nat /\ Len(log) \in Nat /\ Message(i) \in Messages /\ log' = log
    BY <1>5 DEF Typed, TypeOK, Receive, Offset, Message
  <2>2. InstanceTypes' /\ OnCourse(i)'
    BY <1>5, <1>a, <2>1, BoundsAssumption
       DEF Receive, Points, InstanceTypes, OnCourse, Offset, Message, Messages
  <2>3. QED
    BY <1>5, <1>g, <1>a, <2>2, InstanceMoves DEF Receive
<1>6. ASSUME NEW i \in Instances, Return(i), pc[i] # "idle"
      PROVE  InstanceTypes' /\ HandlersOnCourse'
  <2>1. Len(log') \in Nat /\ Len(dlq') \in Nat /\ pos[i] \in Nat
    BY <1>g, <1>a DEF Grows
  <2>2. InstanceTypes' /\ OnCourse(i)'
    BY <1>6, <1>a, <2>1 DEF Return, Points, InstanceTypes, OnCourse
  <2>3. QED
    BY <1>6, <1>g, <1>a, <2>2, InstanceMoves DEF Return
<1>7. ASSUME NEW i \in Instances, Failed(i), pc[i] \in {"process", "mark"}
      PROVE  InstanceTypes' /\ HandlersOnCourse'
  <2>1. attempt[i] \in Nat /\ attempt[i] < MaxRetries
    BY <1>7, <1>a DEF OnCourse
  <2>2. InstanceTypes' /\ OnCourse(i)'
    BY <1>7, <1>a, <2>1, BoundsAssumption
       DEF Failed, Points, InstanceTypes, OnCourse, Offset, Message
  <2>3. QED
    BY <1>7, <1>g, <1>a, <2>2, InstanceMoves DEF Failed
<1>8. ASSUME NEW i \in Instances, NEW p \in Points, pc' = [pc EXCEPT ![i] = p],
             UNCHANGED <<pos, attempt, dlqId>>,
             <<pc[i], p>> \in {<<"check", "process">>, <<"check", "idle">>,
                               <<"process", "mark">>, <<"dlqSend", "dlqMark">>}
      PROVE  InstanceTypes' /\ HandlersOnCourse'
  <2>1. InstanceTypes'
    BY <1>8, <1>a DEF InstanceTypes
  <2>2. pc[i] # "idle" => log'[Offset(i)] = Message(i) /\ pos[i] < Len(log')
    BY <1>a DEF Offset
  <2>3. dlqId[i] \in 1 .. Len(dlq) =>
          dlqId[i] \in 1 .. Len(dlq') /\ dlq'[dlqId[i]].offset = dlq[dlqId[i]].offset
    BY <1>g DEF Grows, Typed, TypeOK
  <2>4. pc'[i] = p /\ pc[i] # "idle" /\ pos'[i] = pos[i]
    BY <1>8, <1>a
  <2>5. OnCourse(i)'
    BY <1>8, <1>a, <2>2, <2>3, <2>4, BoundsAssumption DEF OnCourse, Offset, Message
  <2>6. QED
    BY <1>8, <1>g, <1>a, <2>1, <2>5, InstanceMoves
<1>9. ASSUME NEW i \in Instances, CheckProcessed(i)
      PROVE  InstanceTypes' /\ HandlersOnCourse'
  BY <1>6, <1>8, <1>9 DEF CheckProcessed, Points
<1>10. ASSUME NEW i \in Instances, CheckError(i) \/ ProcessOk(i) \/ DlqSend(i)
       PROVE  InstanceTypes' /\ HandlersOnCourse'
  BY <1>8, <1>10 DEF CheckError, ProcessOk, DlqSend, Points
<1>11. ASSUME NEW i \in Instances, DlqPersist(i) PROVE InstanceTypes' /\ HandlersOnCourse'
  <2>1. Len(dlq) \in Nat
    BY DEF Typed, TypeOK
  <2>a. Len(dlq') = Len(dlq) + 1 /\ dlq'[Len(dlq) + 1] = NewRow(i)
    BY <1>11, RowAppended
  <2>2. Len(dlq') = Len(dlq) + 1 /\ dlq'[Len(dlq) + 1].offset = Offset(i)
    BY <2>a DEF NewRow
  <2>3. InstanceTypes' /\ OnCourse(i)'
    BY <1>11, <1>a, <2>1, <2>2 DEF DlqPersist, Points, InstanceTypes, OnCourse, Offset
  <2>4. QED
    BY <1>11, <1>g, <1>a, <2>3, InstanceMoves DEF DlqPersist
<1>12. QED
  BY <1>2, <1>3, <1>4, <1>5, <1>6, <1>7, <1>9, <1>10, <1>11
     DEF Next, Handle, HandleFault, Replay, vars, Produce,
         Join, Rebalance, Commit, ProcessThrows, ProcessThrowsLate, MarkProcessed, MarkError,
         DlqPersistError, DlqMark, DlqSendError, ReplayTo, ReplayStart, ReplayBegin, ReplayReset,
         ReplaySend, ReplayResolve, ReplayRevert, ReplayError, ReplayCrash

\* The steps of a replay request keep it at work on an existing row.
LEMMA ReplaysStep ==
    ASSUME Typed, [Next]_vars
    PROVE  ReplayTypes' /\ ReplaysOnCourse'
<1> USE DEF kafka, inst, db, rep, seen
<1>1. Grows
  BY HistoriesGrow
<1>2. Len(dlq) \in Nat /\ Len(dlq') \in Nat /\ ReplayTypes
  BY <1>1, TypeParts DEF Grows, Typed, TypeOK
<1>3. CASE UNCHANGED rep
  BY <1>1, <1>2, <1>3 DEF Grows, Typed, ReplayTypes, ReplaysOnCourse
<1>4. ASSUME NEW r \in Replayers, NEW p \in ReplayPoints, ReplayTo(r, p), rpc[r] # "idle"
      PROVE  ReplayTypes' /\ ReplaysOnCourse'
  BY <1>1, <1>2, <1>4 DEF Grows, Typed, ReplayTypes, ReplaysOnCourse, ReplayTo
<1>5. ASSUME NEW r \in Replayers, NEW d \in 1 .. Len(dlq), ReplayStart(r, d)
      PROVE  ReplayTypes' /\ ReplaysOnCourse'
  BY <1>1, <1>2, <1>5 DEF Grows, Typed, ReplayTypes, ReplaysOnCourse, ReplayStart, ReplayPoints
<1>6. ASSUME NEW r \in Replayers, Replay(r) \/ ReplayError(r) \/ ReplayCrash(r)
      PROVE  ReplayTypes' /\ ReplaysOnCourse'
  BY <1>4, <1>6 DEF Replay, ReplayBegin, ReplayReset, ReplaySend, ReplayResolve,
                    ReplayRevert, ReplayError, ReplayCrash, ReplayPoints
<1>7. QED
  BY <1>3, <1>5, <1>6
     DEF Next, Handle, HandleFault, vars, Produce, Join, Rebalance, Assign, Commit, Crash,
         Receive, CheckProcessed, CheckError, ProcessOk, ProcessThrows, ProcessThrowsLate,
         MarkProcessed, MarkError, DlqPersist, DlqPersistError, DlqSend, DlqSendError, DlqMark

\* Offsets stay within the log.
LEMMA LogStep ==
    ASSUME Typed, [Next]_vars
    PROVE  LogTypes'
<1> USE DEF kafka, inst, db, rep, seen
<1>1. Grows
  BY HistoriesGrow
<1>2. LogTypes /\ Len(log) \in Nat /\ Len(log') \in Nat
  BY <1>1, TypeParts DEF Grows, Typed, TypeOK
<1>3. log' \in Seq(Messages) /\ Len(log') <= MaxLog /\ Len(log) <= Len(log')
  BY <1>1, BoundsAssumption DEF Grows
<1>4. CASE UNCHANGED <<committed, stored, member, dropped, skipped>>
  BY <1>2, <1>3, <1>4 DEF LogTypes
<1>5. ASSUME NEW i \in Instances, Assign(i) PROVE LogTypes'
  <2> DEFINE from == IF stored THEN committed ELSE Len(log)
  <2>1. committed \in Nat /\ from \in 0 .. Len(log) /\ log' = log
    BY <1>2, <1>5 DEF Assign, LogTypes
  <2>2. committed' = from /\ skipped' = skipped \cup committed + 1 .. from
    BY <1>5 DEF Assign
  <2> HIDE DEF from
  <2>3. skipped' \subseteq 1 .. Len(log')
    BY <1>2, <2>1, <2>2 DEF LogTypes
  <2>4. QED
    BY <1>2, <1>3, <1>5, <2>1, <2>2, <2>3 DEF Assign, LogTypes
<1>6. ASSUME NEW i \in Instances, Commit(i) PROVE LogTypes'
  <2>1. pos[i] \in 0 .. Len(log)
    BY DEF Typed, TypeOK
  <2>2. QED
    BY <1>2, <1>3, <1>6, <2>1 DEF Commit, LogTypes
<1>7. ASSUME NEW i \in Instances, Crash(i) PROVE LogTypes'
  BY <1>2, <1>3, <1>7 DEF Crash, LogTypes
<1>8. ASSUME NEW i \in Instances, DlqPersistError(i) PROVE LogTypes'
  <2>1. pos[i] \in Nat /\ pos[i] < Len(log)
    BY <1>8 DEF Typed, TypeOK, HandlersOnCourse, OnCourse, DlqPersistError
  <2>2. Offset(i) \in 1 .. Len(log)
    BY <1>2, <2>1 DEF Offset
  <2>3. QED
    BY <1>2, <1>3, <1>8, <2>1, <2>2 DEF DlqPersistError, LogTypes
<1>9. QED
  BY <1>4, <1>5, <1>6, <1>7, <1>8
     DEF Next, Handle, HandleFault, Replay, vars, Produce, Join, Rebalance,
         Receive, CheckProcessed, CheckError, ProcessOk, ProcessThrows, ProcessThrowsLate,
         MarkProcessed, MarkError, DlqPersist, DlqSend, DlqSendError, DlqMark,
         ReplayStart, ReplayBegin, ReplayReset, ReplaySend, ReplayResolve, ReplayRevert,
         ReplayError, ReplayCrash

\* Only existing rows are published.
LEMMA DlqStep ==
    ASSUME Typed, [Next]_vars
    PROVE  DlqTypes'
<1> USE DEF kafka, inst, db, rep, seen
<1>1. Grows
  BY HistoriesGrow
<1>2. DlqTypes /\ Len(dlq) \in Nat /\ Len(dlq') \in Nat
  BY <1>1, TypeParts DEF Grows, Typed, TypeOK
<1>3. CASE UNCHANGED dlqTopic
  BY <1>1, <1>2, <1>3 DEF Grows, DlqTypes
<1>4. ASSUME NEW i \in Instances, pc[i] = "dlqSend",
             dlqTopic' \in {dlqTopic, dlqTopic \cup {dlqId[i]}}
      PROVE  DlqTypes'
  <2>1. dlqId[i] \in 1 .. Len(dlq)
    BY <1>4 DEF Typed, HandlersOnCourse, OnCourse
  <2>2. 1 .. Len(dlq) \subseteq 1 .. Len(dlq') /\ dlq' \in Seq(DlqRow)
    BY <1>1, <1>2 DEF Grows
  <2>3. QED
    BY <1>2, <1>4, <2>1, <2>2 DEF DlqTypes
<1>5. QED
  BY <1>3, <1>4
     DEF Next, Handle, HandleFault, Replay, vars, Produce, Join, Rebalance, Assign, Commit,
         Crash, Receive, CheckProcessed, CheckError, ProcessOk, ProcessThrows,
         ProcessThrowsLate, MarkProcessed, MarkError, DlqPersist, DlqPersistError, DlqSend,
         DlqSendError, DlqMark, ReplayStart, ReplayBegin, ReplayReset, ReplaySend,
         ReplayResolve, ReplayRevert, ReplayError, ReplayCrash

\* Markers, effects and faults.
LEMMA EventsStep ==
    ASSUME Typed, [Next]_vars
    PROVE  EventTypes'
<1> USE DEF kafka, inst, db, rep, seen
<1>1. EventTypes
  BY TypeParts DEF Typed
<1>2. faults' \in 0 .. MaxFaults
  BY <1>1, BoundsAssumption
     DEF EventTypes, Fault, Next, Handle, HandleFault, Replay, vars, Produce, Join, Rebalance,
         Assign, Commit, Crash, Receive, CheckProcessed, CheckError, ProcessOk, ProcessThrows,
         ProcessThrowsLate, MarkProcessed, MarkError, DlqPersist, DlqPersistError, DlqSend,
         DlqSendError, DlqMark, ReplayStart, ReplayBegin, ReplayReset, ReplaySend,
         ReplayResolve, ReplayRevert, ReplayError, ReplayCrash
<1>3. CASE UNCHANGED <<processed, effects, done>>
  BY <1>1, <1>2, <1>3 DEF EventTypes
<1>4. ASSUME NEW i \in Instances, ProcessOk(i) \/ ProcessThrowsLate(i) PROVE EventTypes'
  <2>1. Message(i) \in Events
    BY <1>4 DEF Typed, HandlersOnCourse, OnCourse, ProcessOk, ProcessThrowsLate
  <2>2. QED
    BY <1>1, <1>2, <1>4, <2>1 DEF EventTypes, ProcessOk, ProcessThrowsLate
<1>5. ASSUME NEW i \in Instances, MarkProcessed(i) \/ MarkError(i) PROVE EventTypes'
  BY <1>1, <1>2, <1>5 DEF EventTypes, MarkProcessed, MarkError
<1>6. ASSUME NEW i \in Instances, DlqPersist(i) PROVE EventTypes'
  BY <1>1, <1>2, <1>6 DEF EventTypes, DlqPersist
<1>7. ASSUME NEW r \in Replayers, ReplayReset(r) \/ ReplayError(r) PROVE EventTypes'
  BY <1>1, <1>2, <1>7 DEF EventTypes, ReplayReset, ReplayError
<1>8. QED
  BY <1>3, <1>4, <1>5, <1>6, <1>7
     DEF Next, Handle, HandleFault, Replay, vars, Produce, Join, Rebalance, Assign, Commit,
         Crash, Receive, CheckProcessed, CheckError, ProcessThrows, DlqPersistError, DlqSend,
         DlqSendError, DlqMark, ReplayStart, ReplayBegin, ReplaySend,
         ReplayResolve, ReplayRevert, ReplayCrash

\* Types and courses are inductive.
LEMMA TypedInit == Init => Typed
<1> SUFFICES ASSUME Init PROVE Typed
  OBVIOUS
<1>1. log = <<>> /\ dlq = <<>> /\ Len(log) = 0 /\ Len(dlq) = 0
      /\ log \in Seq(Messages) /\ dlq \in Seq(DlqRow)
  BY DEF Init
<1>2. LogTypes
  <2>1. committed \in 0 .. Len(log) /\ Len(log) <= MaxLog
    BY <1>1, BoundsAssumption DEF Init
  <2>2. dropped \subseteq 1 .. Len(log) /\ skipped \subseteq 1 .. Len(log)
    BY DEF Init
  <2>3. QED
    BY <1>1, <2>1, <2>2, Zenon DEF Init, LogTypes
<1>d. DlqTypes
  BY <1>1 DEF Init, DlqTypes
<1>e. EventTypes
  BY BoundsAssumption DEF Init, EventTypes
<1>3. InstanceTypes /\ ReplayTypes
  BY <1>1, BoundsAssumption DEF Init, InstanceTypes, ReplayTypes, Points, ReplayPoints
<1>4. HandlersOnCourse /\ ReplaysOnCourse
  BY DEF Init, HandlersOnCourse, OnCourse, ReplaysOnCourse
<1>5. QED
  BY <1>2, <1>d, <1>e, <1>3, <1>4, TypeParts DEF Typed

\* Every step keeps types, and handlers and replays on course.
LEMMA TypedNext == Typed /\ [Next]_vars => Typed'
BY TypeParts, InstancesStep, ReplaysStep, LogStep, DlqStep, EventsStep
   DEF Typed, TypeOK, LogTypes, DlqTypes, InstanceTypes, ReplayTypes, EventTypes

-----------------------------------------------------------------------------
(* Losses *)

\* What is accounted for once stays accounted for.
LEMMA AccountedStays ==
    ASSUME Typed, [Next]_vars, NEW p \in 1 .. Len(log), Accounted(p)
    PROVE  Accounted(p)'
<1> USE DEF kafka, inst, db, rep, seen
<1>1. Grows
  BY HistoriesGrow
<1>2. done \subseteq done' /\ dropped \subseteq dropped' /\ skipped \subseteq skipped'
  BY DEF Next, Handle, HandleFault, Replay, vars, Produce, Join, Rebalance, Assign, Commit,
         Crash, Receive, CheckProcessed, CheckError, ProcessOk, ProcessThrows,
         ProcessThrowsLate, MarkProcessed, MarkError, DlqPersist, DlqPersistError, DlqSend,
         DlqSendError, DlqMark, ReplayStart, ReplayBegin, ReplayReset, ReplaySend,
         ReplayResolve, ReplayRevert, ReplayError, ReplayCrash
<1>3. Completed(p) => Completed(p)'
  BY <1>1, <1>2 DEF Grows, Completed
<1>4. InDlq(p) => InDlq(p)'
  <2>1. Len(dlq) \in Nat /\ Len(dlq') \in Nat
    BY <1>1 DEF Grows, Typed, TypeOK
  <2>2. QED
    BY <1>1, <2>1 DEF Grows, InDlq
<1>5. QED
  BY <1>2, <1>3, <1>4 DEF Accounted

\* The owner is past accounted messages only, and so is the committed offset.
LEMMA OffsetsAccounted ==
    ASSUME Typed, Losses, [Next]_vars
    PROVE  /\ LossesAccounted'
           /\ \A i \in Instances : member' = i => \A p \in 1 .. pos'[i] : Accounted(p)'
<1> USE DEF kafka, inst, db, rep, seen
<1> DEFINE Goal == /\ LossesAccounted'
                   /\ \A i \in Instances : member' = i => \A p \in 1 .. pos'[i] : Accounted(p)'
<1>1. /\ committed \in 0 .. Len(log) /\ Len(log) \in Nat
      /\ \A i \in Instances : pos[i] \in 0 .. Len(log)
  BY DEF Typed, TypeOK
<1>2. /\ \A p \in 1 .. committed : Accounted(p)'
      /\ \A i \in Instances : member = i => \A p \in 1 .. pos[i] : Accounted(p)'
  <2>1. /\ \A p \in 1 .. committed : p \in 1 .. Len(log) /\ Accounted(p)
        /\ \A i \in Instances : member = i =>
             \A p \in 1 .. pos[i] : p \in 1 .. Len(log) /\ Accounted(p)
    BY <1>1 DEF Losses, LossesAccounted, Accounted, ProgressAccounted
  <2>2. QED
    BY <2>1, AccountedStays
<1>3. CASE UNCHANGED <<committed, member, pos>>
  BY <1>2, <1>3 DEF LossesAccounted, Accounted
<1>4. ASSUME NEW i \in Instances, Assign(i) PROVE Goal
  <2> DEFINE from == IF stored THEN committed ELSE Len(log)
  <2>1. /\ committed' = from /\ skipped' = skipped \cup committed + 1 .. from
        /\ member' = i /\ pos'[i] = from
    BY <1>4 DEF Assign, Typed, TypeOK
  <2>2. from \in Nat /\ committed \in Nat
    BY <1>1
  <2> HIDE DEF from
  <2>3. ASSUME NEW p \in 1 .. from PROVE Accounted(p)'
    <3>1. CASE p \in 1 .. committed
      BY <1>2, <3>1
    <3>2. CASE p \in committed + 1 .. from
      BY <2>1, <3>2 DEF Accounted
    <3>3. QED
      BY <2>2, <3>1, <3>2
  <2>4. QED
    BY <2>1, <2>3 DEF LossesAccounted, Accounted
<1>5. ASSUME NEW i \in Instances, Commit(i) PROVE Goal
  BY <1>2, <1>5 DEF Commit, LossesAccounted, Accounted
<1>6. ASSUME NEW i \in Instances, Crash(i) PROVE Goal
  BY <1>1, <1>2, <1>6, NoneAssumption DEF Crash, LossesAccounted, Accounted, Typed, TypeOK
<1>7. ASSUME NEW i \in Instances, Return(i), UNCHANGED <<committed, member>>,
             NEW q, q = Offset(i), Accounted(q)'
      PROVE  Goal
  <2>1. pos'[i] = pos[i] + 1 /\ \A j \in Instances \ {i} : pos'[j] = pos[j]
    BY <1>7 DEF Return, Typed, TypeOK
  <2>2. ASSUME member = i, NEW p \in 1 .. pos[i] + 1 PROVE Accounted(p)'
    <3>1. p \in 1 .. pos[i] \/ p = q
      BY <1>1, <1>7 DEF Offset
    <3>2. QED
      BY <1>2, <1>7, <2>2, <3>1
  <2>3. QED
    BY <1>2, <1>7, <2>1, <2>2 DEF LossesAccounted, Accounted
<1>8. ASSUME NEW i \in Instances, CheckProcessed(i) PROVE Goal
  <2>q. PICK q : q = Offset(i)
    OBVIOUS
  <2>1. Message(i) \in Events /\ Message(i) = log[q]
    BY <1>8, <2>q DEF CheckProcessed, Typed, HandlersOnCourse, OnCourse, Message
  <2>2. AlreadyProcessed(Message(i)) => Accounted(q)'
    BY <1>8, <2>1 DEF CheckProcessed, AlreadyProcessed, Accounted, Completed, Losses,
                      ProgressAccounted
  <2>3. QED
    BY <1>3, <1>7, <1>8, <2>q, <2>2 DEF CheckProcessed
<1>9. ASSUME NEW i \in Instances, MarkProcessed(i) PROVE Goal
  <2>q. PICK q : q = Offset(i)
    OBVIOUS
  <2>1. log[q] \in done
    BY <1>9, <2>q DEF MarkProcessed, Losses, ProgressAccounted, Message
  <2>2. Accounted(q)'
    BY <1>9, <2>1 DEF MarkProcessed, Accounted, Completed
  <2>3. QED
    BY <1>7, <1>9, <2>q, <2>2 DEF MarkProcessed
<1>10. ASSUME NEW i \in Instances, DlqPersistError(i) PROVE Goal
  <2>q. PICK q : q = Offset(i)
    OBVIOUS
  <2>1. q \in dropped'
    BY <1>10, <2>q DEF DlqPersistError
  <2>2. Accounted(q)'
    BY <2>1 DEF Accounted
  <2>3. QED
    BY <1>7, <1>10, <2>q, <2>2 DEF DlqPersistError
<1>11. ASSUME NEW i \in Instances, DlqSendError(i) \/ DlqMark(i) PROVE Goal
  <2>q. PICK q : q = Offset(i)
    OBVIOUS
  <2>1. /\ dlqId[i] \in 1 .. Len(dlq) /\ dlq[dlqId[i]].offset = q
        /\ pos[i] < Len(log)
    BY <1>11, <2>q DEF DlqSendError, DlqMark, Typed, HandlersOnCourse, OnCourse
  <2>2. q \in 1 .. Len(log) /\ Accounted(q)
    BY <1>1, <2>q, <2>1 DEF Offset, Accounted, InDlq
  <2>3. Accounted(q)'
    BY <2>2, AccountedStays
  <2>4. QED
    BY <1>7, <1>11, <2>q, <2>3 DEF DlqSendError, DlqMark
<1>12. Goal
  BY <1>3, <1>4, <1>5, <1>6, <1>8, <1>9, <1>10, <1>11
     DEF Next, Handle, HandleFault, Replay, vars, Produce, Join, Rebalance,
         Receive, CheckError, ProcessOk, ProcessThrows, ProcessThrowsLate, Failed, MarkError,
         DlqPersist, DlqSend, ReplayStart, ReplayBegin, ReplayReset, ReplaySend,
         ReplayResolve, ReplayRevert, ReplayError, ReplayCrash
<1>13. QED
  BY <1>12

\* An instance only comes to markEventProcessed from processEvent.
LEMMA MarkOnlyAfterProcess ==
    ASSUME Typed, [Next]_vars, NEW i \in Instances, pc'[i] = "mark"
    PROVE  ProcessOk(i) \/ (pc[i] = "mark" /\ UNCHANGED pos[i])
<1> USE DEF kafka, inst, db, rep, seen
<1>1. InstanceTypes
  BY TypeParts DEF Typed
<1>2. CASE UNCHANGED inst
  BY <1>2
<1>3. ASSUME NEW j \in Instances, Assign(j) PROVE pc[i] = "mark" /\ UNCHANGED pos[i]
  BY <1>1, <1>3 DEF Assign, InstanceTypes
<1>4. ASSUME NEW j \in Instances, Crash(j) \/ Receive(j) \/ CheckError(j) \/ Return(j) \/ Failed(j)
      PROVE  pc[i] = "mark" /\ UNCHANGED pos[i]
  BY <1>1, <1>4 DEF Crash, Receive, CheckError, Return, Failed, InstanceTypes
<1>5. ASSUME NEW j \in Instances, CheckProcessed(j) \/ DlqPersist(j) \/ DlqSend(j)
      PROVE  pc[i] = "mark" /\ UNCHANGED pos[i]
  BY <1>1, <1>4, <1>5 DEF CheckProcessed, DlqPersist, DlqSend, InstanceTypes
<1>6. ASSUME NEW j \in Instances, ProcessOk(j), j # i PROVE pc[i] = "mark" /\ UNCHANGED pos[i]
  BY <1>1, <1>6 DEF ProcessOk, InstanceTypes
<1>7. QED
  BY <1>2, <1>3, <1>4, <1>5, <1>6
     DEF Next, Handle, HandleFault, Replay, vars, Produce,
         Join, Rebalance, Commit, ProcessThrows, ProcessThrowsLate, MarkProcessed, MarkError,
         DlqPersistError, DlqMark, DlqSendError, ReplayTo, ReplayStart, ReplayBegin, ReplayReset,
         ReplaySend, ReplayResolve, ReplayRevert, ReplayError, ReplayCrash

\* Losses stay accounted for.
LEMMA LossesNext == Typed /\ Losses /\ [Next]_vars => Losses'
<1> SUFFICES ASSUME Typed, Losses, [Next]_vars PROVE Losses'
  OBVIOUS
<1> USE DEF kafka, inst, db, rep, seen
<1>1. Grows
  BY HistoriesGrow
<1>2. ASSUME NEW i \in Instances, pc[i] = "mark", UNCHANGED pos[i]
      PROVE  Message(i)' = Message(i)
  <2>1. pos[i] \in Nat /\ Len(log) \in Nat /\ pos[i] < Len(log)
    BY <1>2 DEF Typed, TypeOK, HandlersOnCourse, OnCourse
  <2>2. pos[i] + 1 \in 1 .. Len(log)
    BY <2>1
  <2>3. QED
    BY <1>1, <1>2, <2>2 DEF Grows, Message, Offset
<1>3. done \subseteq done'
  BY DEF Next, Handle, HandleFault, Replay, vars, Produce, Join, Rebalance, Assign, Commit,
         Crash, Receive, CheckProcessed, CheckError, ProcessOk, ProcessThrows,
         ProcessThrowsLate, MarkProcessed, MarkError, DlqPersist, DlqPersistError, DlqSend,
         DlqSendError, DlqMark, ReplayStart, ReplayBegin, ReplayReset, ReplaySend,
         ReplayResolve, ReplayRevert, ReplayError, ReplayCrash
<1>4. ASSUME NEW i \in Instances, pc'[i] = "mark" PROVE Message(i)' \in done'
  <2>1. CASE pc[i] = "mark" /\ UNCHANGED pos[i]
    BY <1>2, <1>3, <2>1 DEF Losses, ProgressAccounted
  <2>2. CASE ProcessOk(i)
    BY <2>2 DEF ProcessOk, Message, Offset
  <2>3. ProcessOk(i) \/ (pc[i] = "mark" /\ UNCHANGED pos[i])
    BY <1>4, MarkOnlyAfterProcess
  <2>4. QED
    BY <2>1, <2>2, <2>3
<1>5. ASSUME NEW e \in Events, processed'[e] = "PROCESSED" PROVE e \in done'
  <2>1. CASE processed[e] = "PROCESSED"
    BY <1>3, <2>1 DEF Losses, ProgressAccounted
  <2>2. CASE \E i \in Instances : pc[i] = "mark" /\ Message(i) = e
    BY <1>3, <2>2 DEF Losses, ProgressAccounted
  <2>3. QED
    BY <1>5, <2>1, <2>2
       DEF Next, Handle, HandleFault, Replay, vars, Produce, Join, Rebalance, Assign, Commit,
         Crash, Receive, CheckProcessed, CheckError, ProcessOk, ProcessThrows,
         ProcessThrowsLate, MarkProcessed, MarkError, DlqPersist, DlqPersistError, DlqSend,
         DlqSendError, DlqMark, ReplayStart, ReplayBegin, ReplayReset, ReplaySend,
         ReplayResolve, ReplayRevert, ReplayError, ReplayCrash, Typed, TypeOK
<1>6. QED
  BY <1>4, <1>5, OffsetsAccounted DEF Losses, ProgressAccounted

-----------------------------------------------------------------------------
(* Replays *)

\* An event that is back in the log stays there.
LEMMA ResentStays ==
    ASSUME Typed, [Next]_vars, NEW d \in 1 .. Len(dlq), Resent(d)
    PROVE  Resent(d)'
<1>1. Grows
  BY HistoriesGrow
<1>2. Len(log) \in Nat /\ Len(log') \in Nat /\ Len(log) <= Len(log')
  BY <1>1, BoundsAssumption DEF Grows, Typed, TypeOK
<1>3. QED
  BY <1>1, <1>2 DEF Grows, Resent

\* Only markDLQResolved of a request, at its row, sets REPLAYED.
LEMMA ReplayedByResolve ==
    ASSUME Typed, [Next]_vars, NEW d \in 1 .. Len(dlq'), dlq'[d].status = "REPLAYED"
    PROVE  /\ d \in 1 .. Len(dlq)
           /\ \/ dlq[d].status = "REPLAYED"
              \/ \E r \in Replayers : rpc[r] = "resolve" /\ rid[r] = d
<1> USE DEF kafka, inst, db, rep, seen
<1> DEFINE Goal == /\ d \in 1 .. Len(dlq)
                   /\ \/ dlq[d].status = "REPLAYED"
                      \/ \E r \in Replayers : rpc[r] = "resolve" /\ rid[r] = d
<1>1. /\ dlq \in Seq(DlqRow) /\ Len(dlq) \in Nat
      /\ \A r \in Replayers : rpc[r] # "idle" => rid[r] \in 1 .. Len(dlq)
  BY DEF Typed, TypeOK, ReplaysOnCourse
<1>2. CASE UNCHANGED dlq
  BY <1>2
<1>3. ASSUME NEW r \in Replayers, NEW s \in {"UNRESOLVED", "REPLAYING", "REPLAYED"},
             SetStatus(rid[r], s), rpc[r] # "idle", s = "REPLAYED" => rpc[r] = "resolve"
      PROVE  Goal
  <2>1. Len(dlq') = Len(dlq) /\ rid[r] \in 1 .. Len(dlq)
    BY <1>1, <1>3 DEF SetStatus
  <2>2. CASE d = rid[r]
    <3>1. dlq[d] \in DlqRow /\ d \in 1 .. Len(dlq)
      BY <1>1, <2>1, <2>2
    <3>2. dlq'[d] = [dlq[d] EXCEPT !.status = s]
      BY <1>1, <1>3, <2>1, <2>2 DEF SetStatus
    <3>3. dlq'[d].status = s
      BY <3>1, <3>2 DEF DlqRow
    <3>4. QED
      BY <1>3, <2>2, <3>1, <3>3
  <2>3. CASE d # rid[r]
    BY <1>1, <1>3, <2>1, <2>3 DEF SetStatus
  <2>4. QED
    BY <2>2, <2>3
<1>4. ASSUME NEW i \in Instances, DlqPersist(i) PROVE Goal
  <2>1. Len(dlq') = Len(dlq) + 1 /\ dlq'[Len(dlq) + 1] = NewRow(i)
    BY <1>4, RowAppended
  <2>2. d # Len(dlq) + 1
    BY <2>1 DEF NewRow
  <2>3. d \in 1 .. Len(dlq)
    BY <1>1, <2>1, <2>2
  <2>4. QED
    BY <1>1, <1>4, <2>3 DEF DlqPersist
<1>5. ASSUME NEW i \in Instances, DlqMark(i) PROVE Goal
  <2>1. dlqId[i] \in 1 .. Len(dlq)
    BY <1>5 DEF DlqMark, Typed, HandlersOnCourse, OnCourse
  <2>2. Len(dlq') = Len(dlq) /\ d \in 1 .. Len(dlq) /\ dlq[d] \in DlqRow
    BY <1>1, <1>5, <2>1 DEF DlqMark, MarkOutbox
  <2>3. dlq'[d] \in {dlq[d], [dlq[d] EXCEPT !.outbox = "PUBLISHED"]}
    BY <1>1, <1>5, <2>1, <2>2 DEF DlqMark, MarkOutbox
  <2>4. QED
    BY <2>2, <2>3 DEF DlqRow
<1>6. ASSUME NEW r \in Replayers,
             ReplayBegin(r) \/ ReplayResolve(r) \/ ReplayRevert(r) \/ ReplayError(r)
      PROVE  Goal
  BY <1>2, <1>3, <1>6 DEF ReplayBegin, ReplayResolve, ReplayRevert, ReplayError
<1>7. Goal
  BY <1>2, <1>4, <1>5, <1>6
     DEF Next, Handle, HandleFault, Replay, vars, Produce, Join, Rebalance, Assign, Commit,
         Crash, Receive, CheckProcessed, CheckError, ProcessOk, ProcessThrows,
         ProcessThrowsLate, MarkProcessed, MarkError, DlqPersistError, DlqSend,
         DlqSendError, ReplayStart, ReplayReset, ReplaySend, ReplayCrash
<1>8. QED
  BY <1>7

\* A request comes to markDLQResolved only by sending the event.
LEMMA ResolveOnlyAfterSend ==
    ASSUME Typed, [Next]_vars, NEW r \in Replayers, rpc'[r] = "resolve"
    PROVE  ReplaySend(r) \/ (rpc[r] = "resolve" /\ UNCHANGED rid[r])
<1> USE DEF kafka, inst, db, rep, seen
<1>1. ReplayTypes
  BY TypeParts DEF Typed
<1>2. CASE UNCHANGED rep
  BY <1>2
<1>3. ASSUME NEW q \in Replayers, NEW p \in ReplayPoints \ {"resolve"}, ReplayTo(q, p)
      PROVE  rpc[r] = "resolve" /\ UNCHANGED rid[r]
  BY <1>1, <1>3 DEF ReplayTo, ReplayTypes
<1>4. ASSUME NEW q \in Replayers, ReplaySend(q), q # r
      PROVE  rpc[r] = "resolve" /\ UNCHANGED rid[r]
  BY <1>1, <1>4 DEF ReplaySend, ReplayTo, ReplayTypes
<1>5. ASSUME NEW q \in Replayers, NEW d \in 1 .. Len(dlq), ReplayStart(q, d)
      PROVE  rpc[r] = "resolve" /\ UNCHANGED rid[r]
  BY <1>1, <1>5 DEF ReplayStart, ReplayTypes
<1>6. ASSUME NEW q \in Replayers, Replay(q) \/ ReplayError(q) \/ ReplayCrash(q)
      PROVE  ReplaySend(r) \/ (rpc[r] = "resolve" /\ UNCHANGED rid[r])
  BY <1>3, <1>4, <1>6 DEF Replay, ReplayBegin, ReplayReset, ReplayResolve,
                          ReplayRevert, ReplayError, ReplayCrash, ReplayPoints
<1>7. QED
  BY <1>2, <1>5, <1>6
     DEF Next, Handle, HandleFault, vars, Produce, Join, Rebalance, Assign, Commit, Crash,
         Receive, CheckProcessed, CheckError, ProcessOk, ProcessThrows, ProcessThrowsLate,
         MarkProcessed, MarkError, DlqPersist, DlqPersistError, DlqSend, DlqSendError, DlqMark

\* Rows stay about messages of the log.
LEMMA RowsInLog ==
    ASSUME Typed, Replays, [Next]_vars, NEW d \in 1 .. Len(dlq')
    PROVE  dlq'[d].offset <= Len(log')
<1> USE DEF kafka, inst, db, rep, seen
<1>1. Grows
  BY HistoriesGrow
<1>a. \A k \in 1 .. Len(dlq) : dlq[k].offset \in Nat /\ dlq[k].offset <= Len(log)
  <2>1. \A k \in 1 .. Len(dlq) : dlq[k].offset \in 1 .. MaxLog
    BY RowMessage DEF Typed
  <2>2. QED
    BY <2>1, BoundsAssumption DEF Replays, ResendBeforeResolve
<1>2. /\ Len(log) \in Nat /\ Len(log') \in Nat /\ Len(log) <= Len(log')
      /\ Len(dlq) \in Nat
  BY <1>1, BoundsAssumption DEF Grows, Typed, TypeOK
<1>3. CASE d \in 1 .. Len(dlq)
  BY <1>1, <1>a, <1>2, <1>3 DEF Grows
<1>4. ASSUME NEW i \in Instances, DlqPersist(i), d \notin 1 .. Len(dlq)
      PROVE  dlq'[d].offset <= Len(log')
  <2>1. Len(dlq') = Len(dlq) + 1 /\ dlq'[Len(dlq) + 1] = NewRow(i)
    BY <1>4, RowAppended
  <2>2. dlq'[d].offset = Offset(i)
    BY <1>2, <1>4, <2>1 DEF NewRow
  <2>3. pos[i] \in Nat /\ pos[i] < Len(log)
    BY <1>4 DEF DlqPersist, Typed, TypeOK, HandlersOnCourse, OnCourse
  <2>4. QED
    BY <1>2, <2>2, <2>3 DEF Offset
<1>5. Len(dlq') = Len(dlq) \/ \E i \in Instances : DlqPersist(i)
  <2>1. ASSUME NEW r \in Replayers, rpc[r] # "idle", NEW s, SetStatus(rid[r], s)
        PROVE  Len(dlq') = Len(dlq)
    BY <2>1 DEF SetStatus, Typed, TypeOK, ReplaysOnCourse
  <2>2. ASSUME NEW i \in Instances, DlqMark(i) PROVE Len(dlq') = Len(dlq)
    BY <2>2 DEF DlqMark, MarkOutbox, Typed, TypeOK, HandlersOnCourse, OnCourse
  <2>3. QED
    BY <2>1, <2>2
     DEF Next, Handle, HandleFault, Replay, vars, Produce, Join, Rebalance, Assign, Commit,
         Crash, Receive, CheckProcessed, CheckError, ProcessOk, ProcessThrows,
         ProcessThrowsLate, MarkProcessed, MarkError, DlqPersistError, DlqSend,
         DlqSendError, ReplayStart, ReplayReset, ReplaySend, ReplayCrash,
         ReplayBegin, ReplayResolve, ReplayRevert, ReplayError
<1>6. QED
  BY <1>2, <1>3, <1>4, <1>5

\* REPLAYED stays a promise that is kept.
LEMMA ReplaysNext == Typed /\ Replays /\ [Next]_vars => Replays'
<1> SUFFICES ASSUME Typed, Replays, [Next]_vars PROVE Replays'
  OBVIOUS
<1> USE DEF kafka, inst, db, rep, seen
<1>1. /\ \A d \in 1 .. Len(dlq) : dlq[d].status = "REPLAYED" => Resent(d)
      /\ \A r \in Replayers : rpc[r] = "resolve" => Resent(rid[r]) /\ rid[r] \in 1 .. Len(dlq)
      /\ \A d \in 1 .. Len(dlq) : dlq[d].offset <= Len(log)
  BY DEF Typed, ReplaysOnCourse, Replays, ReplayedIsResent, ResendBeforeResolve, Resent
<1>2. ASSUME NEW d \in 1 .. Len(dlq'), dlq'[d].status = "REPLAYED" PROVE Resent(d)'
  BY <1>1, <1>2, ReplayedByResolve, ResentStays
<1>3. ASSUME NEW r \in Replayers, ReplaySend(r), NEW d, d = rid[r] PROVE Resent(d)'
  <2>1. d \in 1 .. Len(dlq)
    BY <1>3 DEF ReplaySend, Typed, ReplaysOnCourse
  <2>2. /\ log \in Seq(Messages) /\ Len(log) \in Nat /\ dlq[d].msg \in Messages
        /\ dlq[d].offset \in Nat /\ dlq[d].offset <= Len(log)
    BY <1>1, <2>1, RowMessage DEF Typed, TypeOK
  <2>3. Len(log') = Len(log) + 1 /\ log'[Len(log) + 1] = dlq[d].msg /\ dlq' = dlq
    BY <1>3, <2>2 DEF ReplaySend
  <2>4. QED
    BY <2>2, <2>3 DEF Resent
<1>4. ASSUME NEW r \in Replayers, rpc'[r] = "resolve" PROVE Resent(rid[r])'
  <2>1. PICK d : d = rid[r]
    OBVIOUS
  <2>2. CASE ReplaySend(r)
    <3>1. Resent(d)'
      BY <1>3, <2>1, <2>2
    <3>2. rid'[r] = d
      BY <2>1, <2>2 DEF ReplaySend, ReplayTo
    <3>3. QED
      BY <3>1, <3>2 DEF Resent
  <2>3. CASE rpc[r] = "resolve" /\ UNCHANGED rid[r]
    <3>1. Resent(d) /\ d \in 1 .. Len(dlq)
      BY <1>1, <2>1, <2>3
    <3>2. Resent(d)'
      BY <3>1, ResentStays
    <3>3. QED
      BY <2>1, <2>3, <3>2 DEF Resent
  <2>4. QED
    BY <1>4, <2>2, <2>3, ResolveOnlyAfterSend
<1>5. QED
  BY <1>2, <1>4, RowsInLog DEF Replays, ReplayedIsResent, ResendBeforeResolve, Resent

-----------------------------------------------------------------------------
(* Duplicate effects *)

\* Two finite sets that differ at most in x.
LEMMA DifferInOne ==
    ASSUME NEW U, IsFiniteSet(U), NEW S \in SUBSET U, NEW T \in SUBSET U, NEW x,
           \A y \in U \ {x} : y \in S <=> y \in T
    PROVE  /\ Cardinality(S) \in Nat /\ Cardinality(T) \in Nat
           /\ Cardinality(T) + (IF x \in S THEN 1 ELSE 0)
                = Cardinality(S) + (IF x \in T THEN 1 ELSE 0)
<1>1. IsFiniteSet(S) /\ IsFiniteSet(T)
  BY FS_Subset
<1>2. Cardinality(S) \in Nat /\ Cardinality(T) \in Nat
  BY <1>1, FS_CardinalityType
<1>3. CASE x \in S /\ x \notin T
  <2>1. T = S \ {x}
    BY <1>3
  <2>2. Cardinality(T) = Cardinality(S) - 1
    BY <1>1, <1>3, <2>1, FS_RemoveElement
  <2>3. QED
    BY <1>2, <1>3, <2>2
<1>4. CASE x \in T /\ x \notin S
  <2>1. S = T \ {x}
    BY <1>4
  <2>2. Cardinality(S) = Cardinality(T) - 1
    BY <1>1, <1>4, <2>1, FS_RemoveElement
  <2>3. QED
    BY <1>2, <1>4, <2>2
<1>5. CASE x \in S <=> x \in T
  <2>1. S = T
    BY <1>5
  <2>2. QED
    BY <1>2, <2>1
<1>6. QED
  BY <1>3, <1>4, <1>5

Budget(e) == effects[e] + Due(e) + Cardinality(Late(e)) + Cardinality(Reopening(e))

\* 1 if the step takes the marker of e away.
Reopened(e) == IF processed[e] = "PROCESSED" /\ processed'[e] # "PROCESSED" THEN 1 ELSE 0

\* What the owner at point p with an event that has marker s may still do to
\* it, and what an instance that lost the partition may.
OwnerOwes(p, s) ==
    IF p = "mark" THEN 0 ELSE IF p \in {"process", "exhausted"} \/ s # "PROCESSED" THEN 1 ELSE 0
StrayOwes(p) == IF p \in {"check", "process", "exhausted"} THEN 1 ELSE 0

\* Sets and numbers of the budget.
LEMMA BudgetTypes ==
    ASSUME Typed, Typed', NEW e \in Events
    PROVE  /\ Late(e) \in SUBSET Instances /\ Late(e)' \in SUBSET Instances
           /\ Reopening(e) \in SUBSET Replayers /\ Reopening(e)' \in SUBSET Replayers
           /\ Cardinality(Late(e)) \in Nat /\ Cardinality(Late(e))' \in Nat
           /\ Cardinality(Reopening(e)) \in Nat /\ Cardinality(Reopening(e))' \in Nat
           /\ Due(e) \in {0, 1} /\ Due(e)' \in {0, 1}
           /\ effects[e] \in Nat /\ effects'[e] \in Nat /\ faults \in Nat /\ faults' \in Nat
<1>1. /\ Late(e) \in SUBSET Instances /\ Late(e)' \in SUBSET Instances
      /\ Reopening(e) \in SUBSET Replayers /\ Reopening(e)' \in SUBSET Replayers
  BY DEF Late, Reopening
<1>2. ASSUME NEW S, S \subseteq Instances \/ S \subseteq Replayers
      PROVE  Cardinality(S) \in Nat
  BY <1>2, ProcessesAssumption, FS_Subset, FS_CardinalityType
<1>3. /\ Cardinality(Late(e)) \in Nat /\ Cardinality(Late(e)') \in Nat
      /\ Cardinality(Reopening(e)) \in Nat /\ Cardinality(Reopening(e)') \in Nat
  BY <1>1, <1>2
<1>4. Due(e) \in {0, 1} /\ Due(e)' \in {0, 1}
  BY DEF Due
<1>5. effects[e] \in Nat /\ effects'[e] \in Nat /\ faults \in Nat /\ faults' \in Nat
  BY BoundsAssumption DEF Typed, TypeOK
<1>6. QED
  BY <1>1, <1>3, <1>4, <1>5

\* An instance with a message in its hands keeps it.
LEMMA MessageStays ==
    ASSUME Typed, Grows, NEW i \in Instances, pc[i] # "idle", UNCHANGED pos[i]
    PROVE  log'[Offset(i)'] = log[Offset(i)]
<1>1. pos[i] \in Nat /\ Len(log) \in Nat /\ pos[i] < Len(log)
  BY DEF Typed, TypeOK, HandlersOnCourse, OnCourse
<1>2. pos[i] + 1 \in 1 .. Len(log)
  BY <1>1
<1>3. QED
  BY <1>2 DEF Grows, Offset

\* A step of handleMessage within the budget of its event.
LEMMA HandlerBudget ==
    ASSUME Typed, Typed', Grows, NEW e \in Events, NEW i \in Instances, pc[i] # "idle",
           UNCHANGED <<member, rpc, rid>>,
           \A j \in Instances \ {i} : UNCHANGED <<pc[j], pos[j]>>,
           pc'[i] # "idle" => UNCHANGED pos[i],
           faults <= faults',
           e # Message(i) => UNCHANGED <<effects[e], processed[e]>>,
           e = Message(i) =>
             /\ effects'[e] + OwnerOwes(pc'[i], processed'[e]) + faults
                  <= effects[e] + OwnerOwes(pc[i], processed[e]) + faults'
             /\ effects'[e] + StrayOwes(pc'[i]) + Reopened(e) + faults
                  <= effects[e] + StrayOwes(pc[i]) + faults',
           Budget(e) <= 1 + faults
    PROVE  Budget(e)' <= 1 + faults'
<1>1. Reopening(e)' = Reopening(e)
  BY DEF Reopening, Typed, ReplaysOnCourse, Grows
<1>2. \A j \in Instances : pc[j] # "idle" /\ pc'[j] # "idle" => log'[Offset(j)'] = log[Offset(j)]
  BY MessageStays
<1>3. \A j \in Instances \ {i} : j \in Late(e)' <=> j \in Late(e)
  BY <1>2 DEF Late
<1>4. Cardinality(Late(e))' + (IF i \in Late(e) THEN 1 ELSE 0)
        = Cardinality(Late(e)) + (IF i \in Late(e)' THEN 1 ELSE 0)
  <2>1. Late(e) \in SUBSET Instances /\ Late(e)' \in SUBSET Instances
    BY BudgetTypes
  <2>2. QED
    BY <1>3, <2>1, DifferInOne, ProcessesAssumption
<1>5. /\ Cardinality(Late(e)) \in Nat /\ Cardinality(Reopening(e)) \in Nat
      /\ Due(e) \in {0, 1} /\ effects[e] \in Nat /\ faults \in Nat
      /\ Cardinality(Late(e))' \in Nat
      /\ Due(e)' \in {0, 1} /\ effects'[e] \in Nat /\ faults' \in Nat
  BY BudgetTypes
<1>6. CASE member = i
  <2>1. i \notin Late(e) /\ i \notin Late(e)'
    BY <1>6 DEF Late
  <2>2. /\ Due(e) = IF e = Message(i) THEN OwnerOwes(pc[i], processed[e])
                    ELSE IF processed[e] # "PROCESSED" THEN 1 ELSE 0
        /\ Due(e)' = IF e = Message(i) THEN OwnerOwes(pc'[i], processed'[e])
                     ELSE IF processed'[e] # "PROCESSED" THEN 1 ELSE 0
    BY <1>2, <1>6 DEF Due, OwnerAt, OwnerOwes, Message
  <2>3. QED
    BY <1>1, <1>4, <1>5, <2>1, <2>2 DEF Budget
<1>7. CASE member # i
  <2>1. /\ OwnerAt({"mark"}, e)' <=> OwnerAt({"mark"}, e)
        /\ OwnerAt({"process", "exhausted"}, e)' <=> OwnerAt({"process", "exhausted"}, e)
    BY <1>2, <1>7 DEF OwnerAt
  <2>2. Due(e)' <= Due(e) + Reopened(e) /\ Reopened(e) \in {0, 1}
    BY <2>1 DEF Due, Reopened
  <2>3. e # Message(i) => Due(e)' = Due(e) /\ i \notin Late(e) /\ i \notin Late(e)'
    BY <1>2, <2>1 DEF Due, Late, Message
  <2>4. e = Message(i) => /\ (IF i \in Late(e) THEN 1 ELSE 0) = StrayOwes(pc[i])
                          /\ (IF i \in Late(e)' THEN 1 ELSE 0) = StrayOwes(pc'[i])
    BY <1>2, <1>7 DEF Late, Message, StrayOwes
  <2>5. StrayOwes(pc[i]) \in {0, 1} /\ StrayOwes(pc'[i]) \in {0, 1}
    BY DEF StrayOwes
  <2>6. QED
    BY <1>1, <1>4, <1>5, <2>2, <2>3, <2>4, <2>5 DEF Budget
<1>8. QED
  BY <1>6, <1>7

\* A step of a replay request, or of nobody, within the budget.
LEMMA ReplayBudget ==
    ASSUME Typed, Typed', Grows, NEW e \in Events, NEW r,
           UNCHANGED <<member, pc, pos, effects>>,
           \A q \in Replayers \ {r} : UNCHANGED <<rpc[q], rid[q]>>,
           (IF r \in Reopening(e)' THEN 1 ELSE 0) + Reopened(e) + faults
             <= (IF r \in Reopening(e) THEN 1 ELSE 0) + faults',
           Budget(e) <= 1 + faults
    PROVE  Budget(e)' <= 1 + faults'
<1>1. \A j \in Instances : pc[j] # "idle" => log'[Offset(j)'] = log[Offset(j)]
  BY MessageStays
<1>2. Late(e)' = Late(e)
  BY <1>1 DEF Late
<1>3. /\ OwnerAt({"mark"}, e)' <=> OwnerAt({"mark"}, e)
      /\ OwnerAt({"process", "exhausted"}, e)' <=> OwnerAt({"process", "exhausted"}, e)
  BY <1>1 DEF OwnerAt
<1>4. Due(e)' <= Due(e) + Reopened(e) /\ Reopened(e) \in {0, 1}
  BY <1>3 DEF Due, Reopened
<1>5. \A q \in Replayers \ {r} : q \in Reopening(e)' <=> q \in Reopening(e)
  BY DEF Reopening, Typed, ReplaysOnCourse, Grows
<1>6. Cardinality(Reopening(e))' + (IF r \in Reopening(e) THEN 1 ELSE 0)
        = Cardinality(Reopening(e)) + (IF r \in Reopening(e)' THEN 1 ELSE 0)
  <2>1. Reopening(e) \in SUBSET Replayers /\ Reopening(e)' \in SUBSET Replayers
    BY BudgetTypes
  <2>2. QED
    BY <1>5, <2>1, DifferInOne, ProcessesAssumption
<1>7. /\ Cardinality(Late(e)) \in Nat
      /\ Cardinality(Reopening(e)) \in Nat /\ Cardinality(Reopening(e))' \in Nat
      /\ Due(e) \in {0, 1} /\ Due(e)' \in {0, 1}
      /\ effects[e] \in Nat /\ effects'[e] = effects[e] /\ faults \in Nat /\ faults' \in Nat
  BY BudgetTypes
<1>8. QED
  BY <1>2, <1>4, <1>6, <1>7 DEF Budget

\* The partition is assigned to i, nobody having it, or taken from m.
LEMMA AssignBudget ==
    ASSUME Typed, Typed', Grows, NEW e \in Events, NEW i \in Instances, Assign(i),
           \/ member = None /\ faults' = faults
           \/ member \in Instances \ {i} /\ faults' = faults + 1,
           Budget(e) <= 1 + faults
    PROVE  Budget(e)' <= 1 + faults'
<1> USE DEF kafka, inst, db, rep, seen
<1>1. /\ pc[i] = "idle" /\ pc' = pc /\ member' = i /\ processed' = processed
      /\ effects' = effects /\ rpc' = rpc /\ rid' = rid /\ dlq' = dlq
      /\ \A j \in Instances \ {i} : pos'[j] = pos[j]
  BY DEF Assign, Typed, TypeOK
<1>2. \A j \in Instances : pc[j] # "idle" => log'[Offset(j)'] = log[Offset(j)]
  BY <1>1, MessageStays
<1>3. Reopening(e)' = Reopening(e)
  BY <1>1 DEF Reopening
<1>4. \A j \in Instances \ {member} : j \in Late(e)' <=> j \in Late(e)
  BY <1>1, <1>2 DEF Late
<1>5. member \notin Late(e)
  BY DEF Late
<1>6. Cardinality(Late(e))' = Cardinality(Late(e)) + (IF member \in Late(e)' THEN 1 ELSE 0)
  <2>1. Late(e) \in SUBSET Instances /\ Late(e)' \in SUBSET Instances
    BY BudgetTypes
  <2>2. Cardinality(Late(e))' + (IF member \in Late(e) THEN 1 ELSE 0)
          = Cardinality(Late(e)) + (IF member \in Late(e)' THEN 1 ELSE 0)
    BY <1>4, <2>1, DifferInOne, ProcessesAssumption
  <2>3. QED
    BY <1>5, <2>2, BudgetTypes
<1>7. Due(e)' = IF processed[e] # "PROCESSED" THEN 1 ELSE 0
  BY <1>1 DEF Due, OwnerAt
<1>8. /\ Cardinality(Late(e)) \in Nat /\ Cardinality(Late(e))' \in Nat
      /\ Cardinality(Reopening(e)) \in Nat
      /\ Due(e) \in {0, 1} /\ Due(e)' \in {0, 1}
      /\ effects[e] \in Nat /\ effects'[e] = effects[e] /\ faults \in Nat /\ faults' \in Nat
  BY <1>1, BudgetTypes
<1>9. CASE member = None
  <2>1. member \notin Late(e)' /\ Due(e) = Due(e)'
    BY <1>7, <1>9, NoneAssumption DEF Late, Due, OwnerAt
  <2>2. faults' = faults
    BY <1>9, NoneAssumption
  <2>3. QED
    BY <1>3, <1>6, <1>8, <2>1, <2>2 DEF Budget
<1>10. CASE member \in Instances \ {i}
  <2>1. faults' = faults + 1
    BY <1>10, NoneAssumption
  <2>2. (IF member \in Late(e)' THEN 1 ELSE 0) + Due(e)' <= Due(e) + 1
    <3>1. CASE member \in Late(e)'
      <4>1. pc[member] \in {"check", "process", "exhausted"} /\ log[Offset(member)] = e
        BY <1>1, <1>2, <1>10, <3>1 DEF Late
      <4>2. ~OwnerAt({"mark"}, e)
        BY <4>1 DEF OwnerAt
      <4>3. Due(e)' <= Due(e)
        BY <1>7, <4>2 DEF Due
      <4>4. QED
        BY <1>8, <3>1, <4>3
    <3>2. CASE member \notin Late(e)'
      BY <1>8, <3>2
    <3>3. QED
      BY <3>1, <3>2
  <2>3. (IF member \in Late(e)' THEN 1 ELSE 0) \in {0, 1}
    OBVIOUS
  <2>4. QED
    BY <1>3, <1>6, <1>8, <2>1, <2>2, <2>3 DEF Budget
<1>11. QED
  BY <1>9, <1>10

\* Crash of the owner or of an instance that lost the partition.
LEMMA CrashBudget ==
    ASSUME Typed, Typed', Grows, NEW e \in Events, NEW i \in Instances, Crash(i),
           Budget(e) <= 1 + faults
    PROVE  Budget(e)' <= 1 + faults'
<1> USE DEF kafka, inst, db, rep, seen
<1>1. /\ pc'[i] = "idle" /\ processed' = processed /\ effects' = effects
      /\ rpc' = rpc /\ rid' = rid /\ dlq' = dlq /\ faults' = faults + 1
      /\ \A j \in Instances \ {i} : pos'[j] = pos[j] /\ pc'[j] = pc[j]
      /\ member' = IF member = i THEN None ELSE member
  BY DEF Crash, Fault, Typed, TypeOK
<1>2. \A j \in Instances \ {i} : pc[j] # "idle" => log'[Offset(j)'] = log[Offset(j)]
  BY <1>1, MessageStays
<1>3. Reopening(e)' = Reopening(e)
  BY <1>1 DEF Reopening
<1>4. Late(e)' = Late(e) \ {i}
  BY <1>1, <1>2, NoneAssumption DEF Late
<1>5. Cardinality(Late(e))' <= Cardinality(Late(e))
  BY <1>4, BudgetTypes, ProcessesAssumption, FS_Subset
<1>6. /\ Cardinality(Late(e)) \in Nat /\ Cardinality(Late(e))' \in Nat
      /\ Cardinality(Reopening(e)) \in Nat
      /\ Due(e) \in {0, 1} /\ Due(e)' \in {0, 1}
      /\ effects[e] \in Nat /\ faults \in Nat
  BY BudgetTypes
<1>7. QED
  BY <1>1, <1>3, <1>5, <1>6 DEF Budget

\* Every step stays within the budget of faults.
LEMMA BudgetNext ==
    ASSUME Typed, Typed', FaultsPayForEffects, [Next]_vars
    PROVE  FaultsPayForEffects'
<1> USE DEF kafka, inst, db, rep, seen
<1> SUFFICES ASSUME NEW e \in Events PROVE Budget(e)' <= 1 + faults'
  BY DEF FaultsPayForEffects, Budget
<1>g. Grows
  BY HistoriesGrow
<1>b. Budget(e) <= 1 + faults
  BY DEF FaultsPayForEffects, Budget
<1>n. /\ faults \in Nat /\ effects[e] \in Nat
      /\ effects \in [Events -> Nat]
      /\ processed \in [Events -> {"none", "PROCESSED", "FAILED"}]
      /\ pc \in [Instances -> Points] /\ pos \in [Instances -> 0 .. Len(log)]
  BY TypeParts, BudgetTypes DEF Typed, EventTypes, InstanceTypes
<1> DEFINE Goal == Budget(e)' <= 1 + faults'
<1>1. ASSUME UNCHANGED <<member, pc, pos, effects, processed, rpc, rid>>, faults' = faults
      PROVE  Goal
  <2>1. Reopening(e)' = Reopening(e)
    BY <1>1, <1>g DEF Reopening, Typed, ReplaysOnCourse, Grows
  <2>2. Reopened(e) = 0
    BY <1>1 DEF Reopened
  <2>3. QED
    BY <1>1, <1>g, <1>b, <1>n, <2>1, <2>2, ReplayBudget
\* Kafka and the group.
<1>2. ASSUME NEW i \in Instances, Join(i) \/ Rebalance(i) PROVE Goal
  <2>1. member \in Instances \cup {None}
    BY DEF Typed, TypeOK
  <2>2. QED
    BY <1>2, <1>g, <1>b, <2>1, AssignBudget DEF Join, Rebalance, Fault
<1>3. ASSUME NEW i \in Instances, Crash(i) PROVE Goal
  BY <1>3, <1>g, <1>b, CrashBudget
<1>4. ASSUME NEW i \in Instances, Receive(i) PROVE Goal
  <2>1. /\ pc[i] = "idle" /\ member = i
        /\ pc'[i] \in {"check", "exhausted"} /\ (pc'[i] = "exhausted" => Message(i) = Malformed)
        /\ \A j \in Instances \ {i} : pc'[j] = pc[j]
        /\ UNCHANGED <<member, log, pos, rpc, rid, dlq, effects, processed, faults>>
    BY <1>4, <1>n DEF Receive
  <2>2. Late(e)' = Late(e) /\ Reopening(e)' = Reopening(e)
    BY <2>1 DEF Late, Reopening, Offset
  <2>3. Due(e)' = Due(e)
    BY <2>1, MalformedAssumption DEF Due, OwnerAt, Offset, Message
  <2>4. QED
    BY <1>b, <2>1, <2>2, <2>3 DEF Budget
\* handleMessage.
<1>5. ASSUME NEW i \in Instances, CheckProcessed(i) \/ CheckError(i) PROVE Goal
  <2>1. /\ pc[i] = "check" /\ pc'[i] \in {"process", "idle"}
        /\ \A j \in Instances \ {i} : UNCHANGED <<pc[j], pos[j]>>
        /\ pc'[i] # "idle" => UNCHANGED pos[i]
        /\ pc'[i] = "process" => processed[Message(i)] # "PROCESSED"
        /\ UNCHANGED <<member, rpc, rid>>
    BY <1>5, <1>n DEF CheckProcessed, CheckError, Return, AlreadyProcessed
  <2>2. UNCHANGED <<effects, processed>> /\ faults' \in {faults, faults + 1}
    BY <1>5, <1>n DEF CheckProcessed, CheckError, Fault
  <2>3. e = Message(i) =>
          /\ effects'[e] + OwnerOwes(pc'[i], processed'[e]) + faults
               <= effects[e] + OwnerOwes(pc[i], processed[e]) + faults'
          /\ effects'[e] + StrayOwes(pc'[i]) + Reopened(e) + faults
               <= effects[e] + StrayOwes(pc[i]) + faults'
    BY <1>n, <2>1, <2>2 DEF OwnerOwes, StrayOwes, Reopened
  <2>4. faults <= faults' /\ pc[i] # "idle"
    BY <1>n, <2>1, <2>2
  <2>5. QED
    BY <1>g, <1>b, <2>1, <2>2, <2>3, <2>4, HandlerBudget
<1>6. ASSUME NEW i \in Instances, ProcessOk(i) PROVE Goal
  <2>1. /\ pc[i] = "process" /\ pc'[i] = "mark"
        /\ \A j \in Instances \ {i} : UNCHANGED <<pc[j], pos[j]>>
        /\ pc'[i] # "idle" => UNCHANGED pos[i]
        /\ UNCHANGED <<member, rpc, rid>>
    BY <1>6, <1>n DEF ProcessOk
  <2>2. /\ e # Message(i) => UNCHANGED <<effects[e], processed[e]>>
        /\ e = Message(i) => effects'[e] = effects[e] + 1 /\ UNCHANGED processed[e]
        /\ faults' = faults
    BY <1>6, <1>n DEF ProcessOk
  <2>3. QED
    BY <1>g, <1>b, <1>n, <2>1, <2>2, HandlerBudget DEF OwnerOwes, StrayOwes, Reopened
<1>x. ASSUME NEW i \in Instances, ProcessThrowsLate(i) PROVE Goal
  <2>1. /\ pc[i] = "process" /\ pc'[i] \in {"process", "exhausted"}
        /\ \A j \in Instances \ {i} : UNCHANGED <<pc[j], pos[j]>>
        /\ pc'[i] # "idle" => UNCHANGED pos[i]
        /\ UNCHANGED <<member, rpc, rid>>
    BY <1>x, <1>n DEF ProcessThrowsLate, Failed
  <2>2. /\ e # Message(i) => UNCHANGED <<effects[e], processed[e]>>
        /\ e = Message(i) => effects'[e] = effects[e] + 1 /\ UNCHANGED processed[e]
        /\ faults' = faults + 1
    BY <1>x, <1>n DEF ProcessThrowsLate, Fault
  <2>3. QED
    BY <1>g, <1>b, <1>n, <2>1, <2>2, HandlerBudget DEF OwnerOwes, StrayOwes, Reopened
<1>7. ASSUME NEW i \in Instances, ProcessThrows(i) PROVE Goal
  <2>1. /\ pc[i] = "process" /\ pc'[i] \in {"process", "exhausted"}
        /\ \A j \in Instances \ {i} : UNCHANGED <<pc[j], pos[j]>>
        /\ pc'[i] # "idle" => UNCHANGED pos[i]
        /\ UNCHANGED <<member, rpc, rid>>
    BY <1>7, <1>n DEF ProcessThrows, Failed
  <2>2. /\ e # Message(i) => UNCHANGED <<effects[e], processed[e]>>
        /\ e = Message(i) => UNCHANGED <<effects[e], processed[e]>>
        /\ faults' = faults
    BY <1>7, <1>n DEF ProcessThrows
  <2>3. QED
    BY <1>g, <1>b, <1>n, <2>1, <2>2, HandlerBudget DEF OwnerOwes, StrayOwes, Reopened
<1>8. ASSUME NEW i \in Instances, MarkProcessed(i) PROVE Goal
  <2>1. /\ pc[i] = "mark" /\ pc'[i] = "idle"
        /\ \A j \in Instances \ {i} : UNCHANGED <<pc[j], pos[j]>>
        /\ pc'[i] # "idle" => UNCHANGED pos[i]
        /\ UNCHANGED <<member, rpc, rid>>
    BY <1>8, <1>n DEF MarkProcessed, Return
  <2>2. /\ e # Message(i) => UNCHANGED <<effects[e], processed[e]>>
        /\ e = Message(i) => effects'[e] = effects[e] /\ processed'[e] = "PROCESSED"
        /\ faults' = faults
    BY <1>8, <1>n DEF MarkProcessed
  <2>3. QED
    BY <1>g, <1>b, <1>n, <2>1, <2>2, HandlerBudget DEF OwnerOwes, StrayOwes, Reopened
<1>9. ASSUME NEW i \in Instances, MarkError(i) PROVE Goal
  <2>1. /\ pc[i] = "mark" /\ pc'[i] \in {"process", "exhausted"}
        /\ \A j \in Instances \ {i} : UNCHANGED <<pc[j], pos[j]>>
        /\ pc'[i] # "idle" => UNCHANGED pos[i]
        /\ UNCHANGED <<member, rpc, rid>>
    BY <1>9, <1>n DEF MarkError, Failed
  <2>2. /\ e # Message(i) => UNCHANGED <<effects[e], processed[e]>>
        /\ e = Message(i) => effects'[e] = effects[e] /\ processed'[e] \in {processed[e], "PROCESSED"}
        /\ faults' = faults + 1
    BY <1>9, <1>n DEF MarkError, Fault
  <2>3. /\ OwnerOwes(pc[i], processed[e]) = 0 /\ OwnerOwes(pc'[i], processed'[e]) = 1
        /\ StrayOwes(pc[i]) = 0 /\ StrayOwes(pc'[i]) = 1
        /\ e = Message(i) => Reopened(e) = 0
    BY <2>1, <2>2 DEF OwnerOwes, StrayOwes, Reopened
  <2>4. QED
    BY <1>g, <1>b, <1>n, <2>1, <2>2, <2>3, HandlerBudget
<1>10. ASSUME NEW i \in Instances, DlqPersist(i) PROVE Goal
  <2>1. /\ pc[i] = "exhausted" /\ pc'[i] = "dlqSend"
        /\ \A j \in Instances \ {i} : UNCHANGED <<pc[j], pos[j]>>
        /\ pc'[i] # "idle" => UNCHANGED pos[i]
        /\ UNCHANGED <<member, rpc, rid>>
    BY <1>10, <1>n DEF DlqPersist
  <2>2. /\ e # Message(i) => UNCHANGED <<effects[e], processed[e]>>
        /\ e = Message(i) => effects'[e] = effects[e] /\ processed'[e] = "FAILED"
        /\ faults' = faults
    BY <1>10, <1>n, MalformedAssumption DEF DlqPersist
  <2>3. QED
    BY <1>g, <1>b, <1>n, <2>1, <2>2, HandlerBudget DEF OwnerOwes, StrayOwes, Reopened
<1>11. ASSUME NEW i \in Instances, DlqPersistError(i) PROVE Goal
  <2>1. /\ pc[i] = "exhausted" /\ pc'[i] = "idle"
        /\ \A j \in Instances \ {i} : UNCHANGED <<pc[j], pos[j]>>
        /\ pc'[i] # "idle" => UNCHANGED pos[i]
        /\ UNCHANGED <<member, rpc, rid>>
    BY <1>11, <1>n DEF DlqPersistError, Return
  <2>2. /\ e # Message(i) => UNCHANGED <<effects[e], processed[e]>>
        /\ e = Message(i) => UNCHANGED <<effects[e], processed[e]>>
        /\ faults' = faults + 1
    BY <1>11, <1>n DEF DlqPersistError, Fault
  <2>3. e = Message(i) =>
          /\ effects'[e] + OwnerOwes(pc'[i], processed'[e]) + faults
               <= effects[e] + OwnerOwes(pc[i], processed[e]) + faults'
          /\ effects'[e] + StrayOwes(pc'[i]) + Reopened(e) + faults
               <= effects[e] + StrayOwes(pc[i]) + faults'
    BY <1>n, <2>1, <2>2 DEF OwnerOwes, StrayOwes, Reopened
  <2>4. faults <= faults' /\ pc[i] # "idle"
    BY <1>n, <2>1, <2>2
  <2>5. QED
    BY <1>g, <1>b, <2>1, <2>2, <2>3, <2>4, HandlerBudget
<1>12. ASSUME NEW i \in Instances, DlqSend(i) PROVE Goal
  <2>1. /\ pc[i] = "dlqSend" /\ pc'[i] = "dlqMark"
        /\ \A j \in Instances \ {i} : UNCHANGED <<pc[j], pos[j]>>
        /\ pc'[i] # "idle" => UNCHANGED pos[i]
        /\ UNCHANGED <<member, rpc, rid>>
    BY <1>12, <1>n DEF DlqSend
  <2>2. /\ e # Message(i) => UNCHANGED <<effects[e], processed[e]>>
        /\ e = Message(i) => UNCHANGED <<effects[e], processed[e]>>
        /\ faults' = faults
    BY <1>12, <1>n DEF DlqSend
  <2>3. e = Message(i) =>
          /\ effects'[e] + OwnerOwes(pc'[i], processed'[e]) + faults
               <= effects[e] + OwnerOwes(pc[i], processed[e]) + faults'
          /\ effects'[e] + StrayOwes(pc'[i]) + Reopened(e) + faults
               <= effects[e] + StrayOwes(pc[i]) + faults'
    BY <1>n, <2>1, <2>2 DEF OwnerOwes, StrayOwes, Reopened
  <2>4. faults <= faults' /\ pc[i] # "idle"
    BY <1>n, <2>1, <2>2
  <2>5. QED
    BY <1>g, <1>b, <2>1, <2>2, <2>3, <2>4, HandlerBudget
<1>13. ASSUME NEW i \in Instances, DlqSendError(i) \/ DlqMark(i) PROVE Goal
  <2>1. /\ pc[i] \in {"dlqSend", "dlqMark"} /\ pc'[i] = "idle"
        /\ \A j \in Instances \ {i} : UNCHANGED <<pc[j], pos[j]>>
        /\ UNCHANGED <<member, rpc, rid>>
    BY <1>13, <1>n DEF DlqSendError, DlqMark, Return
  <2>2. UNCHANGED <<effects, processed>> /\ faults' \in {faults, faults + 1}
    BY <1>13, <1>n DEF DlqSendError, DlqMark, Fault
  <2>3. e = Message(i) =>
          /\ effects'[e] + OwnerOwes(pc'[i], processed'[e]) + faults
               <= effects[e] + OwnerOwes(pc[i], processed[e]) + faults'
          /\ effects'[e] + StrayOwes(pc'[i]) + Reopened(e) + faults
               <= effects[e] + StrayOwes(pc[i]) + faults'
    BY <1>n, <2>1, <2>2 DEF OwnerOwes, StrayOwes, Reopened
  <2>4. faults <= faults' /\ pc[i] # "idle"
    BY <1>n, <2>1, <2>2
  <2>5. QED
    BY <1>g, <1>b, <2>1, <2>2, <2>3, <2>4, HandlerBudget
\* replayDLQ.
<1>r. ASSUME NEW r \in Replayers, UNCHANGED <<member, pc, pos, effects>>, rpc[r] # "idle",
             NEW p \in ReplayPoints, ReplayTo(r, p), faults' \in {faults, faults + 1},
             p = "reset" => rpc[r] = "begin", p # "begin",
             Reopened(e) = 0 \/ (rpc[r] = "reset" /\ p # "reset" /\ dlq[rid[r]].msg = e)
      PROVE  Goal
  <2>1. rpc'[r] = p /\ UNCHANGED rid /\ \A q \in Replayers \ {r} : UNCHANGED rpc[q]
    BY <1>r DEF ReplayTo, Typed, TypeOK
  <2>2. dlq'[rid'[r]].msg = dlq[rid[r]].msg
    BY <1>r, <1>g, <2>1 DEF Grows, Typed, ReplaysOnCourse
  <2>3. (IF r \in Reopening(e)' THEN 1 ELSE 0) + Reopened(e)
          <= (IF r \in Reopening(e) THEN 1 ELSE 0)
    BY <1>r, <2>1, <2>2 DEF Reopening, Reopened
  <2>4. (IF r \in Reopening(e)' THEN 1 ELSE 0) + Reopened(e) + faults
          <= (IF r \in Reopening(e) THEN 1 ELSE 0) + faults'
    <3>1. Reopened(e) \in {0, 1}
      BY DEF Reopened
    <3>2. QED
      BY <1>r, <1>n, <2>3, <3>1
  <2>5. QED
    BY <1>r, <1>g, <1>b, <2>1, <2>4, ReplayBudget
<1>14. ASSUME NEW r \in Replayers, NEW d \in 1 .. Len(dlq), ReplayStart(r, d) PROVE Goal
  <2>1. /\ \A q \in Replayers \ {r} : UNCHANGED <<rpc[q], rid[q]>>
        /\ faults' = faults + 1 /\ rpc[r] = "idle"
        /\ UNCHANGED <<member, pc, pos, effects, processed>>
    BY <1>14 DEF ReplayStart, Fault, Typed, TypeOK
  <2>2. Reopened(e) = 0 /\ r \notin Reopening(e)
    BY <2>1 DEF Reopened, Reopening
  <2>3. QED
    BY <1>g, <1>b, <1>n, <2>1, <2>2, ReplayBudget
<1>15. ASSUME NEW r \in Replayers, ReplayBegin(r) \/ ReplaySend(r) \/ ReplayResolve(r)
       PROVE  Goal
  BY <1>15, <1>r DEF ReplayBegin, ReplaySend, ReplayResolve, ReplayPoints, Reopened
<1>16. ASSUME NEW r \in Replayers, ReplayRevert(r) \/ ReplayCrash(r) PROVE Goal
  BY <1>16, <1>r DEF ReplayRevert, ReplayCrash, ReplayPoints, Reopened, Fault
<1>17. ASSUME NEW r \in Replayers, ReplayReset(r) PROVE Goal
  BY <1>17, <1>n, <1>r DEF ReplayReset, ReplayPoints, Reopened
<1>18. ASSUME NEW r \in Replayers, ReplayError(r) PROVE Goal
  BY <1>18, <1>n, <1>r DEF ReplayError, ReplayPoints, Reopened, Fault
<1>19. Goal
  BY <1>1, <1>2, <1>3, <1>4, <1>5, <1>6, <1>x, <1>7, <1>8, <1>9, <1>10, <1>11, <1>12, <1>13, <1>14,
     <1>15, <1>16, <1>17, <1>18
     DEF Next, Handle, HandleFault, Replay, vars, Produce, Commit
<1>20. QED
  BY <1>19

-----------------------------------------------------------------------------
(* The theorems *)

\* The empty partition with idle instances satisfies the invariant.
LEMMA InvInit == Init => Inv
<1> SUFFICES ASSUME Init PROVE Inv
  OBVIOUS
<1>1. Typed
  BY TypedInit
<1>2. Losses /\ Replays
  <2>1. committed = 0 /\ Len(dlq) = 0 /\ member = None
    BY DEF Init
  <2>2. QED
    BY <2>1, NoneAssumption
       DEF Init, Losses, Replays, LossesAccounted, ProgressAccounted,
           ReplayedIsResent, ResendBeforeResolve
<1>3. ASSUME NEW e \in Events
      PROVE  effects[e] + Due(e) + Cardinality(Late(e)) + Cardinality(Reopening(e)) <= 1 + faults
  <2>1. Late(e) = {} /\ Reopening(e) = {}
    BY DEF Init, Late, Reopening
  <2>2. Cardinality(Late(e)) = 0 /\ Cardinality(Reopening(e)) = 0
    BY <2>1, FS_EmptySet
  <2>3. Due(e) \in {0, 1} /\ effects[e] = 0 /\ faults = 0
    BY DEF Init, Due
  <2>4. QED
    BY <2>2, <2>3
<1>4. QED
  BY <1>1, <1>2, <1>3 DEF Inv, FaultsPayForEffects

\* Every step preserves the invariant.
LEMMA InvNext == Inv /\ [Next]_vars => Inv'
BY TypedNext, LossesNext, ReplaysNext, BudgetNext DEF Inv

\* The invariant holds in every reachable state.
THEOREM Invariance == Spec => []Inv
BY InvInit, InvNext, PTL DEF Spec

\* Consumer group and replay requests keep their state well formed, for every
\* number of instances, requests, retries, messages and faults.
THEOREM TypeCorrect == Spec => []TypeOK
<1>1. Inv => TypeOK
  BY DEF Inv, Typed
<1>2. QED
  BY <1>1, Invariance, PTL

\* handleMessage and auto-commit lose no message but those whose DLQ transaction
\* failed or that came before the group's first commit.
THEOREM Accounting == Spec => []LossesAccounted
<1>1. Inv => LossesAccounted
  BY DEF Inv, Losses
<1>2. QED
  BY <1>1, Invariance, PTL

\* replayDLQ marks a row REPLAYED only when its event is in the topic again,
\* whatever requests overlap, fail or die.
THEOREM ReplayTruthful == Spec => []ReplayedIsResent
<1>1. Inv => ReplayedIsResent
  BY DEF Inv, Replays
<1>2. QED
  BY <1>1, Invariance, PTL

\* isEventProcessed and markEventProcessed keep processEvent from taking effect
\* more than once plus once for every fault.
THEOREM DuplicatesBounded == Spec => []DuplicatesNeedFaults
<1>1. Inv => DuplicatesNeedFaults
  <2> SUFFICES ASSUME Inv, NEW e \in Events PROVE effects[e] <= 1 + faults
    BY DEF DuplicatesNeedFaults
  <2>1. /\ Late(e) \in SUBSET Instances /\ Reopening(e) \in SUBSET Replayers
        /\ Due(e) \in Nat /\ effects[e] \in Nat /\ faults \in Nat
    BY BoundsAssumption DEF Late, Reopening, Due, Inv, Typed, TypeOK
  <2>2. Cardinality(Late(e)) \in Nat /\ Cardinality(Reopening(e)) \in Nat
    BY <2>1, ProcessesAssumption, FS_Subset, FS_CardinalityType
  <2>3. QED
    BY <2>1, <2>2 DEF Inv, FaultsPayForEffects
<1>2. QED
  BY <1>1, Invariance, PTL

=============================================================================

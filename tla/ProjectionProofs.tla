-------------------------- MODULE ProjectionProofs --------------------------
(***************************************************************************)
(* Proofs about Projection for every scenario, every number of instances   *)
(* and replay requests and every value of the bounds.                      *)
(***************************************************************************)
EXTENDS Projection, ContractsProofs, WellFoundedInduction, TLAPS

\* A sequence, whatever its elements are.
IsSequence(s) == s \in Seq(ToSet(s))

Shapes ==
    /\ IsSequence(store)
    /\ pc = [i \in Instances |-> pc[i]]
    /\ cur = [i \in Instances |-> cur[i]]
    /\ rpc = [r \in Replayers |-> rpc[r]]
    /\ todo = [r \in Replayers |-> todo[r]]
    /\ \A r \in Replayers : IsSequence(todo[r])

\* Past its first step, a handler works on an event of the store.
HandledIsStored ==
    \A i \in Instances : pc[i] \in {"check", "apply", "finish"} => cur[i] \in ToSet(store)

\* A replay works on events of the store, and applies one only if there is one.
ReplayedIsStored ==
    \A r \in Replayers : /\ ToSet(todo[r]) \subseteq ToSet(store)
                         /\ rpc[r] = "apply" => todo[r] # <<>>

\* The inductive invariant.
StoreInv == Shapes /\ HandledIsStored /\ ReplayedIsStored /\ NothingUnstored

-----------------------------------------------------------------------------
(* Lemmas on sequences *)

\* A member of Seq(S) is a sequence.
LEMMA SequenceIsSequence ==
    ASSUME NEW S, NEW s \in Seq(S)
    PROVE  IsSequence(s)
BY SMT DEF IsSequence, ToSet

\* Append adds one element.
LEMMA AppendAdds ==
    ASSUME NEW S, NEW s \in Seq(S), NEW e \in S
    PROVE  ToSet(Append(s, e)) = ToSet(s) \cup {e}
<1> DEFINE t == Append(s, e)
<1>1. /\ Len(s) \in Nat /\ DOMAIN s = 1 .. Len(s) /\ DOMAIN t = 1 .. Len(s) + 1
      /\ \A k \in 1 .. Len(s) : t[k] = s[k]
      /\ t[Len(s) + 1] = e
  BY SMT
<1> HIDE DEF t
<1>2. ToSet(t) \subseteq ToSet(s) \cup {e}
  BY <1>1, SMT DEF ToSet
<1>3. ToSet(s) \cup {e} \subseteq ToSet(t)
  BY <1>1, SMT DEF ToSet
<1>4. QED
  BY <1>2, <1>3 DEF t

\* The elements after Append: the old ones and the new one.
LEMMA AppendedElements ==
    ASSUME NEW s, IsSequence(s), NEW e
    PROVE  ToSet(Append(s, e)) = ToSet(s) \cup {e} /\ IsSequence(Append(s, e))
<1> DEFINE S == ToSet(s) \cup {e}
<1>1. s \in Seq(S)
  BY SMT DEF IsSequence, ToSet
<1>2. Append(s, e) \in Seq(S)
  BY <1>1, SMT
<1>3. ToSet(Append(s, e)) = S
  <2>1. e \in S
    OBVIOUS
  <2>2. QED
    BY <1>1, <2>1, AppendAdds
<1>4. QED
  BY <1>2, <1>3 DEF IsSequence

\* Tail drops the head and adds nothing.
LEMMA TailElements ==
    ASSUME NEW s, IsSequence(s), s # <<>>
    PROVE  /\ ToSet(Tail(s)) \subseteq ToSet(s)
           /\ IsSequence(Tail(s))
           /\ Head(s) \in ToSet(s)
<1>1. s \in Seq(ToSet(s))
  BY DEF IsSequence
<1>2. Tail(s) \in Seq(ToSet(s)) /\ Head(s) \in ToSet(s)
  BY <1>1, SMT
<1>3. ToSet(Tail(s)) \subseteq ToSet(s)
  BY <1>1, SMT DEF ToSet
<1>4. QED
  BY <1>2, <1>3, SequenceIsSequence

\* The empty sequence has no elements.
LEMMA EmptySequence == IsSequence(<<>>) /\ ToSet(<<>>) = {}
BY SMT DEF IsSequence, ToSet

\* appendToEventStore only adds to the store, and the event is in it afterwards.
LEMMA StoreGrows ==
    ASSUME IsSequence(store), NEW e
    PROVE  /\ IsSequence(Appended(e))
           /\ ToSet(store) \subseteq ToSet(Appended(e))
           /\ e \in ToSet(Appended(e))
<1>1. CASE e \in ToSet(store)
  BY <1>1 DEF Appended
<1>2. CASE e \notin ToSet(store)
  BY <1>2, AppendedElements DEF Appended
<1>3. QED
  BY <1>1, <1>2

-----------------------------------------------------------------------------
(* The invariant is inductive *)

\* The events of the past are stored; nobody works on anything yet.
LEMMA InitStoreInv == Init => StoreInv
<1> SUFFICES ASSUME Init PROVE StoreInv
  OBVIOUS
<1>1. PICK s \in Scenarios : store = s.past /\ applied = ToSet(s.past) /\ notified = ToSet(s.past)
  BY DEF Init
<1>2. IsSequence(store)
  BY <1>1, ScenariosAssumption, SequenceIsSequence
<1>3. Shapes
  BY <1>2, EmptySequence DEF Init, Shapes
<1>4. HandledIsStored
  BY DEF Init, HandledIsStored
<1>5. ReplayedIsStored
  BY EmptySequence DEF Init, ReplayedIsStored
<1>6. NothingUnstored
  BY <1>1 DEF NothingUnstored
<1>7. QED
  BY <1>3, <1>4, <1>5, <1>6 DEF StoreInv

\* A step that leaves the replays alone and moves instance i, if at all, to the
\* start or, with an event of the store, further on.
LEMMA HandlerStep ==
    ASSUME StoreInv, NEW i \in Instances, NEW p, NEW e,
           pc' = [pc EXCEPT ![i] = p], cur' = [cur EXCEPT ![i] = e],
           p \in {"check", "apply", "finish"} => e \in ToSet(store)',
           ToSet(store) \subseteq ToSet(store)', IsSequence(store)',
           UNCHANGED rep,
           (applied \cup notified)' \subseteq ToSet(store)'
    PROVE  StoreInv'
<1>1. Shapes'
  BY DEF StoreInv, Shapes, rep
<1>2. HandledIsStored'
  BY DEF StoreInv, Shapes, HandledIsStored
<1>3. ReplayedIsStored'
  BY DEF StoreInv, Shapes, ReplayedIsStored, rep
<1>4. NothingUnstored'
  BY DEF NothingUnstored
<1>5. QED
  BY <1>1, <1>2, <1>3, <1>4 DEF StoreInv

\* A step that changes neither handlers nor replays and stores nothing.
LEMMA IdleStep ==
    ASSUME StoreInv, UNCHANGED <<mem, rep, store, notified>>, applied' \subseteq applied
    PROVE  StoreInv'
BY DEF StoreInv, Shapes, HandledIsStored, ReplayedIsStored, NothingUnstored, mem, rep

\* A step of a replay request: it stores nothing and has the rest to do.
LEMMA ReplayerStep ==
    ASSUME StoreInv, NEW r \in Replayers, NEW p, NEW es,
           rpc' = [rpc EXCEPT ![r] = p], todo' = [todo EXCEPT ![r] = es],
           IsSequence(es), ToSet(es) \subseteq ToSet(store),
           p = "apply" => es # <<>>,
           UNCHANGED <<mem, store, notified>>, applied' \subseteq ToSet(store)
    PROVE  StoreInv'
<1>1. Shapes'
  BY DEF StoreInv, Shapes, mem
<1>2. HandledIsStored'
  BY DEF StoreInv, HandledIsStored, mem
<1>3. ReplayedIsStored'
  BY DEF StoreInv, Shapes, ReplayedIsStored
<1>4. NothingUnstored'
  BY DEF StoreInv, NothingUnstored
<1>5. QED
  BY <1>1, <1>2, <1>3, <1>4 DEF StoreInv

\* An instance that works on an event keeps it while it moves on.
LEMMA KeepsEvent ==
    ASSUME StoreInv, NEW i \in Instances, NEW p, Goto(i, p)
    PROVE  /\ pc' = [pc EXCEPT ![i] = p]
           /\ cur' = [cur EXCEPT ![i] = cur[i]]
BY DEF StoreInv, Shapes, Goto

\* handleMessage begins, or skips a message: nothing is past its first step.
LEMMA TakeStep ==
    ASSUME StoreInv, NEW i \in Instances, NEW t, Take(i, t)
    PROVE  StoreInv'
<1> DEFINE e == log[t][taken[t] + 1]
<1>1. CASE e \in processed
  BY <1>1, IdleStep DEF Take, model
<1>2. CASE e \notin processed
  <2>1. /\ pc' = [pc EXCEPT ![i] = "append"] /\ cur' = [cur EXCEPT ![i] = e]
        /\ UNCHANGED <<store, applied, notified>> /\ UNCHANGED rep
    BY <1>2 DEF Take, model
  <2>2. QED
    BY <2>1, HandlerStep DEF StoreInv, Shapes, NothingUnstored
<1>3. QED
  BY <1>1, <1>2

\* The steps of a handler (processEvent in handleMessage).
LEMMA HandleStep ==
    ASSUME StoreInv, NEW i \in Instances, Handle(i)
    PROVE  StoreInv'
<1>1. IsSequence(store) /\ applied \cup notified \subseteq ToSet(store)
  BY DEF StoreInv, Shapes, NothingUnstored
<1>2. CASE AppendToEventStore(i)
  <2>1. /\ Goto(i, "check") /\ store' = Appended(cur[i]) /\ UNCHANGED rep
        /\ UNCHANGED <<applied, notified>>
    BY <1>2 DEF AppendToEventStore, model
  <2>2. IsSequence(store)' /\ ToSet(store) \subseteq ToSet(store)' /\ cur[i] \in ToSet(store)'
    BY <1>1, <2>1, StoreGrows
  <2>3. pc' = [pc EXCEPT ![i] = "check"] /\ cur' = [cur EXCEPT ![i] = cur[i]]
    BY <2>1, KeepsEvent
  <2>4. QED
    BY <1>1, <2>1, <2>2, <2>3, HandlerStep
<1>3. CASE CheckApplied(i)
  <2> DEFINE p == IF IsApplied(cur[i]) THEN "finish" ELSE "apply"
  <2>1. Goto(i, p) /\ UNCHANGED rep /\ UNCHANGED <<store, applied, notified>> /\ pc[i] = "check"
    BY <1>3 DEF CheckApplied, model
  <2>2. cur[i] \in ToSet(store)
    BY <2>1 DEF StoreInv, HandledIsStored
  <2>3. pc' = [pc EXCEPT ![i] = p] /\ cur' = [cur EXCEPT ![i] = cur[i]]
    BY <2>1, KeepsEvent
  <2>4. QED
    BY <1>1, <2>1, <2>2, <2>3, HandlerStep
<1>4. CASE ApplyEvent(i)
  <2>1. /\ Goto(i, "finish") /\ UNCHANGED rep /\ UNCHANGED <<store, notified>>
        /\ applied' = applied \cup {cur[i]} /\ pc[i] = "apply"
    BY <1>4 DEF ApplyEvent, CommitEvent
  <2>2. cur[i] \in ToSet(store)
    BY <2>1 DEF StoreInv, HandledIsStored
  <2>3. pc' = [pc EXCEPT ![i] = "finish"] /\ cur' = [cur EXCEPT ![i] = cur[i]]
    BY <2>1, KeepsEvent
  <2>4. QED
    BY <1>1, <2>1, <2>2, <2>3, HandlerStep
<1>5. CASE Finish(i)
  <2>1. /\ pc' = [pc EXCEPT ![i] = "idle"] /\ cur' = [cur EXCEPT ![i] = None]
        /\ UNCHANGED rep /\ UNCHANGED <<store, applied>>
        /\ notified' = notified \cup {cur[i]} /\ pc[i] = "finish"
    BY <1>5 DEF Finish, Return, EmitLiveNotifications, model
  <2>2. cur[i] \in ToSet(store)
    BY <2>1 DEF StoreInv, HandledIsStored
  <2>3. QED
    BY <1>1, <2>1, <2>2, HandlerStep
<1>6. CASE \E t \in Topics : TakeNext(i, t)
  BY <1>6, TakeStep DEF TakeNext
<1>7. QED
  BY <1>2, <1>3, <1>4, <1>5, <1>6 DEF Handle

\* What goes wrong in a handler: it announced at most what it had stored.
LEMMA FailureStep ==
    ASSUME StoreInv, NEW i \in Instances, Retry(i) \/ GiveUp(i) \/ Crash(i)
    PROVE  StoreInv'
<1>1. IsSequence(store) /\ applied \cup notified \subseteq ToSet(store)
  BY DEF StoreInv, Shapes, NothingUnstored
<1>2. pc[i] = "finish" => cur[i] \in ToSet(store)
  BY DEF StoreInv, HandledIsStored
<1>3. UNCHANGED rep /\ UNCHANGED <<store, applied>>
  BY DEF Retry, GiveUp, Crash, model
<1>4. (applied \cup notified)' \subseteq ToSet(store)'
  <2>1. CASE UNCHANGED notified
    BY <1>1, <1>3, <2>1
  <2>2. CASE pc[i] = "finish" /\ EmitLiveNotifications(cur[i])
    BY <1>1, <1>2, <1>3, <2>2 DEF EmitLiveNotifications
  <2>3. QED
    BY <2>1, <2>2 DEF Retry, GiveUp, Crash, CutOff
<1>5. CASE Retry(i)
  <2>1. Goto(i, "append")
    BY <1>5 DEF Retry
  <2>2. pc' = [pc EXCEPT ![i] = "append"] /\ cur' = [cur EXCEPT ![i] = cur[i]]
    BY <2>1, KeepsEvent
  <2>3. ToSet(store) \subseteq ToSet(store)' /\ IsSequence(store)'
    BY <1>1, <1>3
  <2>4. QED
    BY <1>3, <1>4, <2>2, <2>3, HandlerStep
<1>6. CASE GiveUp(i) \/ Crash(i)
  <2>1. pc' = [pc EXCEPT ![i] = "idle"] /\ cur' = [cur EXCEPT ![i] = None]
    BY <1>6 DEF GiveUp, Crash, Return
  <2>2. QED
    BY <1>1, <1>3, <1>4, <2>1, HandlerStep
<1>7. QED
  BY <1>5, <1>6

\* The steps of replayAggregate.
LEMMA ReplayStep ==
    ASSUME StoreInv, NEW r \in Replayers, ReplayStart(r) \/ Replay(r) \/ ReplayFails(r)
    PROVE  StoreInv'
<1>1. /\ IsSequence(store) /\ applied \subseteq ToSet(store)
      /\ IsSequence(todo[r]) /\ ToSet(todo[r]) \subseteq ToSet(store)
      /\ todo = [todo EXCEPT ![r] = todo[r]] /\ rpc = [rpc EXCEPT ![r] = rpc[r]]
      /\ rpc[r] = "apply" => todo[r] # <<>>
  BY DEF StoreInv, Shapes, NothingUnstored, ReplayedIsStored
<1>2. UNCHANGED <<mem, store, notified>>
  BY DEF ReplayStart, Replay, Reset, DeleteRow, DeleteApplied, ReplayCheck, ReplayApply,
         ReplayEnd, ReplayFails, replayFrame
<1>3. CASE ReplayStart(r)
  <2>1. /\ rpc' = [rpc EXCEPT ![r] = "order"] /\ todo' = [todo EXCEPT ![r] = store]
        /\ applied' = applied
    BY <1>3 DEF ReplayStart, ReplayGoto, EventsByAggregate, model
  <2>2. QED
    BY <1>1, <1>2, <2>1, ReplayerStep
<1>4. CASE Reset(r)
  <2>1. PICK p \in {"payment", "shipment", "applied", "check"} :
            rpc' = [rpc EXCEPT ![r] = p] /\ UNCHANGED todo /\ applied' \subseteq applied
    BY <1>4 DEF Reset, DeleteRow, DeleteApplied, ReplayGoto
  <2>2. QED
    BY <1>1, <1>2, <2>1, ReplayerStep
<1>5. CASE ReplayCheck(r)
  <2>1. todo[r] # <<>> /\ applied' = applied
    BY <1>5 DEF ReplayCheck, model
  <2>2. CASE ReplayNext(r) /\ UNCHANGED rpc
    <3>1. todo' = [todo EXCEPT ![r] = Tail(todo[r])] /\ rpc' = [rpc EXCEPT ![r] = rpc[r]]
      BY <1>1, <2>2 DEF ReplayNext
    <3>2. rpc[r] = "check"
      BY <1>5 DEF ReplayCheck
    <3>3. QED
      BY <1>1, <1>2, <2>1, <3>1, <3>2, TailElements, ReplayerStep
  <2>3. CASE ReplayGoto(r, "apply") /\ UNCHANGED todo
    BY <1>1, <1>2, <2>1, <2>3, ReplayerStep DEF ReplayGoto
  <2>4. QED
    BY <1>5, <2>2, <2>3 DEF ReplayCheck
<1>6. CASE ReplayApply(r)
  <2>1. /\ rpc' = [rpc EXCEPT ![r] = "check"] /\ todo' = [todo EXCEPT ![r] = Tail(todo[r])]
        /\ applied' = applied \cup {Head(todo[r])} /\ todo[r] # <<>>
    BY <1>1, <1>6 DEF ReplayApply, ReplayGoto, ReplayNext, CommitEvent
  <2>2. /\ IsSequence(Tail(todo[r])) /\ ToSet(Tail(todo[r])) \subseteq ToSet(todo[r])
        /\ Head(todo[r]) \in ToSet(todo[r])
    BY <1>1, <2>1, TailElements
  <2>3. applied' \subseteq ToSet(store)
    BY <1>1, <2>1, <2>2
  <2>4. QED
    BY <1>1, <1>2, <2>1, <2>2, <2>3, ReplayerStep
<1>7. CASE ReplayEnd(r)
  BY <1>1, <1>2, <1>7, ReplayerStep DEF ReplayEnd, ReplayGoto, model
<1>8. CASE ReplayFails(r)
  BY <1>1, <1>2, <1>8, EmptySequence, ReplayerStep DEF ReplayFails, ReplayGoto, model
<1>9. QED
  BY <1>3, <1>4, <1>5, <1>6, <1>7, <1>8 DEF Replay

\* Every step preserves the invariant.
LEMMA NextStoreInv == StoreInv /\ [Next]_vars => StoreInv'
<1> SUFFICES ASSUME StoreInv, [Next]_vars PROVE StoreInv'
  OBVIOUS
<1>1. ASSUME NEW i \in Instances, Handle(i) \/ Retry(i) \/ GiveUp(i) \/ Crash(i)
      PROVE  StoreInv'
  BY <1>1, HandleStep, FailureStep
<1>2. ASSUME NEW i \in Instances, NEW t \in Topics, Steal(i, t)
      PROVE  StoreInv'
  BY <1>2, TakeStep DEF Steal
<1>3. CASE RepublishOrder \/ \E e \in lost : ReplayDlq(e)
  <2>1. PICK e : Resend(e)
    BY <1>3 DEF RepublishOrder, ReplayDlq
  <2>2. QED
    BY <2>1, IdleStep DEF Resend, model
<1>4. ASSUME NEW r \in Replayers, ReplayStart(r) \/ Replay(r) \/ ReplayFails(r)
      PROVE  StoreInv'
  BY <1>4, ReplayStep
<1>5. CASE UNCHANGED vars
  BY <1>5, IdleStep DEF vars, mem, rep
<1>6. QED
  BY <1>1, <1>2, <1>3, <1>4, <1>5 DEF Next

-----------------------------------------------------------------------------
(* Theorems *)

\* What handlers and replays work on is in the event store.
THEOREM StoreInvariance == Spec => []StoreInv
BY InitStoreInv, NextStoreInv, PTL DEF Spec

\* Nothing is projected or announced that the event store does not hold: a
\* replay never forgets what a crash, retry or zombie had projected.
THEOREM ProjectedIsStored == Spec => []NothingUnstored
<1>1. StoreInv => NothingUnstored
  BY DEF StoreInv
<1>2. QED
  BY <1>1, StoreInvariance, PTL

-----------------------------------------------------------------------------
(* The order of the event store *)

\* e has arrived, and unless something was diverted, what lies before it in its
\* topic is stored.
Ready(e) ==
    /\ e \in EventTypes
    /\ \E m \in 1 .. Len(log[TopicOf[e]]) :
         /\ log[TopicOf[e]][m] = e
         /\ lost = {} => \A k \in 1 .. m - 1 : log[TopicOf[e]][k] \in ToSet(store)

\* Topics hold events of their types, and offsets lie within them.
KafkaTypes ==
    /\ log \in [Topics -> Seq(EventTypes)]
    /\ \A t \in Topics : \A n \in 1 .. Len(log[t]) : TopicOf[log[t][n]] = t
    /\ taken \in [Topics -> Nat] /\ \A t \in Topics : taken[t] <= Len(log[t])
    /\ holder \in [Topics -> Instances \cup {None}]
    /\ lost \subseteq EventTypes

\* The holder of a topic works on its next message.
HolderAtNext ==
    \A t \in Topics, i \in Instances :
        holder[t] = i => /\ pc[i] # "idle" /\ TopicOf[cur[i]] = t
                         /\ taken[t] < Len(log[t]) /\ cur[i] = log[t][taken[t] + 1]

\* What is stored or at work had its turn, and what the group has behind it is
\* stored.
InTurn ==
    /\ \A e \in ToSet(store) : Ready(e)
    /\ \A i \in Instances : pc[i] # "idle" => Ready(cur[i])
    /\ processed \subseteq ToSet(store)
    /\ lost = {} => \A t \in Topics : \A k \in 1 .. taken[t] : log[t][k] \in ToSet(store)

\* StoreKeepsTopicOrder, of all places of an event instead of the first.
InOrder(d, e) ==
    /\ d # e
    /\ lost = {} /\ TopicOf[d] = TopicOf[e] =>
         \A m \in 1 .. Len(log[TopicOf[e]]) :
            log[TopicOf[e]][m] = e => \E n \in 1 .. m - 1 : log[TopicOf[e]][n] = d
Ordered == \A j, k \in 1 .. Len(store) : j < k => InOrder(store[j], store[k])

\* The inductive invariant.
OrderInv == StoreInv /\ KafkaTypes /\ HolderAtNext /\ InTurn /\ Ordered

\* The least-number principle, of sets of natural numbers.
LEMMA LeastNumber ==
    ASSUME NEW S \in SUBSET Nat, S # {}
    PROVE  \E m \in S : \A k \in S : m <= k
<1>1. IsWellFoundedOn(OpToRel(<, Nat), Nat)
  BY NatLessThanWellFounded
<1>2. PICK m \in S : \A k \in S : ~(<<k, m>> \in OpToRel(<, Nat))
  BY <1>1, WFMin
<1>3. \A k \in S : k < m => <<k, m>> \in OpToRel(<, Nat)
  BY DEF OpToRel
<1>4. \A k \in S : ~(k < m)
  BY <1>2, <1>3, Zenon
<1>5. ASSUME NEW k \in S PROVE m <= k
  <2>1. k \in Nat /\ m \in Nat
    BY <1>2, <1>5
  <2>2. QED
    BY <1>4, <1>5, <2>1
<1>6. QED
  BY <1>5

\* An event that has arrived has a first place in its topic.
LEMMA FirstPlace ==
    ASSUME KafkaTypes, NEW e \in EventTypes,
           \E n \in 1 .. Len(log[TopicOf[e]]) : log[TopicOf[e]][n] = e
    PROVE  /\ FirstAt(e) \in 1 .. Len(log[TopicOf[e]]) /\ log[TopicOf[e]][FirstAt(e)] = e
           /\ \A k \in 1 .. FirstAt(e) - 1 : log[TopicOf[e]][k] # e
<1> DEFINE S == {n \in 1 .. Len(log[TopicOf[e]]) : log[TopicOf[e]][n] = e}
<1>1. PICK N \in Nat : N = Len(log[TopicOf[e]])
  BY TopicsOfTypes DEF KafkaTypes
<1>2. S \in SUBSET Nat /\ S # {}
  BY <1>1
<1>3. PICK m \in S : \A k \in S : m <= k
  BY <1>2, LeastNumber
<1>4. m \in Nat /\ m \in 1 .. N /\ log[TopicOf[e]][m] = e
  BY <1>1, <1>3
<1>5. \A k \in 1 .. m - 1 : log[TopicOf[e]][k] # e
  <2>1. SUFFICES ASSUME NEW k \in 1 .. m - 1, log[TopicOf[e]][k] = e PROVE FALSE
    OBVIOUS
  <2>2. k \in S
    BY <1>1, <1>4, <2>1
  <2>3. QED
    BY <1>3, <1>4, <2>2
<1>6. QED
  BY <1>1, <1>4, <1>5 DEF FirstAt

\* The elements of a sequence.
LEMMA ElementsOf ==
    ASSUME NEW s, IsSequence(s)
    PROVE  /\ Len(s) \in Nat
           /\ \A k \in 1 .. Len(s) : s[k] \in ToSet(s)
           /\ \A e \in ToSet(s) : \E k \in 1 .. Len(s) : s[k] = e
BY DEF IsSequence, ToSet

\* The order of first places follows from that of all places.
LEMMA OrderOfFirsts ==
    ASSUME StoreInv, KafkaTypes, InTurn, Ordered
    PROVE  StoreKeepsTopicOrder
<1>1. Len(store) \in Nat /\ \A k \in 1 .. Len(store) : store[k] \in ToSet(store)
  BY ElementsOf DEF StoreInv, Shapes
<1>2. SUFFICES ASSUME NEW j \in 1 .. Len(store), NEW k \in 1 .. Len(store), j < k
               PROVE  /\ store[j] # store[k]
                      /\ lost = {} /\ TopicOf[store[j]] = TopicOf[store[k]]
                         => FirstAt(store[j]) < FirstAt(store[k])
  BY DEF StoreKeepsTopicOrder
<1>3. InOrder(store[j], store[k])
  BY <1>2 DEF Ordered
<1>4. store[j] # store[k]
  BY <1>3 DEF InOrder
<1>5. ASSUME lost = {}, TopicOf[store[j]] = TopicOf[store[k]]
      PROVE  FirstAt(store[j]) < FirstAt(store[k])
  <2>1. PICK d, e, t : d = store[j] /\ e = store[k] /\ t = TopicOf[e]
    OBVIOUS
  <2>2. Ready(d) /\ Ready(e) /\ TopicOf[d] = t
    BY <1>1, <1>5, <2>1 DEF InTurn
  <2>3. /\ FirstAt(e) \in 1 .. Len(log[t]) /\ log[t][FirstAt(e)] = e
        /\ FirstAt(d) \in 1 .. Len(log[t]) /\ \A n \in 1 .. FirstAt(d) - 1 : log[t][n] # d
    <3>1. /\ d \in EventTypes /\ \E n \in 1 .. Len(log[TopicOf[d]]) : log[TopicOf[d]][n] = d
          /\ e \in EventTypes /\ \E n \in 1 .. Len(log[TopicOf[e]]) : log[TopicOf[e]][n] = e
      BY <2>2 DEF Ready
    <3>2. /\ FirstAt(d) \in 1 .. Len(log[TopicOf[d]])
          /\ \A n \in 1 .. FirstAt(d) - 1 : log[TopicOf[d]][n] # d
      BY <3>1, FirstPlace
    <3>3. FirstAt(e) \in 1 .. Len(log[TopicOf[e]]) /\ log[TopicOf[e]][FirstAt(e)] = e
      BY <3>1, FirstPlace
    <3>4. QED
      BY <2>1, <2>2, <3>2, <3>3
  <2>4. PICK n \in 1 .. FirstAt(e) - 1 : log[t][n] = d
    BY <1>3, <1>5, <2>1, <2>3 DEF InOrder
  <2>5. n \notin 1 .. FirstAt(d) - 1
    BY <2>3, <2>4
  <2>6. QED
    BY <2>1, <2>3, <2>4, <2>5
<1>6. QED
  BY <1>4, <1>5

\* Topics and store only grow, and a diverted event stays diverted.
Grown ==
    /\ \A t \in Topics : /\ Len(log[t]) <= Len(log'[t])
                         /\ \A n \in 1 .. Len(log[t]) : log'[t][n] = log[t][n]
    /\ log' \in [Topics -> Seq(EventTypes)]
    /\ ToSet(store) \subseteq ToSet(store') /\ lost \subseteq lost'

\* ... so that what had its turn keeps it.
LEMMA ReadyStays ==
    ASSUME KafkaTypes, Grown, NEW e, Ready(e)
    PROVE  Ready(e)'
<1>1. PICK t \in Topics : t = TopicOf[e]
  BY TopicsOfTypes DEF Ready
<1>2. Len(log[t]) \in Nat /\ Len(log'[t]) \in Nat /\ Len(log[t]) <= Len(log'[t])
  BY DEF KafkaTypes, Grown
<1>3. PICK m \in 1 .. Len(log[t]) :
        /\ log[t][m] = e
        /\ lost = {} => \A k \in 1 .. m - 1 : log[t][k] \in ToSet(store)
  BY <1>1 DEF Ready
<1>4. m \in 1 .. Len(log'[t]) /\ log'[t][m] = e
  BY <1>2, <1>3 DEF Grown
<1>5. lost' = {} => \A k \in 1 .. m - 1 : log'[t][k] \in ToSet(store')
  <2>1. \A k \in 1 .. m - 1 : k \in 1 .. Len(log[t])
    BY <1>2, <1>3
  <2>2. QED
    BY <1>3, <2>1 DEF Grown
<1>6. QED
  BY <1>1, <1>4, <1>5 DEF Ready

\* The store keeps its order if each pair of its events does.
LEMMA PairsSuffice ==
    ASSUME StoreInv, Ordered, UNCHANGED store,
           \A d, e \in ToSet(store) : InOrder(d, e) => InOrder(d, e)'
    PROVE  Ordered'
<1>1. \A k \in 1 .. Len(store) : store[k] \in ToSet(store)
  BY ElementsOf DEF StoreInv, Shapes
<1>2. SUFFICES ASSUME NEW j \in 1 .. Len(store), NEW k \in 1 .. Len(store), j < k
               PROVE  InOrder(store[j], store[k])'
  BY DEF Ordered
<1>3. PICK d, e : d = store[j] /\ e = store[k]
  OBVIOUS
<1>4. InOrder(d, e)'
  BY <1>1, <1>2, <1>3 DEF Ordered
<1>5. store'[j] = d /\ store'[k] = e
  BY <1>3
<1>6. QED
  BY <1>4, <1>5 DEF InOrder

\* ... which they do unless topics or DLQ change.
LEMMA OrderStays ==
    ASSUME StoreInv, Ordered, UNCHANGED <<log, store, lost>>
    PROVE  Ordered'
<1>1. ASSUME NEW d, NEW e, InOrder(d, e) PROVE InOrder(d, e)'
  BY <1>1 DEF InOrder
<1>2. QED
  BY <1>1, PairsSuffice

\* What remains to show of a step, beside StoreInv'.
OrderStep == KafkaTypes' /\ HolderAtNext' /\ InTurn' /\ Ordered'

\* Nothing of this moves, but markers may go.
LEMMA OrderStands ==
    ASSUME OrderInv, UNCHANGED <<log, taken, holder, pc, cur, store, lost>>,
           processed' \subseteq processed
    PROVE  OrderStep
<1>1. KafkaTypes'
  BY DEF OrderInv, KafkaTypes
<1>2. HolderAtNext'
  BY DEF OrderInv, HolderAtNext
<1>3. InTurn'
  <2>1. \A e : Ready(e) => Ready(e)'
    BY DEF Ready
  <2>2. QED
    BY <2>1 DEF OrderInv, InTurn, Ready
<1>4. Ordered'
  BY OrderStays DEF OrderInv
<1>5. QED
  BY <1>1, <1>2, <1>3, <1>4 DEF OrderStep

\* Message e is sent again: it only gets another, later place.
LEMMA ResendStep ==
    ASSUME OrderInv, NEW e \in EventTypes,
           log' = [log EXCEPT ![TopicOf[e]] = Append(@, e)],
           UNCHANGED <<taken, holder, pc, cur, store, lost>>, processed' \subseteq processed
    PROVE  OrderStep
<1> USE DEF OrderInv
<1>1. PICK u \in Topics : u = TopicOf[e]
  BY TopicsOfTypes
<1>2. \A t \in Topics : Len(log[t]) \in Nat /\ log[t] \in Seq(EventTypes)
  BY DEF KafkaTypes
<1>3. log'[u] = Append(log[u], e) /\ \A t \in Topics \ {u} : log'[t] = log[t]
  BY <1>1 DEF KafkaTypes
<1>4. /\ Len(log'[u]) = Len(log[u]) + 1 /\ log'[u][Len(log[u]) + 1] = e
      /\ \A n \in 1 .. Len(log[u]) : log'[u][n] = log[u][n]
  BY <1>2, <1>3
<1>5. log' \in [Topics -> Seq(EventTypes)]
  <2>1. Append(log[u], e) \in Seq(EventTypes)
    BY <1>2
  <2>2. QED
    BY <1>1, <2>1 DEF KafkaTypes
<1>6. Grown
  <2>1. \A t \in Topics : /\ Len(log[t]) <= Len(log'[t])
                          /\ \A n \in 1 .. Len(log[t]) : log'[t][n] = log[t][n]
    BY <1>2, <1>3, <1>4
  <2>2. QED
    BY <1>5, <2>1 DEF Grown
<1>7. \A t \in Topics : \A n \in 1 .. Len(log'[t]) :
        n \in 1 .. Len(log[t]) \/ (t = u /\ n = Len(log[u]) + 1)
  BY <1>2, <1>3, <1>4
<1>8. KafkaTypes'
  <2>1. \A t \in Topics : \A n \in 1 .. Len(log'[t]) : TopicOf[log'[t][n]] = t
    BY <1>1, <1>4, <1>6, <1>7 DEF KafkaTypes, Grown
  <2>2. \A t \in Topics : taken[t] \in Nat /\ taken[t] <= Len(log[t]) /\ Len(log[t]) <= Len(log'[t])
                          /\ Len(log'[t]) \in Nat
    BY <1>5, <1>6 DEF KafkaTypes, Grown
  <2>3. \A t \in Topics : taken[t] <= Len(log'[t])
    BY <1>2, <2>2
  <2>4. QED
    BY <1>5, <2>1, <2>3 DEF KafkaTypes
<1>9. HolderAtNext'
  <2>1. SUFFICES ASSUME NEW t \in Topics, NEW i \in Instances, holder'[t] = i
                 PROVE  /\ pc'[i] # "idle" /\ TopicOf[cur'[i]] = t
                        /\ taken'[t] < Len(log'[t]) /\ cur'[i] = log'[t][taken'[t] + 1]
    BY Zenon DEF HolderAtNext
  <2>2. /\ pc[i] # "idle" /\ TopicOf[cur[i]] = t
        /\ taken[t] < Len(log[t]) /\ cur[i] = log[t][taken[t] + 1]
    BY <2>1 DEF HolderAtNext
  <2>3. taken[t] \in Nat /\ Len(log'[t]) \in Nat /\ Len(log[t]) <= Len(log'[t])
    BY <1>5, <1>6 DEF KafkaTypes, Grown
  <2>4. taken[t] + 1 \in 1 .. Len(log[t]) /\ taken[t] < Len(log'[t])
    BY <1>2, <2>2, <2>3
  <2>5. QED
    BY <1>6, <2>2, <2>4 DEF Grown
<1>10. InTurn'
  <2>1. \A d \in ToSet(store) : Ready(d)'
    BY <1>6, ReadyStays DEF InTurn
  <2>2. ASSUME NEW i \in Instances, pc[i] # "idle" PROVE Ready(cur[i])'
    <3>1. PICK d : d = cur[i]
      OBVIOUS
    <3>2. Ready(d)'
      BY <1>6, <2>2, <3>1, ReadyStays DEF InTurn
    <3>3. QED
      BY <3>1, <3>2
  <2>3. lost = {} => \A t \in Topics : \A k \in 1 .. taken[t] : log'[t][k] \in ToSet(store)
    <3>1. \A t \in Topics : \A k \in 1 .. taken[t] : k \in 1 .. Len(log[t])
      BY <1>2 DEF KafkaTypes
    <3>2. QED
      BY <1>6, <3>1 DEF InTurn, Grown
  <2>4. processed' \subseteq ToSet(store)
    BY DEF InTurn
  <2>5. QED
    BY <2>1, <2>2, <2>3, <2>4, Zenon DEF InTurn
<1>11. Ordered'
  <2>1. /\ Len(store) \in Nat /\ \A k \in 1 .. Len(store) : store[k] \in ToSet(store)
    BY ElementsOf DEF StoreInv, Shapes
  <2>2. ASSUME NEW d \in ToSet(store), NEW f \in ToSet(store), InOrder(d, f) PROVE InOrder(d, f)'
    <3>1. SUFFICES ASSUME lost = {}, TopicOf[d] = TopicOf[f],
                          NEW m \in 1 .. Len(log'[TopicOf[f]]), log'[TopicOf[f]][m] = f
                   PROVE  \E n \in 1 .. m - 1 : log'[TopicOf[f]][n] = d
      BY <2>2 DEF InOrder
    <3>2. PICK t \in Topics : t = TopicOf[f]
      BY TopicsOfTypes DEF InTurn, Ready
    <3>3. PICK n \in 1 .. Len(log[t]) : log[t][n] = d
      BY <3>1, <3>2 DEF InTurn, Ready
    <3>4. CASE m \in 1 .. Len(log[t])
      <4>1. log[t][m] = f
        BY <1>6, <3>1, <3>2, <3>4 DEF Grown
      <4>2. PICK a \in 1 .. m - 1 : log[t][a] = d
        BY <2>2, <3>1, <3>2, <3>4, <4>1 DEF InOrder
      <4>3. a \in 1 .. Len(log[t])
        BY <1>2, <3>4
      <4>4. QED
        BY <1>6, <3>2, <4>2, <4>3 DEF Grown
    <3>5. CASE m \notin 1 .. Len(log[t])
      <4>1. n \in 1 .. m - 1
        BY <1>2, <1>7, <3>1, <3>2, <3>3, <3>5
      <4>2. QED
        BY <1>6, <3>2, <3>3, <4>1 DEF Grown
    <3>6. QED
      BY <3>4, <3>5
  <2>3. QED
    BY <2>1, <2>2, PairsSuffice
<1>12. QED
  BY <1>8, <1>9, <1>10, <1>11 DEF OrderStep

\* A handler moves on with its event, which it may mark once it is stored.
LEMMA MoveStep ==
    ASSUME OrderInv, NEW i \in Instances, pc[i] # "idle", NEW p, p # "idle",
           pc' = [pc EXCEPT ![i] = p],
           UNCHANGED <<log, taken, holder, cur, store, lost>>,
           processed' \subseteq ToSet(store)
    PROVE  OrderStep
<1>1. \A j \in Instances : pc'[j] # "idle" <=> pc[j] # "idle"
  BY DEF OrderInv, StoreInv, Shapes
<1>2. KafkaTypes' /\ HolderAtNext'
  BY <1>1 DEF OrderInv, KafkaTypes, HolderAtNext
<1>3. InTurn'
  BY <1>1 DEF OrderInv, InTurn, Ready
<1>4. Ordered'
  BY OrderStays DEF OrderInv
<1>5. QED
  BY <1>2, <1>3, <1>4 DEF OrderStep

\* handleMessage starts with the next message of a topic, or skips it.
LEMMA TakeOrderStep ==
    ASSUME OrderInv, NEW i \in Instances, NEW t \in Topics, Take(i, t)
    PROVE  OrderStep
<1> USE DEF OrderInv
<1>1. PICK e : e = log[t][taken[t] + 1]
  OBVIOUS
<1>2. /\ taken[t] \in Nat /\ Len(log[t]) \in Nat /\ taken[t] < Len(log[t]) /\ pc[i] = "idle"
      /\ UNCHANGED <<log, processed, store, lost>>
  BY DEF Take, KafkaTypes
<1>3. taken[t] + 1 \in 1 .. Len(log[t])
  BY <1>2
<1>4. e \in EventTypes /\ TopicOf[e] = t
  BY <1>1, <1>3 DEF KafkaTypes
<1>5. Ordered'
  BY <1>2, OrderStays
<1>6. CASE e \in processed
  <2>1. /\ taken' = [taken EXCEPT ![t] = taken[t] + 1] /\ holder' = [holder EXCEPT ![t] = None]
        /\ UNCHANGED <<pc, cur>>
    BY <1>1, <1>6 DEF Take, mem
  <2>2. /\ taken'[t] = taken[t] + 1 /\ holder'[t] = None
        /\ \A u \in Topics \ {t} : taken'[u] = taken[u] /\ holder'[u] = holder[u]
    BY <2>1 DEF KafkaTypes
  <2>3. KafkaTypes'
    <3>1. taken' \in [Topics -> Nat] /\ holder' \in [Topics -> Instances \cup {None}]
      BY <1>2, <2>1 DEF KafkaTypes
    <3>2. ASSUME NEW u \in Topics PROVE taken'[u] <= Len(log[u])
      <4>1. taken[u] \in Nat /\ Len(log[u]) \in Nat /\ taken[u] <= Len(log[u])
        BY DEF KafkaTypes
      <4>2. QED
        BY <1>2, <2>2, <4>1
    <3>3. QED
      BY <1>2, <3>1, <3>2 DEF KafkaTypes
  <2>4. HolderAtNext'
    BY <1>2, <2>1, <2>2, NoneAssumption DEF HolderAtNext
  <2>5. InTurn'
    <3>1. ASSUME lost = {}, NEW u \in Topics, NEW k \in 1 .. taken'[u]
          PROVE  log[u][k] \in ToSet(store)
      <4>1. CASE k \in 1 .. taken[u]
        BY <3>1, <4>1 DEF InTurn
      <4>2. CASE k \notin 1 .. taken[u]
        <5>1. u = t /\ k = taken[t] + 1
          BY <1>2, <2>2, <3>1, <4>2
        <5>2. QED
          BY <1>1, <1>6, <5>1 DEF InTurn
      <4>3. QED
        BY <4>1, <4>2
    <3>2. QED
      BY <1>2, <2>1, <3>1 DEF InTurn, Ready
  <2>6. QED
    BY <1>5, <2>3, <2>4, <2>5 DEF OrderStep
<1>7. CASE e \notin processed
  <2>1. /\ holder' = [holder EXCEPT ![t] = i] /\ cur' = [cur EXCEPT ![i] = e]
        /\ pc' = [pc EXCEPT ![i] = "append"] /\ UNCHANGED taken
    BY <1>1, <1>7 DEF Take
  <2>2. /\ holder'[t] = i /\ \A u \in Topics \ {t} : holder'[u] = holder[u]
        /\ cur'[i] = e /\ pc'[i] = "append"
        /\ \A j \in Instances \ {i} : cur'[j] = cur[j] /\ pc'[j] = pc[j]
    BY <2>1 DEF KafkaTypes, StoreInv, Shapes
  <2>3. KafkaTypes'
    BY <1>2, <2>1 DEF KafkaTypes
  <2>4. HolderAtNext'
    <3>1. SUFFICES ASSUME NEW u \in Topics, NEW j \in Instances, holder'[u] = j
                   PROVE  /\ pc'[j] # "idle" /\ TopicOf[cur'[j]] = u
                          /\ taken[u] < Len(log[u]) /\ cur'[j] = log[u][taken[u] + 1]
      BY <1>2, <2>1 DEF HolderAtNext
    <3>2. CASE u = t
      BY <1>1, <1>2, <1>4, <2>2, <3>1, <3>2
    <3>3. CASE u # t
      <4>1. j # i
        BY <1>2, <2>2, <3>1, <3>3 DEF HolderAtNext
      <4>2. QED
        BY <2>2, <3>1, <3>3, <4>1 DEF HolderAtNext
    <3>4. QED
      BY <3>2, <3>3
  <2>5. InTurn'
    <3>1. Ready(e)
      <4>1. lost = {} => \A k \in 1 .. (taken[t] + 1) - 1 : log[t][k] \in ToSet(store)
        BY <1>2 DEF InTurn
      <4>2. QED
        BY <1>1, <1>3, <1>4, <4>1 DEF Ready
    <3>2. \A j \in Instances : pc'[j] # "idle" => Ready(cur'[j])
      BY <2>2, <3>1 DEF InTurn
    <3>3. QED
      BY <1>2, <2>1, <3>2 DEF InTurn, Ready
  <2>6. QED
    BY <1>5, <2>3, <2>4, <2>5 DEF OrderStep
<1>8. QED
  BY <1>6, <1>7

\* appendToEventStore adds an event whose turn it is: whatever of its topic is
\* stored already has a place before each of its places.
LEMMA AppendOrderStep ==
    ASSUME OrderInv, NEW i \in Instances, AppendToEventStore(i)
    PROVE  OrderStep
<1> USE DEF OrderInv
<1>1. PICK f : f = cur[i]
  OBVIOUS
<1>2. /\ pc[i] = "append" /\ store' = Appended(f) /\ pc' = [pc EXCEPT ![i] = "check"]
      /\ UNCHANGED <<log, taken, holder, cur, lost, processed>>
  BY <1>1 DEF AppendToEventStore, Goto, kafka
<1>3. IsSequence(store) /\ Ready(f)
  BY <1>1, <1>2 DEF StoreInv, Shapes, InTurn
<1>4. \A j \in Instances : pc'[j] # "idle" <=> pc[j] # "idle"
  BY <1>2 DEF StoreInv, Shapes
<1>5. ToSet(store) \subseteq ToSet(store') /\ ToSet(store') = ToSet(store) \cup {f}
  <2>1. CASE f \in ToSet(store)
    BY <1>2, <2>1 DEF Appended
  <2>2. CASE f \notin ToSet(store)
    BY <1>2, <1>3, <2>2, AppendedElements DEF Appended
  <2>3. QED
    BY <2>1, <2>2
<1>6. Grown
  <2>1. \A t \in Topics : Len(log[t]) \in Nat
    BY DEF KafkaTypes
  <2>2. QED
    BY <1>2, <1>5, <2>1 DEF Grown, KafkaTypes
<1>7. KafkaTypes' /\ HolderAtNext'
  BY <1>2, <1>4 DEF KafkaTypes, HolderAtNext
<1>8. InTurn'
  <2>1. \A d : Ready(d) => Ready(d)'
    BY <1>6, ReadyStays
  <2>2. \A d \in ToSet(store') : Ready(d)'
    BY <1>3, <1>5, <2>1 DEF InTurn
  <2>3. ASSUME NEW j \in Instances, pc'[j] # "idle" PROVE Ready(cur[j])'
    <3>1. PICK d : d = cur[j]
      OBVIOUS
    <3>2. Ready(d)'
      BY <1>4, <2>1, <2>3, <3>1 DEF InTurn
    <3>3. d = cur'[j]
      BY <1>2, <3>1
    <3>4. QED
      BY <3>2, <3>3 DEF Ready
  <2>4. processed' \subseteq ToSet(store')
    BY <1>2, <1>5 DEF InTurn
  <2>5. lost' = {} => \A t \in Topics : \A k \in 1 .. taken'[t] : log'[t][k] \in ToSet(store')
    BY <1>2, <1>5 DEF InTurn
  <2>6. QED
    BY <2>2, <2>3, <2>4, <2>5, Zenon DEF InTurn
<1>9. CASE f \in ToSet(store)
  <2>1. UNCHANGED <<log, store, lost>>
    BY <1>2, <1>9 DEF Appended
  <2>2. Ordered'
    BY <2>1, OrderStays
  <2>3. QED
    BY <1>7, <1>8, <2>2 DEF OrderStep
<1>10. CASE f \notin ToSet(store)
  <2>1. /\ Len(store) \in Nat /\ Len(store') = Len(store) + 1 /\ store'[Len(store) + 1] = f
        /\ \A k \in 1 .. Len(store) : store'[k] = store[k] /\ store[k] \in ToSet(store)
    <3>1. store' = Append(store, f)
      BY <1>2, <1>10 DEF Appended
    <3>2. Len(store) \in Nat /\ \A k \in 1 .. Len(store) : store[k] \in ToSet(store)
      BY <1>3, ElementsOf
    <3>3. store \in Seq(ToSet(store) \cup {f})
      BY <1>3, SMT DEF IsSequence, ToSet
    <3>4. QED
      BY <3>1, <3>2, <3>3
  <2>2. ASSUME NEW d \in ToSet(store) PROVE InOrder(d, f)'
    <3>1. d # f
      BY <1>10
    <3>2. SUFFICES ASSUME lost = {}, TopicOf[d] = TopicOf[f],
                          NEW m \in 1 .. Len(log[TopicOf[f]]), log[TopicOf[f]][m] = f
                   PROVE  \E n \in 1 .. m - 1 : log[TopicOf[f]][n] = d
      BY <1>2, <3>1 DEF InOrder
    <3>3. PICK t \in Topics : t = TopicOf[f]
      BY <1>3, TopicsOfTypes DEF Ready
    <3>4. PICK n \in 1 .. Len(log[t]) :
            log[t][n] = d /\ \A k \in 1 .. n - 1 : log[t][k] \in ToSet(store)
      <4>1. Ready(d) /\ TopicOf[d] = t
        BY <3>2, <3>3 DEF InTurn
      <4>2. QED
        BY <3>2, <4>1 DEF Ready
    <3>5. Len(log[t]) \in Nat /\ m \in 1 .. Len(log[t])
      BY <3>2, <3>3 DEF KafkaTypes
    <3>6. m \notin 1 .. n - 1 /\ m # n
      BY <1>10, <3>1, <3>2, <3>3, <3>4
    <3>7. n \in 1 .. m - 1
      BY <3>4, <3>5, <3>6
    <3>8. QED
      BY <3>3, <3>4, <3>7
  <2>3. Ordered'
    <3>1. SUFFICES ASSUME NEW j \in 1 .. Len(store'), NEW k \in 1 .. Len(store'), j < k
                   PROVE  InOrder(store[j], store[k])'
      BY DEF Ordered
    <3>2. PICK d, e : d = store'[j] /\ e = store'[k]
      OBVIOUS
    <3>3. j \in 1 .. Len(store) /\ d \in ToSet(store) /\ d = store[j]
      BY <2>1, <3>1, <3>2
    <3>4. InOrder(d, e)'
      <4>1. CASE k \in 1 .. Len(store)
        <5>1. e = store[k]
          BY <2>1, <3>2, <4>1
        <5>2. InOrder(d, e)
          BY <3>1, <3>3, <4>1, <5>1 DEF Ordered
        <5>3. QED
          BY <1>2, <5>2 DEF InOrder
      <4>2. CASE k \notin 1 .. Len(store)
        <5>1. e = f
          BY <2>1, <3>1, <3>2, <4>2
        <5>2. QED
          BY <2>2, <3>3, <5>1
      <4>3. QED
        BY <4>1, <4>2
    <3>5. QED
      BY <3>2, <3>4 DEF InOrder
  <2>4. QED
    BY <1>7, <1>8, <2>3 DEF OrderStep
<1>11. QED
  BY <1>9, <1>10

\* handleMessage is through with its event, or the event was diverted: the owner
\* moves the offset past a message that is stored unless something was diverted.
LEMMA ReturnStep ==
    ASSUME OrderInv, NEW i \in Instances, pc[i] # "idle", Return(i), UNCHANGED store,
           lost \subseteq lost', lost' \subseteq EventTypes,
           lost' = {} => cur[i] \in ToSet(store),
           processed' \subseteq ToSet(store)
    PROVE  OrderStep
<1> USE DEF OrderInv
<1>1. PICK f, t : f = cur[i] /\ t = TopicOf[f]
  OBVIOUS
<1>2. /\ pc' = [pc EXCEPT ![i] = "idle"] /\ cur' = [cur EXCEPT ![i] = None]
      /\ UNCHANGED log
  BY DEF Return
<1>3. Ready(f) /\ f \in EventTypes /\ t \in Topics
  <2>1. Ready(f)
    BY <1>1 DEF InTurn
  <2>2. QED
    BY <1>1, <2>1, TopicsOfTypes DEF Ready
<1>4. /\ pc'[i] = "idle" /\ cur'[i] = None
      /\ \A j \in Instances \ {i} : pc'[j] = pc[j] /\ cur'[j] = cur[j]
  BY <1>2 DEF StoreInv, Shapes
<1>5. \A u \in Topics : taken[u] \in Nat /\ Len(log[u]) \in Nat /\ taken[u] <= Len(log[u])
  BY DEF KafkaTypes
<1>6. \A u \in Topics \ {t} : taken'[u] = taken[u] /\ holder'[u] = holder[u]
  BY <1>1, <1>3 DEF Return, KafkaTypes
<1>7. \/ holder[t] = i /\ taken'[t] = taken[t] + 1 /\ holder'[t] = None
      \/ holder[t] # i /\ taken'[t] = taken[t] /\ holder'[t] = holder[t]
  BY <1>1, <1>3 DEF Return, KafkaTypes
<1>8. holder[t] = i => taken[t] < Len(log[t]) /\ f = log[t][taken[t] + 1]
  BY <1>1, <1>3 DEF HolderAtNext
<1>9. KafkaTypes'
  <2>1. taken' \in [Topics -> Nat] /\ holder' \in [Topics -> Instances \cup {None}]
    <3>1. CASE holder[t] = i
      <4>1. /\ taken' = [taken EXCEPT ![t] = taken[t] + 1]
            /\ holder' = [holder EXCEPT ![t] = None]
        BY <1>1, <3>1 DEF Return
      <4>2. taken[t] + 1 \in Nat
        BY <1>3, <1>5
      <4>3. QED
        BY <4>1, <4>2 DEF KafkaTypes
    <3>2. CASE holder[t] # i
      BY <1>1, <3>2 DEF Return, KafkaTypes
    <3>3. QED
      BY <3>1, <3>2
  <2>2. \A u \in Topics : taken'[u] <= Len(log[u])
    BY <1>5, <1>6, <1>7, <1>8
  <2>3. QED
    BY <1>2, <2>1, <2>2 DEF KafkaTypes
<1>10. HolderAtNext'
  <2>1. SUFFICES ASSUME NEW u \in Topics, NEW j \in Instances, holder'[u] = j
                 PROVE  /\ pc'[j] # "idle" /\ TopicOf[cur'[j]] = u
                        /\ taken'[u] < Len(log[u]) /\ cur'[j] = log[u][taken'[u] + 1]
    BY <1>2 DEF HolderAtNext
  <2>2. holder'[u] = holder[u] /\ taken'[u] = taken[u]
    BY <1>6, <1>7, <2>1, NoneAssumption
  <2>3. j # i
    <3>1. CASE u = t
      BY <1>7, <2>1, <3>1, NoneAssumption
    <3>2. CASE u # t
      BY <1>1, <2>1, <2>2, <3>2 DEF HolderAtNext
    <3>3. QED
      BY <3>1, <3>2
  <2>4. QED
    BY <1>4, <2>1, <2>2, <2>3 DEF HolderAtNext
<1>11. Grown
  BY <1>2, <1>5 DEF Grown, KafkaTypes
<1>12. InTurn'
  <2>1. \A d : Ready(d) => Ready(d)'
    BY <1>11, ReadyStays
  <2>2. \A d \in ToSet(store') : Ready(d)'
    BY <2>1 DEF InTurn
  <2>3. ASSUME NEW j \in Instances, pc'[j] # "idle" PROVE Ready(cur[j])'
    <3>1. PICK d : d = cur[j]
      OBVIOUS
    <3>2. Ready(d)' /\ d = cur'[j]
      BY <1>4, <2>1, <2>3, <3>1 DEF InTurn
    <3>3. QED
      BY <3>2 DEF Ready
  <2>4. ASSUME lost' = {}, NEW u \in Topics, NEW k \in 1 .. taken'[u]
        PROVE  log'[u][k] \in ToSet(store')
    <3>1. lost = {} /\ f \in ToSet(store)
      BY <1>1, <2>4
    <3>2. CASE k \in 1 .. taken[u]
      BY <1>2, <3>1, <3>2 DEF InTurn
    <3>3. CASE k \notin 1 .. taken[u]
      <4>1. u = t /\ holder[t] = i /\ k = taken[t] + 1
        BY <1>5, <1>6, <1>7, <2>4, <3>3
      <4>2. QED
        BY <1>2, <1>8, <3>1, <4>1
    <3>4. QED
      BY <3>2, <3>3
  <2>5. processed' \subseteq ToSet(store')
    OBVIOUS
  <2>6. QED
    BY <2>2, <2>3, <2>4, <2>5, Zenon DEF InTurn
<1>13. Ordered'
  <2>1. ASSUME NEW d, NEW e, InOrder(d, e) PROVE InOrder(d, e)'
    BY <1>2, <2>1 DEF InOrder
  <2>2. QED
    BY <2>1, PairsSuffice
<1>14. QED
  BY <1>9, <1>10, <1>12, <1>13 DEF OrderStep

\* A process dies and its topics are free again.
LEMMA CrashOrderStep ==
    ASSUME OrderInv, NEW i \in Instances, Crash(i)
    PROVE  OrderStep
<1> USE DEF OrderInv
<1>1. /\ holder' = [t \in Topics |-> IF holder[t] = i THEN None ELSE holder[t]]
      /\ pc' = [pc EXCEPT ![i] = "idle"] /\ cur' = [cur EXCEPT ![i] = None]
      /\ UNCHANGED <<log, taken, store, lost>>
  BY DEF Crash
<1>2. processed' \subseteq ToSet(store)
  <2>1. pc[i] = "finish" => cur[i] \in ToSet(store)
    BY DEF StoreInv, HandledIsStored
  <2>2. processed \subseteq ToSet(store)
    BY DEF InTurn
  <2>3. processed' = processed \/ (pc[i] = "finish" /\ processed' = processed \cup {cur[i]})
    BY DEF Crash, CutOff
  <2>4. QED
    BY <2>1, <2>2, <2>3
<1>3. /\ pc'[i] = "idle" /\ cur'[i] = None
      /\ \A j \in Instances \ {i} : pc'[j] = pc[j] /\ cur'[j] = cur[j]
  BY <1>1 DEF StoreInv, Shapes
<1>4. KafkaTypes'
  BY <1>1 DEF KafkaTypes
<1>5. HolderAtNext'
  <2>1. SUFFICES ASSUME NEW u \in Topics, NEW j \in Instances, holder'[u] = j
                 PROVE  /\ pc'[j] # "idle" /\ TopicOf[cur'[j]] = u
                        /\ taken[u] < Len(log[u]) /\ cur'[j] = log[u][taken[u] + 1]
    BY <1>1 DEF HolderAtNext
  <2>2. holder[u] = j /\ j # i
    BY <1>1, <2>1, NoneAssumption
  <2>3. QED
    BY <1>3, <2>1, <2>2 DEF HolderAtNext
<1>6. InTurn'
  <2>1. \A j \in Instances : pc'[j] # "idle" => Ready(cur'[j])
    BY <1>3 DEF InTurn
  <2>2. QED
    BY <1>1, <1>2, <2>1 DEF InTurn, Ready
<1>7. Ordered'
  BY <1>1, OrderStays
<1>8. QED
  BY <1>4, <1>5, <1>6, <1>7 DEF OrderStep

\* The past was read from the topics in their order.
LEMMA InitOrderInv == Init => OrderInv
<1> SUFFICES ASSUME Init PROVE OrderInv
  OBVIOUS
<1>1. PICK s \in Scenarios : log = s.topics /\ taken = s.read /\ store = s.past
                             /\ processed = ToSet(s.past)
  BY DEF Init
<1>2. /\ log \in [Topics -> Seq(EventTypes)] /\ taken \in [Topics -> Nat]
      /\ store \in Seq(EventTypes)
  BY <1>1, ScenariosAssumption
<1>3. ReadInOrder(log, taken, store)
  BY <1>1, PastAssumption
<1>4. StoreInv
  BY InitStoreInv
<1>5. KafkaTypes
  BY <1>2, <1>3 DEF Init, KafkaTypes, ReadInOrder
<1>6. HolderAtNext
  BY NoneAssumption DEF Init, HolderAtNext
<1>7. IsSequence(store)
  BY <1>4 DEF StoreInv, Shapes
<1>8. \A e \in ToSet(store) : e \in EventTypes /\ \E k \in 1 .. Len(store) : store[k] = e
  BY <1>2, <1>7, ElementsOf
<1>9. \A t \in Topics : \A k \in 1 .. taken[t] : log[t][k] \in ToSet(store)
  <2>1. \A t \in Topics : taken[t] \in Nat /\ Len(log[t]) \in Nat /\ taken[t] <= Len(log[t])
    BY <1>2, <1>3 DEF ReadInOrder
  <2>2. \A t \in Topics : \A k \in 1 .. taken[t] : k \in 1 .. Len(log[t]) /\ k <= taken[t]
    BY <2>1
  <2>3. QED
    BY <1>3, <2>2 DEF ReadInOrder
<1>10. ASSUME NEW e \in ToSet(store) PROVE Ready(e)
  <2>1. PICK t \in Topics : t = TopicOf[e]
    BY <1>8, TopicsOfTypes
  <2>2. PICK m \in 1 .. Len(log[t]) : log[t][m] = e
    <3>1. e \in ToSet(log[t])
      BY <1>3, <1>8, <2>1 DEF ReadInOrder
    <3>2. IsSequence(log[t])
      BY <1>2, SequenceIsSequence
    <3>3. QED
      BY <3>1, <3>2, ElementsOf
  <2>3. taken[t] \in Nat /\ Len(log[t]) \in Nat /\ m <= taken[t]
    BY <1>2, <1>3, <2>2 DEF ReadInOrder
  <2>4. \A k \in 1 .. m - 1 : log[t][k] \in ToSet(store)
    BY <1>9, <2>3
  <2>5. QED
    BY <1>8, <2>1, <2>2, <2>4 DEF Ready
<1>11. InTurn
  <2>1. processed \subseteq ToSet(store)
    BY <1>1
  <2>2. \A i \in Instances : pc[i] = "idle"
    BY DEF Init
  <2>3. QED
    BY <1>9, <1>10, <2>1, <2>2 DEF InTurn
<1>12. Ordered
  <2>1. SUFFICES ASSUME NEW j \in 1 .. Len(store), NEW k \in 1 .. Len(store), j < k
                 PROVE  InOrder(store[j], store[k])
    BY DEF Ordered
  <2>2. PICK d, e, t : d = store[j] /\ e = store[k] /\ t = TopicOf[e]
    OBVIOUS
  <2>3. Len(store) \in Nat /\ d \in ToSet(store) /\ e \in ToSet(store)
    BY <1>7, <2>2, ElementsOf
  <2>4. j \in 1 .. k - 1
    BY <2>1, <2>3
  <2>5. d # e
    BY <1>3, <2>2, <2>4 DEF ReadInOrder
  <2>6. ASSUME TopicOf[d] = t, NEW m \in 1 .. Len(log[t]), log[t][m] = e
        PROVE  \E n \in 1 .. m - 1 : log[t][n] = d
    <3>1. t \in Topics
      BY <1>8, <2>2, <2>3, TopicsOfTypes
    <3>2. PICK n \in 1 .. Len(log[t]) : log[t][n] = d
      BY <1>10, <2>3, <2>6 DEF Ready
    <3>3. n < m
      BY <1>3, <2>2, <2>4, <2>6, <3>2 DEF ReadInOrder
    <3>4. Len(log[t]) \in Nat
      BY <1>2, <3>1
    <3>5. n \in 1 .. m - 1
      BY <2>6, <3>2, <3>3, <3>4
    <3>6. QED
      BY <3>2, <3>5
  <2>7. QED
    BY <2>2, <2>5, <2>6 DEF InOrder
<1>13. QED
  BY <1>4, <1>5, <1>6, <1>11, <1>12 DEF OrderInv

\* Every step preserves the invariant.
LEMMA NextOrderInv == OrderInv /\ [Next]_vars => OrderInv'
<1> SUFFICES ASSUME OrderInv, [Next]_vars PROVE OrderInv'
  OBVIOUS
<1>1. SUFFICES OrderStep
  BY NextStoreInv DEF OrderInv, OrderStep
<1>2. processed \subseteq ToSet(store) /\ lost \subseteq EventTypes
  BY DEF OrderInv, InTurn, KafkaTypes
<1>3. ASSUME NEW i \in Instances, Handle(i) \/ Retry(i) \/ GiveUp(i) \/ Crash(i)
      PROVE  OrderStep
  <2>1. pc[i] \in {"check", "apply", "finish"} => cur[i] \in ToSet(store)
    BY DEF OrderInv, StoreInv, HandledIsStored
  <2>2. CASE AppendToEventStore(i)
    BY <2>2, AppendOrderStep
  <2>3. CASE CheckApplied(i)
    <3>1. /\ pc[i] = "check"
          /\ pc' = [pc EXCEPT ![i] = IF IsApplied(cur[i]) THEN "finish" ELSE "apply"]
          /\ UNCHANGED <<log, taken, holder, cur, store, lost>> /\ UNCHANGED processed
      BY <2>3 DEF CheckApplied, Goto, kafka
    <3>2. QED
      BY <1>2, <3>1, MoveStep
  <2>4. CASE ApplyEvent(i)
    <3>1. /\ pc[i] = "apply" /\ pc' = [pc EXCEPT ![i] = "finish"]
          /\ UNCHANGED <<log, taken, holder, cur, store, lost>> /\ UNCHANGED processed
      BY <2>4 DEF ApplyEvent, Goto, kafka
    <3>2. QED
      BY <1>2, <3>1, MoveStep
  <2>5. CASE Finish(i)
    <3>1. /\ pc[i] = "finish" /\ Return(i) /\ UNCHANGED store /\ UNCHANGED lost
          /\ processed' = processed \cup {cur[i]}
      BY <2>5 DEF Finish
    <3>2. QED
      BY <1>2, <2>1, <3>1, ReturnStep
  <2>6. CASE \E t \in Topics : TakeNext(i, t)
    BY <2>6, TakeOrderStep DEF TakeNext
  <2>7. CASE Retry(i)
    <3>1. /\ pc[i] \in {"check", "apply", "finish"} /\ pc' = [pc EXCEPT ![i] = "append"]
          /\ UNCHANGED <<log, taken, holder, cur, store, lost>>
      BY <2>7 DEF Retry, Goto, kafka
    <3>2. processed' = processed \/ processed' = processed \cup {cur[i]}
      BY <2>7 DEF Retry, CutOff
    <3>3. QED
      BY <1>2, <2>1, <3>1, <3>2, MoveStep
  <2>8. CASE GiveUp(i)
    <3>1. /\ pc[i] # "idle" /\ Return(i) /\ UNCHANGED store
          /\ lost' = lost \cup {cur[i]} /\ processed' = processed \ {cur[i]}
      BY <2>8 DEF GiveUp
    <3>2. cur[i] \in EventTypes
      BY <3>1 DEF OrderInv, InTurn, Ready
    <3>3. QED
      BY <1>2, <3>1, <3>2, ReturnStep
  <2>9. CASE Crash(i)
    BY <2>9, CrashOrderStep
  <2>10. QED
    BY <1>3, <2>2, <2>3, <2>4, <2>5, <2>6, <2>7, <2>8, <2>9 DEF Handle
<1>4. ASSUME NEW i \in Instances, NEW t \in Topics, Steal(i, t)
      PROVE  OrderStep
  BY <1>4, TakeOrderStep DEF Steal
<1>5. CASE RepublishOrder \/ \E e \in lost : ReplayDlq(e)
  <2>1. PICK e \in EventTypes : Resend(e) /\ processed' \subseteq processed
    <3>1. "OrderCreated" \in EventTypes
      BY TopicTable
    <3>2. QED
      BY <1>2, <1>5, <3>1 DEF RepublishOrder, ReplayDlq
  <2>2. /\ log' = [log EXCEPT ![TopicOf[e]] = Append(@, e)]
        /\ UNCHANGED <<taken, holder, pc, cur, store, lost>>
    BY <2>1 DEF Resend, mem
  <2>3. QED
    BY <2>1, <2>2, ResendStep
<1>6. ASSUME NEW r \in Replayers, ReplayStart(r) \/ Replay(r) \/ ReplayFails(r)
      PROVE  OrderStep
  <2>1. UNCHANGED <<log, taken, holder, pc, cur, store, lost>> /\ UNCHANGED processed
    BY <1>6 DEF ReplayStart, Replay, Reset, DeleteRow, DeleteApplied, ReplayCheck, ReplayApply,
                ReplayEnd, ReplayFails, replayFrame, kafka, mem
  <2>2. QED
    BY <2>1, OrderStands
<1>7. CASE UNCHANGED vars
  BY <1>7, OrderStands DEF vars
<1>8. QED
  BY <1>3, <1>4, <1>5, <1>6, <1>7 DEF Next

\* What is stored, handled or behind the group had its turn in its topic.
THEOREM OrderInvariance == Spec => []OrderInv
BY InitOrderInv, NextOrderInv, PTL DEF Spec

\* The event store holds every event once and, unless one was diverted to the
\* DLQ, the events of a topic in the topic's order, whatever crashes, retries,
\* zombie handlers and repeated messages there are (appendToEventStore).
THEOREM StoreOrdered == Spec => []StoreKeepsTopicOrder
<1>1. OrderInv => StoreKeepsTopicOrder
  BY OrderOfFirsts DEF OrderInv
<1>2. QED
  BY <1>1, OrderInvariance, PTL

=============================================================================

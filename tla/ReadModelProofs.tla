-------------------------- MODULE ReadModelProofs --------------------------
(***************************************************************************)
(* Proofs about what the read models of Projection hold                    *)
(***************************************************************************)
EXTENDS ProjectionProofs

-----------------------------------------------------------------------------
(* The read models along a sequence of events *)

\* Induction on natural numbers, of sets.
LEMMA Induction ==
    ASSUME NEW S \in SUBSET Nat, 0 \in S, \A k \in S : k + 1 \in S
    PROVE  S = Nat
<1>1. SUFFICES ASSUME Nat \ S # {} PROVE FALSE
  OBVIOUS
<1>2. PICK m \in Nat \ S : \A k \in Nat \ S : m <= k
  BY <1>1, LeastNumber
<1>3. m # 0 /\ m - 1 \in Nat
  BY <1>2
<1>4. m - 1 \in S
  BY <1>2, <1>3
<1>5. (m - 1) + 1 \in S
  BY <1>4
<1>6. QED
  BY <1>2, <1>5

\* f satisfies the recursion that defines ModelsAlong, up to N events.
Solves(f, s, es, N) ==
    f = [k \in 0 .. N |-> IF k = 0 THEN [rows |-> NoRows, stock |-> StockOf(s)]
                          ELSE ModelsAfter(s, f[k - 1], es[k])]

\* The recursion has a solution.
LEMMA ModelsExist ==
    ASSUME NEW s, NEW es, NEW N \in Nat
    PROVE  \E f : Solves(f, s, es, N)
<1> DEFINE base == [rows |-> NoRows, stock |-> StockOf(s)]
           S == {M \in Nat : \E f : Solves(f, s, es, M)}
<1>0. \A f, M : Solves(f, s, es, M)
                <=> f = [k \in 0 .. M |-> IF k = 0 THEN base ELSE ModelsAfter(s, f[k - 1], es[k])]
  BY DEF Solves
<1> HIDE DEF base
<1>1. 0 \in S
  <2> DEFINE f == [k \in 0 .. 0 |-> base]
  <2>1. f = [k \in 0 .. 0 |-> IF k = 0 THEN base ELSE ModelsAfter(s, f[k - 1], es[k])]
    OBVIOUS
  <2>2. QED
    BY <1>0, <2>1
<1>2. ASSUME NEW M \in S PROVE M + 1 \in S
  <2>1. PICK f : Solves(f, s, es, M)
    BY <1>2
  <2> DEFINE g == [k \in 0 .. M + 1 |-> IF k <= M THEN f[k] ELSE ModelsAfter(s, f[M], es[k])]
             h == [k \in 0 .. M + 1 |-> IF k = 0 THEN base ELSE ModelsAfter(s, g[k - 1], es[k])]
  <2>2. M \in Nat
    OBVIOUS
  <2>3. \A k \in 0 .. M : f[k] = IF k = 0 THEN base ELSE ModelsAfter(s, f[k - 1], es[k])
    BY <1>0, <2>1
  <2>4. ASSUME NEW k \in 0 .. M + 1 PROVE g[k] = h[k]
    <3>1. CASE k = 0
      BY <2>2, <2>3, <3>1
    <3>2. CASE k # 0 /\ k <= M
      <4>1. k \in 0 .. M /\ k - 1 \in 0 .. M + 1 /\ k - 1 <= M
        BY <2>2, <3>2
      <4>2. g[k - 1] = f[k - 1] /\ g[k] = f[k]
        BY <4>1
      <4>3. f[k] = ModelsAfter(s, f[k - 1], es[k])
        BY <2>3, <3>2, <4>1
      <4>4. QED
        BY <3>2, <4>2, <4>3
    <3>3. CASE k = M + 1
      <4>1. k - 1 = M /\ M \in 0 .. M + 1 /\ M <= M /\ ~(k <= M) /\ k # 0
        BY <2>2, <3>3
      <4>2. QED
        BY <4>1
    <3>4. QED
      BY <2>2, <3>1, <3>2, <3>3
  <2>5. g = h
    BY <2>4
  <2>6. Solves(g, s, es, M + 1)
    BY <1>0, <2>5
  <2>7. M + 1 \in Nat
    BY <2>2
  <2> HIDE DEF g, h
  <2>8. QED
    BY <2>6, <2>7
<1>3. S = Nat
  BY <1>1, <1>2, Induction
<1>4. N \in S
  BY <1>3
<1>5. QED
  BY <1>4

\* ... so that it says what the models are before the first event ...
LEMMA ModelsBegin ==
    ASSUME NEW s, NEW es, Len(es) \in Nat
    PROVE  ModelsAlong(s, es)[0] = [rows |-> NoRows, stock |-> StockOf(s)]
<1> DEFINE f == CHOOSE g : Solves(g, s, es, Len(es))
<1>0. f = ModelsAlong(s, es)
  BY DEF ModelsAlong, Solves
<1>1. Solves(f, s, es, Len(es))
  BY ModelsExist
<1> HIDE DEF f
<1>2. 0 \in 0 .. Len(es)
  OBVIOUS
<1>3. f[0] = [rows |-> NoRows, stock |-> StockOf(s)]
  BY <1>1, <1>2 DEF Solves
<1>4. QED
  BY <1>0, <1>3, Zenon

\* ... and what each makes of them.
LEMMA ModelsStep ==
    ASSUME NEW s, NEW es, Len(es) \in Nat, NEW k \in 1 .. Len(es)
    PROVE  ModelsAlong(s, es)[k] = ModelsAfter(s, ModelsAlong(s, es)[k - 1], es[k])
<1> DEFINE f == CHOOSE g : Solves(g, s, es, Len(es))
<1>0. f = ModelsAlong(s, es)
  BY DEF ModelsAlong, Solves
<1>1. Solves(f, s, es, Len(es))
  BY ModelsExist
<1> HIDE DEF f
<1>2. k \in 0 .. Len(es) /\ k # 0
  OBVIOUS
<1>3. f[k] = ModelsAfter(s, f[k - 1], es[k])
  BY <1>1, <1>2 DEF Solves
<1>4. QED
  BY <1>0, <1>3, Zenon

\* The read models have their shape, and the stock counters do not go below zero
\* unless the quantity does.
ModelsTyped(s, m) ==
    /\ m.rows = [t \in {"order", "payment", "shipment"} |-> m.rows[t]]
    /\ m.stock \in [reserved : Int, available : Int]
    /\ Units(s) > 0 => m.stock.reserved >= 0 /\ m.stock.available >= 0

\* The counters move by an integer.
LEMMA UnitsTyped ==
    ASSUME NEW s \in Scenarios
    PROVE  Units(s) \in Int /\ s.others \in 0 .. TotalStock /\ TotalStock \in Nat
BY ScenariosAssumption, BoundsAssumption DEF Units

\* Events keep the shape, ...
LEMMA AfterTyped ==
    ASSUME NEW s \in Scenarios, NEW m, ModelsTyped(s, m), NEW e
    PROVE  ModelsTyped(s, ModelsAfter(s, m, e))
<1>1. Project(m.rows, e) = [order |-> OrderRow(m.rows.order, e),
                            payment |-> PaymentRow(m.rows.payment, e),
                            shipment |-> ShipmentRow(m.rows.shipment, e)]
  BY DEF Project
<1>2. PICK a \in Int, b \in Int : m.stock = [reserved |-> a, available |-> b]
  BY DEF ModelsTyped
<1>3. PICK u \in Int : u = Units(s)
  BY UnitsTyped
<1>4. m.stock.reserved = a /\ m.stock.available = b
  BY <1>2
<1>5. \A x, y \in Int : /\ Minus(x, y) \in Int /\ Minus(x, y) >= 0 /\ x + y \in Int
                        /\ x >= 0 /\ y > 0 => x + y >= 0
  BY DEF Minus
<1>6. StockAfter(s, m.stock, e) =
        IF e = "InventoryReserved" THEN [reserved |-> a + u, available |-> Minus(b, u)]
        ELSE IF e = "InventoryReleased" THEN [reserved |-> Minus(a, u), available |-> b + u]
        ELSE m.stock
  BY <1>3, <1>4 DEF StockAfter
<1>7. u > 0 => a >= 0 /\ b >= 0
  BY <1>3, <1>4 DEF ModelsTyped
<1>8. PICK c : c = StockAfter(s, m.stock, e)
  OBVIOUS
<1>9. c \in [reserved : Int, available : Int] /\ (u > 0 => c.reserved >= 0 /\ c.available >= 0)
  <2>1. CASE e = "InventoryReserved"
    BY <1>5, <1>6, <1>7, <1>8, <2>1
  <2>2. CASE e = "InventoryReleased"
    BY <1>5, <1>6, <1>7, <1>8, <2>2
  <2>3. CASE e \notin {"InventoryReserved", "InventoryReleased"}
    BY <1>2, <1>6, <1>7, <1>8, <2>3
  <2>4. QED
    BY <2>1, <2>2, <2>3
<1>10. QED
  BY <1>1, <1>3, <1>8, <1>9 DEF ModelsTyped, ModelsAfter

\* ... so that they have it from the empty tables on.
LEMMA AlongTyped ==
    ASSUME NEW s \in Scenarios, NEW es, Len(es) \in Nat
    PROVE  \A k \in 0 .. Len(es) : ModelsTyped(s, ModelsAlong(s, es)[k])
<1> DEFINE S == {k \in Nat : k \in 0 .. Len(es) => ModelsTyped(s, ModelsAlong(s, es)[k])}
<1>1. 0 \in S
  <2>1. StockOf(s) \in [reserved : Nat, available : Nat]
    BY UnitsTyped DEF StockOf
  <2>2. ModelsTyped(s, [rows |-> NoRows, stock |-> StockOf(s)])
    BY <2>1 DEF ModelsTyped, NoRows
  <2>3. QED
    BY <2>2, ModelsBegin
<1>2. ASSUME NEW k \in S PROVE k + 1 \in S
  <2>1. SUFFICES ASSUME k + 1 \in 0 .. Len(es) PROVE ModelsTyped(s, ModelsAlong(s, es)[k + 1])
    OBVIOUS
  <2>2. PICK l \in 1 .. Len(es) : l = k + 1 /\ l - 1 = k /\ k \in 0 .. Len(es)
    BY <2>1
  <2>3. ModelsTyped(s, ModelsAlong(s, es)[k])
    BY <2>2
  <2>4. ModelsAlong(s, es)[l] = ModelsAfter(s, ModelsAlong(s, es)[l - 1], es[l])
    BY ModelsStep, Zenon
  <2>5. QED
    BY <2>2, <2>3, <2>4, AfterTyped
<1>3. S = Nat
  BY <1>1, <1>2, Induction
<1>4. QED
  BY <1>3

-----------------------------------------------------------------------------
(* Types *)

\* The events that tables and sets hold.
EventsTyped ==
    /\ processed \subseteq EventTypes /\ applied \subseteq EventTypes
    /\ store \in Seq(EventTypes) /\ timeline \in [EventTypes -> Nat]
    /\ notified \subseteq EventTypes /\ lost \subseteq EventTypes

HandlersTyped ==
    pc \in [Instances -> Points] /\ cur \in [Instances -> EventTypes \cup {None}]

RequestsTyped ==
    /\ rpc \in [Replayers -> ReplayPoints]
    /\ todo \in [Replayers -> Seq(EventTypes)]
    /\ quiet \in [Replayers -> BOOLEAN]

BoundsTyped ==
    /\ scenario \in Scenarios
    /\ faults \in 0 .. scenario.faults /\ steals \in 0 .. faults
    /\ replays \in 0 .. scenario.replays

\* TypeOK, in parts; the topics are KafkaTypes.
TypeInv ==
    EventsTyped /\ HandlersTyped /\ ModelsTyped(scenario, Models) /\ RequestsTyped /\ BoundsTyped

\* The parts make up TypeOK.
LEMMA TypesSuffice ==
    ASSUME TypeInv, KafkaTypes
    PROVE  TypeOK
<1>1. \A t \in Topics : taken[t] \in 0 .. Len(log[t])
  BY DEF KafkaTypes
<1>2. DOMAIN rows = {"order", "payment", "shipment"} /\ stock \in [reserved : Int, available : Int]
  BY DEF TypeInv, ModelsTyped, Models
<1>3. QED
  BY <1>1, <1>2 DEF TypeOK, TypeInv, KafkaTypes, EventsTyped, HandlersTyped, RequestsTyped,
                    BoundsTyped

\* The tables hold what the past of the scenario left there.
LEMMA InitTypeInv == Init => TypeInv
<1> SUFFICES ASSUME Init PROVE TypeInv
  OBVIOUS
<1>1. PICK s \in Scenarios :
        /\ scenario = s /\ store = s.past
        /\ timeline = [e \in EventTypes |-> IF e \in ToSet(s.past) THEN 1 ELSE 0]
        /\ processed = ToSet(s.past) /\ applied = ToSet(s.past) /\ notified = ToSet(s.past)
        /\ rows = Rebuilt(s, s.past).rows /\ stock = Rebuilt(s, s.past).stock
  BY DEF Init
<1>2. s.past \in Seq(EventTypes) /\ s.faults \in Nat /\ s.replays \in Nat
  BY ScenariosAssumption
<1>3. Len(s.past) \in Nat /\ ToSet(s.past) \subseteq EventTypes
  BY <1>2, SMT DEF ToSet
<1>4. EventsTyped
  <2>1. timeline \in [EventTypes -> Nat]
    BY <1>1
  <2>2. lost = {}
    BY DEF Init
  <2>3. QED
    BY <1>1, <1>2, <1>3, <2>1, <2>2 DEF EventsTyped
<1>5. HandlersTyped
  BY DEF Init, HandlersTyped, Points
<1>6. ModelsTyped(scenario, Models)
  <2>1. ModelsTyped(s, Rebuilt(s, s.past))
    BY <1>2, <1>3, AlongTyped DEF Rebuilt
  <2>2. QED
    BY <1>1, <2>1 DEF ModelsTyped, Models
<1>7. RequestsTyped
  BY DEF Init, RequestsTyped, ReplayPoints
<1>8. BoundsTyped
  BY <1>1, <1>2 DEF Init, BoundsTyped
<1>9. QED
  BY <1>4, <1>5, <1>6, <1>7, <1>8 DEF TypeInv

\* Everything at work is an event.
LEMMA AtWorkTyped ==
    ASSUME OrderInv, NEW i \in Instances, pc[i] # "idle"
    PROVE  cur[i] \in EventTypes
BY DEF OrderInv, InTurn, Ready

\* ... and so is what a request has to apply.
LEMMA ReplayedTyped ==
    ASSUME RequestsTyped, NEW r \in Replayers, todo[r] # <<>>
    PROVE  Head(todo[r]) \in EventTypes /\ Tail(todo[r]) \in Seq(EventTypes)
<1>1. todo[r] \in Seq(EventTypes)
  BY DEF RequestsTyped
<1>2. QED
  BY <1>1

\* What a handler does leaves events in the tables and works on events.
LEMMA HandleTyped ==
    ASSUME OrderInv, TypeInv, NEW i \in Instances, scenario' = scenario,
           Handle(i) \/ Retry(i) \/ GiveUp(i) \/ Crash(i) \/ \E t \in Topics : Steal(i, t)
    PROVE  EventsTyped' /\ HandlersTyped' /\ ModelsTyped(scenario, Models)'
<1> USE DEF TypeInv
<1>1. pc[i] # "idle" => cur[i] \in EventTypes
  BY AtWorkTyped
<1>2. ASSUME NEW t \in Topics, Take(i, t)
      PROVE  EventsTyped' /\ HandlersTyped' /\ ModelsTyped(scenario, Models)'
  <2>1. UNCHANGED <<processed, applied, store, timeline, notified, lost, rows, stock>>
    BY <1>2 DEF Take, model
  <2>2. log[t][taken[t] + 1] \in EventTypes
    <3>1. log[t] \in Seq(EventTypes) /\ taken[t] \in Nat /\ taken[t] < Len(log[t])
      BY <1>2 DEF Take, OrderInv, KafkaTypes
    <3>2. QED
      BY <3>1
  <2>3. HandlersTyped'
    <3>1. CASE UNCHANGED mem
      BY <3>1 DEF HandlersTyped, mem
    <3>2. CASE pc' = [pc EXCEPT ![i] = "append"]
               /\ cur' = [cur EXCEPT ![i] = log[t][taken[t] + 1]]
      BY <2>2, <3>2 DEF HandlersTyped, Points
    <3>3. QED
      BY <1>2, <3>1, <3>2 DEF Take
  <2>4. QED
    BY <2>1, <2>3 DEF EventsTyped, ModelsTyped, Models
<1>3. CASE AppendToEventStore(i)
  <2>1. cur[i] \in EventTypes
    BY <1>1, <1>3 DEF AppendToEventStore
  <2>2. store' \in Seq(EventTypes)
    BY <1>3, <2>1 DEF AppendToEventStore, Appended, EventsTyped
  <2>3. QED
    BY <1>3, <2>2 DEF AppendToEventStore, Goto, EventsTyped, HandlersTyped, ModelsTyped, Models,
                      model, Points
<1>4. CASE CheckApplied(i)
  <2>1. timeline' \in [EventTypes -> Nat]
    BY <1>1, <1>4 DEF CheckApplied, RecordEvent, EventsTyped
  <2>2. QED
    BY <1>4, <2>1 DEF CheckApplied, Goto, EventsTyped, HandlersTyped, ModelsTyped, Models, model,
                      Points
<1>5. CASE ApplyEvent(i)
  <2>1. /\ cur[i] \in EventTypes /\ Models' = ModelsAfter(scenario, Models, cur[i])
        /\ applied' = applied \cup {cur[i]}
        /\ UNCHANGED <<processed, store, timeline, notified, lost>>
    BY <1>1, <1>5 DEF ApplyEvent, CommitEvent, Models, ModelsAfter
  <2>2. ModelsTyped(scenario', Models')
    <3>1. PICK s, m : s \in Scenarios /\ s = scenario /\ m = Models
      BY DEF BoundsTyped
    <3>2. ModelsTyped(s, ModelsAfter(s, m, cur[i]))
      BY <3>1, AfterTyped
    <3>3. QED
      BY <2>1, <3>1, <3>2
  <2>3. HandlersTyped'
    BY <1>5 DEF ApplyEvent, Goto, HandlersTyped, Points
  <2>4. QED
    BY <2>1, <2>2, <2>3 DEF EventsTyped, ModelsTyped, Models
<1>6. CASE Finish(i) \/ Retry(i) \/ GiveUp(i) \/ Crash(i)
  <2>1. pc[i] # "idle" /\ UNCHANGED <<applied, store, timeline, rows, stock>>
    BY <1>6 DEF Finish, Retry, GiveUp, Crash, model
  <2>2. processed' \subseteq processed \cup {cur[i]}
    BY <1>6 DEF Finish, Retry, GiveUp, Crash, CutOff
  <2>3. notified' \subseteq notified \cup {cur[i]}
    BY <1>6 DEF Finish, Retry, GiveUp, Crash, CutOff, EmitLiveNotifications
  <2>4. lost' \subseteq lost \cup {cur[i]}
    BY <1>6 DEF Finish, Retry, GiveUp, Crash
  <2>5. HandlersTyped'
    BY <1>6 DEF Finish, Retry, GiveUp, Crash, Return, Goto, HandlersTyped, Points
  <2>6. EventsTyped'
    BY <1>1, <2>1, <2>2, <2>3, <2>4 DEF EventsTyped
  <2>7. QED
    BY <2>1, <2>5, <2>6 DEF ModelsTyped, Models
<1>7. QED
  BY <1>2, <1>3, <1>4, <1>5, <1>6 DEF Handle, TakeNext, Steal

\* A request applies events and deletes rows.
LEMMA ReplayTyped ==
    ASSUME OrderInv, TypeInv, NEW r \in Replayers, scenario' = scenario,
           ReplayStart(r) \/ Replay(r) \/ ReplayFails(r)
    PROVE  EventsTyped' /\ HandlersTyped' /\ ModelsTyped(scenario, Models)'
<1> USE DEF TypeInv
<1>1. UNCHANGED <<mem, processed, store, timeline, notified, lost>>
  BY DEF ReplayStart, Replay, Reset, DeleteRow, DeleteApplied, ReplayCheck, ReplayApply,
         ReplayEnd, ReplayFails, replayFrame
<1>2. HandlersTyped'
  BY <1>1 DEF HandlersTyped, mem
<1>3. applied' \subseteq EventTypes /\ ModelsTyped(scenario, Models)'
  <2>1. CASE UNCHANGED model
    BY <2>1 DEF model, EventsTyped, ModelsTyped, Models
  <2>2. CASE Reset(r)
    BY <2>2 DEF Reset, DeleteRow, DeleteApplied, EventsTyped, ModelsTyped, Models
  <2>3. CASE ReplayApply(r)
    <3>1. todo[r] # <<>>
      BY <2>3 DEF ReplayApply, OrderInv, StoreInv, ReplayedIsStored
    <3>2. /\ Head(todo[r]) \in EventTypes /\ applied' = applied \cup {Head(todo[r])}
          /\ Models' = ModelsAfter(scenario, Models, Head(todo[r]))
      BY <2>3, <3>1, ReplayedTyped DEF ReplayApply, CommitEvent, Models, ModelsAfter
    <3>3. ModelsTyped(scenario', Models')
      <4>1. PICK s, m : s \in Scenarios /\ s = scenario /\ m = Models
        BY DEF BoundsTyped
      <4>2. ModelsTyped(s, ModelsAfter(s, m, Head(todo[r])))
        BY <4>1, AfterTyped
      <4>3. QED
        BY <3>2, <4>1, <4>2
    <3>4. QED
      BY <3>2, <3>3 DEF EventsTyped, ModelsTyped
  <2>4. QED
    BY <2>1, <2>2, <2>3 DEF ReplayStart, Replay, ReplayCheck, ReplayEnd, ReplayFails
<1>4. QED
  BY <1>1, <1>2, <1>3 DEF EventsTyped

\* The lists of the requests hold events.
LEMMA RequestsStayTyped ==
    ASSUME OrderInv, TypeInv, [Next]_vars
    PROVE  RequestsTyped'
<1> USE DEF TypeInv
<1>1. CASE UNCHANGED rep /\ quiet' \in [Replayers -> BOOLEAN]
  BY <1>1 DEF RequestsTyped, rep
<1>2. quiet \in [Replayers -> BOOLEAN] /\ \A q : Writes(q) => quiet' \in [Replayers -> BOOLEAN]
  BY DEF RequestsTyped, Writes
<1>3. ASSUME NEW i \in Instances, Handle(i) \/ Retry(i) \/ GiveUp(i) \/ Crash(i)
      PROVE  RequestsTyped'
  BY <1>1, <1>2, <1>3 DEF Handle, AppendToEventStore, CheckApplied, ApplyEvent, Finish, TakeNext,
                         Take, Retry, GiveUp, Crash
<1>4. ASSUME NEW i \in Instances, NEW t \in Topics, Steal(i, t) PROVE RequestsTyped'
  BY <1>1, <1>2, <1>4 DEF Steal, Take
<1>5. CASE RepublishOrder \/ \E e \in lost : ReplayDlq(e)
  BY <1>1, <1>2, <1>5 DEF RepublishOrder, ReplayDlq, Resend
<1>6. ASSUME NEW r \in Replayers, ReplayStart(r) PROVE RequestsTyped'
  BY <1>6 DEF ReplayStart, ReplayGoto, EventsByAggregate, RequestsTyped, EventsTyped, ReplayPoints
<1>7. ASSUME NEW r \in Replayers, Reset(r) \/ ReplayEnd(r) PROVE RequestsTyped'
  <2>1. PICK p \in ReplayPoints : rpc' = [rpc EXCEPT ![r] = p]
    BY <1>7 DEF Reset, DeleteRow, DeleteApplied, ReplayEnd, ReplayGoto, ReplayPoints
  <2>2. UNCHANGED todo /\ quiet' \in [Replayers -> BOOLEAN]
    BY <1>2, <1>7 DEF Reset, DeleteRow, DeleteApplied, ReplayEnd
  <2>3. QED
    BY <2>1, <2>2 DEF RequestsTyped
<1>8. ASSUME NEW r \in Replayers, ReplayCheck(r) \/ ReplayApply(r) PROVE RequestsTyped'
  <2>1. todo[r] # <<>>
    BY <1>8 DEF ReplayCheck, ReplayApply, OrderInv, StoreInv, ReplayedIsStored
  <2>2. Tail(todo[r]) \in Seq(EventTypes)
    BY <2>1, ReplayedTyped
  <2>3. rpc' \in [Replayers -> ReplayPoints]
    BY <1>8 DEF ReplayCheck, ReplayApply, ReplayGoto, RequestsTyped, ReplayPoints
  <2>4. todo' \in [Replayers -> Seq(EventTypes)]
    BY <1>8, <2>2 DEF ReplayCheck, ReplayApply, ReplayNext, RequestsTyped
  <2>5. quiet' \in [Replayers -> BOOLEAN]
    BY <1>2, <1>8 DEF ReplayCheck, ReplayApply
  <2>6. QED
    BY <2>3, <2>4, <2>5 DEF RequestsTyped
<1>9. ASSUME NEW r \in Replayers, ReplayFails(r) PROVE RequestsTyped'
  <2>1. <<>> \in Seq(EventTypes)
    OBVIOUS
  <2>2. QED
    BY <1>9, <2>1 DEF ReplayFails, ReplayGoto, RequestsTyped, ReplayPoints
<1>10. CASE UNCHANGED vars
  BY <1>1, <1>2, <1>10 DEF vars, rep
<1>11. QED
  BY <1>3, <1>4, <1>5, <1>6, <1>7, <1>8, <1>9, <1>10 DEF Next, Replay

\* Faults and requests stay within their bounds, and a rebalance is a fault.
LEMMA BoundsStayTyped ==
    ASSUME TypeInv, [Next]_vars
    PROVE  BoundsTyped' /\ steals <= steals' /\ replays <= replays' /\ scenario' = scenario
<1>1. /\ scenario \in Scenarios /\ scenario.faults \in Nat /\ scenario.replays \in Nat
      /\ faults \in 0 .. scenario.faults /\ steals \in 0 .. faults
      /\ replays \in 0 .. scenario.replays
  BY ScenariosAssumption DEF TypeInv, BoundsTyped
<1>2. scenario' = scenario
  BY DEF Next, Handle, AppendToEventStore, CheckApplied, ApplyEvent, Finish, TakeNext, Take, Retry,
         GiveUp, Crash, Steal, RepublishOrder, ReplayDlq, Resend, ReplayStart, Replay, Reset,
         DeleteRow, DeleteApplied, ReplayCheck, ReplayApply, ReplayEnd, ReplayFails, replayFrame,
         vars
<1>3. \/ UNCHANGED bounds
      \/ Fault /\ UNCHANGED <<steals, replays>>
      \/ \E i \in Instances, t \in Topics : Steal(i, t)
      \/ \E r \in Replayers : ReplayStart(r)
  <2>1. ASSUME NEW i \in Instances, Handle(i) PROVE UNCHANGED bounds
    BY <2>1 DEF Handle, AppendToEventStore, CheckApplied, ApplyEvent, Finish, TakeNext, Take, bounds
  <2>2. ASSUME NEW i \in Instances, Retry(i) \/ GiveUp(i) \/ Crash(i)
        PROVE  Fault /\ UNCHANGED <<steals, replays>>
    BY <2>2 DEF Retry, GiveUp, Crash
  <2>3. ASSUME RepublishOrder \/ \E e \in lost : ReplayDlq(e)
        PROVE  Fault /\ UNCHANGED <<steals, replays>>
    BY <2>3 DEF RepublishOrder, ReplayDlq, Resend
  <2>4. ASSUME NEW r \in Replayers, Replay(r) PROVE UNCHANGED bounds
    BY <2>4 DEF Replay, Reset, DeleteRow, DeleteApplied, ReplayCheck, ReplayApply, ReplayEnd,
                replayFrame, bounds
  <2>5. ASSUME NEW r \in Replayers, ReplayFails(r) PROVE Fault /\ UNCHANGED <<steals, replays>>
    BY <2>5 DEF ReplayFails
  <2>6. CASE UNCHANGED vars
    BY <2>6 DEF vars, bounds
  <2>7. QED
    BY <2>1, <2>2, <2>3, <2>4, <2>5, <2>6 DEF Next
<1>4. CASE UNCHANGED bounds
  BY <1>1, <1>2, <1>4 DEF bounds, BoundsTyped
<1>5. CASE Fault /\ UNCHANGED <<steals, replays>>
  BY <1>1, <1>2, <1>5 DEF Fault, BoundsTyped
<1>6. ASSUME NEW i \in Instances, NEW t \in Topics, Steal(i, t)
      PROVE  BoundsTyped' /\ steals <= steals' /\ replays <= replays'
  <2>1. /\ faults + StealCost <= scenario.faults /\ faults' = faults + StealCost
        /\ steals' = steals + 1 /\ replays' = replays
    BY <1>6 DEF Steal, Take
  <2>2. QED
    BY <1>1, <1>2, <2>1, BoundsAssumption DEF BoundsTyped
<1>7. ASSUME NEW r \in Replayers, ReplayStart(r)
      PROVE  BoundsTyped' /\ steals <= steals' /\ replays <= replays'
  <2>1. replays < scenario.replays /\ replays' = replays + 1 /\ UNCHANGED <<faults, steals>>
    BY <1>7 DEF ReplayStart, replayFrame
  <2>2. QED
    BY <1>1, <1>2, <2>1 DEF BoundsTyped
<1>8. QED
  BY <1>2, <1>3, <1>4, <1>5, <1>6, <1>7

\* Every step preserves the types.
LEMMA NextTypeInv == OrderInv /\ TypeInv /\ [Next]_vars => TypeInv'
<1> SUFFICES ASSUME OrderInv, TypeInv, [Next]_vars PROVE TypeInv'
  OBVIOUS
<1>1. RequestsTyped' /\ BoundsTyped' /\ scenario' = scenario
  BY RequestsStayTyped, BoundsStayTyped
<1>2. CASE UNCHANGED <<mem, applied, store, timeline, notified, lost, rows, stock>>
           /\ processed' \subseteq processed
  <2>1. EventsTyped' /\ HandlersTyped' /\ ModelsTyped(scenario, Models)'
    BY <1>1, <1>2 DEF TypeInv, EventsTyped, HandlersTyped, ModelsTyped, Models, mem
  <2>2. QED
    BY <1>1, <2>1 DEF TypeInv
<1>3. CASE RepublishOrder \/ \E e \in lost : ReplayDlq(e)
  BY <1>2, <1>3 DEF RepublishOrder, ReplayDlq, Resend, model
<1>4. CASE UNCHANGED vars
  BY <1>2, <1>4 DEF vars, mem
<1>5. CASE \E i \in Instances : \/ Handle(i) \/ Retry(i) \/ GiveUp(i) \/ Crash(i)
                                \/ \E t \in Topics : Steal(i, t)
  BY <1>1, <1>5, HandleTyped DEF TypeInv
<1>6. CASE \E r \in Replayers : ReplayStart(r) \/ Replay(r) \/ ReplayFails(r)
  BY <1>1, <1>6, ReplayTyped DEF TypeInv
<1>7. QED
  BY <1>3, <1>4, <1>5, <1>6 DEF Next

\* Types are kept, beside the order of the store.
LEMMA TypesHold == Spec => [](OrderInv /\ TypeInv)
<1>1. Init => OrderInv /\ TypeInv
  BY InitOrderInv, InitTypeInv
<1>2. (OrderInv /\ TypeInv) /\ [Next]_vars => (OrderInv /\ TypeInv)'
  BY NextOrderInv, NextTypeInv
<1>3. QED
  BY <1>1, <1>2, PTL DEF Spec

\* Offsets, tables, handlers and requests hold values of their kinds, whatever number
\* of units the order asks for.
THEOREM TypeCorrect == Spec => []TypeOK
<1>1. OrderInv /\ TypeInv => TypeOK
  BY TypesSuffice DEF OrderInv
<1>2. QED
  BY <1>1, TypesHold, PTL

-----------------------------------------------------------------------------
(* What an undisturbed replay has done *)

\* Request r has the events of the store after the first d yet to apply.
Left(r, d) ==
    /\ Len(todo[r]) = Len(store) - d
    /\ \A k \in 1 .. Len(todo[r]) : todo[r][k] = store[d + k]

\* A replay nobody interfered with has deleted what lies behind it, and then
\* applied the events it took from its list, one by one and no other.
QuietReplay(r) ==
    /\ rpc[r] \in {"order", "payment", "shipment", "applied"} => Left(r, 0)
    /\ rpc[r] \in {"payment", "shipment", "applied"} => rows.order = None
    /\ rpc[r] \in {"shipment", "applied"} => rows.payment = None
    /\ rpc[r] = "applied" => rows.shipment = None
    /\ rpc[r] \in {"check", "apply"} =>
         \E d \in 0 .. Len(store) :
            /\ Left(r, d)
            /\ rows = ModelsAlong(scenario, store)[d].rows
            /\ applied = {store[k] : k \in 1 .. d}
QuietReplays == \A r \in Replayers : quiet[r] => QuietReplay(r)

\* Nobody writes, or the request that does is not quiet any more.
LEMMA QuietStands ==
    ASSUME QuietReplays, UNCHANGED <<store, scenario>> /\ UNCHANGED rep,
           \/ UNCHANGED <<rows, applied>> /\ UNCHANGED quiet
           \/ \A r \in Replayers : ~quiet'[r]
    PROVE  QuietReplays'
<1>1. SUFFICES ASSUME NEW r \in Replayers, quiet'[r], UNCHANGED <<rows, applied>> /\ UNCHANGED quiet
               PROVE  QuietReplay(r)'
  BY DEF QuietReplays
<1>2. QuietReplay(r)
  BY <1>1 DEF QuietReplays
<1>3. UNCHANGED <<rows, applied, store, scenario, rpc, todo>>
  BY <1>1 DEF rep
<1>4. QED
  BY <1>2, <1>3 DEF QuietReplay, Left

\* A handler that writes ends every undisturbed replay.
LEMMA QuietHandler ==
    ASSUME QuietReplays, TypeInv, NEW i \in Instances,
           Handle(i) \/ Retry(i) \/ GiveUp(i) \/ Crash(i) \/ \E t \in Topics : Steal(i, t)
    PROVE  QuietReplays'
<1>1. CASE AppendToEventStore(i)
  BY <1>1, NoneAssumption DEF AppendToEventStore, Writes, QuietReplays
<1>2. CASE ApplyEvent(i)
  BY <1>2, NoneAssumption DEF ApplyEvent, Writes, QuietReplays
<1>3. CASE CheckApplied(i) \/ Finish(i) \/ Retry(i) \/ GiveUp(i) \/ Crash(i)
  BY <1>3, QuietStands DEF CheckApplied, Finish, Retry, GiveUp, Crash, model
<1>4. ASSUME NEW t \in Topics, Take(i, t) PROVE QuietReplays'
  BY <1>4, QuietStands DEF Take, model
<1>5. QED
  BY <1>1, <1>2, <1>3, <1>4 DEF Handle, TakeNext, Steal

\* A step of request q leaves another replay undisturbed only if it writes nothing.
LEMMA OthersQuiet ==
    ASSUME QuietReplays, TypeInv, NEW q \in Replayers, UNCHANGED <<store, scenario>>,
           NEW p, rpc' = [rpc EXCEPT ![q] = p], NEW es, todo' = [todo EXCEPT ![q] = es],
           NEW b, (UNCHANGED model /\ quiet' = [quiet EXCEPT ![q] = b]) \/ Writes(q),
           quiet'[q] => QuietReplay(q)'
    PROVE  QuietReplays'
<1>1. SUFFICES ASSUME NEW r \in Replayers, quiet'[r], r # q PROVE QuietReplay(r)'
  BY DEF QuietReplays
<1>2. UNCHANGED model /\ quiet' = [quiet EXCEPT ![q] = b]
  BY <1>1 DEF Writes
<1>3. quiet[r] /\ rpc'[r] = rpc[r] /\ todo'[r] = todo[r]
  BY <1>1, <1>2 DEF TypeInv, RequestsTyped
<1>4. QuietReplay(r)
  BY <1>3 DEF QuietReplays
<1>5. UNCHANGED <<rows, applied, store, scenario>>
  BY <1>2 DEF model
<1>6. \A d : Left(r, d) => Left(r, d)'
  BY <1>3, <1>5 DEF Left
<1>7. QED
  BY <1>3, <1>4, <1>5, <1>6 DEF QuietReplay

\* The reset: what is left to do is the whole store, and the tables empty.
LEMMA ResetQuiet ==
    ASSUME QuietReplays, OrderInv, TypeInv, NEW r \in Replayers, Reset(r)
    PROVE  QuietReplays'
<1>1. /\ UNCHANGED <<store, scenario, todo>> /\ Writes(r)
  BY DEF Reset, DeleteRow, DeleteApplied, replayFrame
<1>2. /\ todo' = [todo EXCEPT ![r] = todo[r]] /\ quiet'[r] = quiet[r]
      /\ rpc \in [Replayers -> ReplayPoints]
      /\ rows = [t \in {"order", "payment", "shipment"} |-> rows[t]]
      /\ store \in Seq(EventTypes)
  BY <1>1 DEF TypeInv, RequestsTyped, EventsTyped, ModelsTyped, Models, Writes
<1>3. PICK p : rpc' = [rpc EXCEPT ![r] = p]
  BY DEF Reset, DeleteRow, DeleteApplied, ReplayGoto
<1>4. rpc'[r] = p
  BY <1>2, <1>3
<1>5. SUFFICES ASSUME quiet[r] PROVE QuietReplay(r)'
  BY <1>1, <1>2, <1>3, OthersQuiet
<1>6. QuietReplay(r)
  BY <1>5 DEF QuietReplays
<1>7. rpc[r] \in {"order", "payment", "shipment", "applied"} /\ Left(r, 0)
  BY <1>6 DEF Reset, DeleteRow, DeleteApplied, QuietReplay
<1>8. Left(r, 0)'
  BY <1>1, <1>7 DEF Left
<1>9. CASE DeleteRow(r, "order", "payment")
  <2>1. p = "payment" /\ rows'.order = None
    BY <1>2, <1>4, <1>9 DEF DeleteRow, ReplayGoto
  <2>2. QED
    BY <1>4, <1>8, <2>1 DEF QuietReplay
<1>10. CASE DeleteRow(r, "payment", "shipment")
  <2>1. rpc[r] = "payment" /\ p = "shipment" /\ rows'.order = rows.order /\ rows'.payment = None
    BY <1>2, <1>4, <1>10 DEF DeleteRow, ReplayGoto
  <2>2. QED
    BY <1>4, <1>6, <1>8, <2>1 DEF QuietReplay
<1>11. CASE DeleteRow(r, "shipment", "applied")
  <2>1. /\ rpc[r] = "shipment" /\ p = "applied" /\ rows'.order = rows.order
        /\ rows'.payment = rows.payment /\ rows'.shipment = None
    BY <1>2, <1>4, <1>11 DEF DeleteRow, ReplayGoto
  <2>2. QED
    BY <1>4, <1>6, <1>8, <2>1 DEF QuietReplay
<1>12. CASE DeleteApplied(r)
  <2>1. rpc[r] = "applied" /\ p = "check" /\ rows' = rows /\ applied' = {}
    BY <1>2, <1>4, <1>12 DEF DeleteApplied, ReplayGoto
  <2>2. rows.order = None /\ rows.payment = None /\ rows.shipment = None
    BY <1>6, <2>1 DEF QuietReplay
  <2>3. rows = NoRows
    BY <1>2, <2>2, SMT DEF NoRows
  <2>4. Len(store) \in Nat /\ 0 \in 0 .. Len(store)
    BY <1>2
  <2>5. ModelsAlong(scenario, store)[0].rows = NoRows
    <3>1. PICK s, es : s = scenario /\ es = store
      OBVIOUS
    <3>2. ModelsAlong(s, es)[0] = [rows |-> NoRows, stock |-> StockOf(s)]
      BY <2>4, <3>1, ModelsBegin
    <3>3. QED
      BY <3>1, <3>2
  <2>6. applied' = {store[k] : k \in 1 .. 0}
    BY <2>1
  <2>7. /\ Left(r, 0)' /\ rows' = ModelsAlong(scenario, store)[0].rows
        /\ UNCHANGED <<scenario, store>>
    BY <1>1, <1>8, <2>1, <2>3, <2>5
  <2>8. QED
    BY <1>4, <2>1, <2>4, <2>6, <2>7 DEF QuietReplay
<1>13. QED
  BY <1>9, <1>10, <1>11, <1>12 DEF Reset

\* The loop: the next event of the list is the next of the store, and as no event is
\* stored twice it is not applied yet.
LEMMA LoopQuiet ==
    ASSUME QuietReplays, OrderInv, TypeInv, NEW r \in Replayers, ReplayCheck(r) \/ ReplayApply(r)
    PROVE  QuietReplays'
<1>1. UNCHANGED <<store, scenario>>
  BY DEF ReplayCheck, ReplayApply, replayFrame
<1>2. /\ rpc \in [Replayers -> ReplayPoints] /\ todo \in [Replayers -> Seq(EventTypes)]
      /\ quiet \in [Replayers -> BOOLEAN] /\ store \in Seq(EventTypes)
      /\ rpc = [rpc EXCEPT ![r] = rpc[r]] /\ todo = [todo EXCEPT ![r] = todo[r]]
      /\ quiet = [quiet EXCEPT ![r] = quiet[r]]
  BY DEF TypeInv, RequestsTyped, EventsTyped
<1>3. PICK p, es : rpc' = [rpc EXCEPT ![r] = p] /\ todo' = [todo EXCEPT ![r] = es]
  BY <1>2 DEF ReplayCheck, ReplayApply, ReplayGoto, ReplayNext
<1>4. (UNCHANGED model /\ quiet' = [quiet EXCEPT ![r] = quiet[r]]) \/ Writes(r)
  BY <1>2 DEF ReplayCheck, ReplayApply
<1>5. quiet'[r] = quiet[r] /\ rpc'[r] = p /\ todo'[r] = es
  BY <1>2, <1>3, <1>4 DEF Writes
<1>6. SUFFICES ASSUME quiet[r] PROVE QuietReplay(r)'
  BY <1>1, <1>3, <1>4, <1>5, OthersQuiet
<1>7. PICK d \in 0 .. Len(store) :
        /\ Left(r, d) /\ rows = ModelsAlong(scenario, store)[d].rows
        /\ applied = {store[k] : k \in 1 .. d}
  BY <1>6 DEF QuietReplays, QuietReplay, ReplayCheck, ReplayApply
<1>8. PICK e : e = Head(todo[r])
  OBVIOUS
<1>9. todo[r] # <<>>
  BY DEF ReplayCheck, ReplayApply, OrderInv, StoreInv, ReplayedIsStored
<1>10. /\ Len(store) \in Nat /\ Len(todo[r]) \in Nat /\ Len(todo[r]) > 0 /\ e = todo[r][1]
       /\ Len(Tail(todo[r])) = Len(todo[r]) - 1
       /\ \A k \in 1 .. Len(Tail(todo[r])) : Tail(todo[r])[k] = todo[r][k + 1]
  BY <1>2, <1>8, <1>9
<1>11. Len(todo[r]) = Len(store) - d /\ d + 1 \in 1 .. Len(store) /\ e = store[d + 1]
  BY <1>7, <1>10 DEF Left
<1>12. e \notin applied
  <2>1. ASSUME NEW k \in 1 .. d PROVE store[k] # e
    <3>1. k \in 1 .. Len(store) /\ k < d + 1
      BY <1>10, <1>11
    <3>2. InOrder(store[k], store[d + 1])
      BY <1>11, <3>1 DEF OrderInv, Ordered
    <3>3. QED
      BY <1>11, <3>2 DEF InOrder
  <2>2. QED
    BY <1>7, <2>1
<1>13. CASE ReplayCheck(r)
  <2>1. p = "apply" /\ es = todo[r] /\ UNCHANGED <<rows, applied>>
    BY <1>2, <1>3, <1>5, <1>8, <1>12, <1>13 DEF ReplayCheck, IsApplied, ReplayGoto, model
  <2>2. Left(r, d)'
    BY <1>1, <1>5, <1>7, <2>1 DEF Left
  <2>3. QED
    BY <1>1, <1>5, <1>7, <2>1, <2>2 DEF QuietReplay
<1>14. CASE ReplayApply(r)
  <2>1. /\ p = "check" /\ es = Tail(todo[r]) /\ rows' = Project(rows, e)
        /\ applied' = applied \cup {e}
    BY <1>2, <1>3, <1>5, <1>8, <1>14 DEF ReplayApply, ReplayGoto, ReplayNext, CommitEvent
  <2>2. Left(r, d + 1)'
    <3>1. Len(es) = Len(store) - (d + 1)
      BY <1>7, <1>10, <1>11, <2>1
    <3>2. ASSUME NEW k \in 1 .. Len(es) PROVE es[k] = store[(d + 1) + k]
      <4>1. k + 1 \in 1 .. Len(todo[r]) /\ d + (k + 1) = (d + 1) + k
        BY <1>7, <1>10, <2>1, <3>2
      <4>2. todo[r][k + 1] = store[d + (k + 1)]
        BY <1>7, <4>1 DEF Left
      <4>3. QED
        BY <1>10, <2>1, <4>1, <4>2
    <3>3. QED
      BY <1>1, <1>5, <3>1, <3>2 DEF Left
  <2>3. rows' = ModelsAlong(scenario, store)[d + 1].rows
    <3>1. (d + 1) - 1 = d
      BY <1>7
    <3>2. PICK s, fs : s = scenario /\ fs = store
      OBVIOUS
    <3>3. PICK k \in 1 .. Len(fs) : k = d + 1
      BY <1>11, <3>2
    <3>4. Len(fs) \in Nat
      BY <1>10, <3>2
    <3>5. ModelsAlong(s, fs)[k] = ModelsAfter(s, ModelsAlong(s, fs)[k - 1], fs[k])
      BY <3>4, ModelsStep, Zenon
    <3>6. k - 1 = d /\ fs[k] = e
      BY <1>11, <3>1, <3>2, <3>3
    <3>7. ModelsAlong(s, fs)[k].rows = Project(ModelsAlong(s, fs)[d].rows, e)
      BY <3>5, <3>6 DEF ModelsAfter
    <3>8. QED
      BY <1>7, <2>1, <3>2, <3>3, <3>7
  <2>4. applied' = {store[k] : k \in 1 .. d + 1}
    <3>1. 1 .. d + 1 = (1 .. d) \cup {d + 1}
      BY <1>7
    <3>2. QED
      BY <1>7, <1>11, <2>1, <3>1
  <2>5. d + 1 \in 0 .. Len(store)
    BY <1>10, <1>11
  <2>6. QED
    BY <1>1, <1>5, <2>1, <2>2, <2>3, <2>4, <2>5 DEF QuietReplay
<1>15. QED
  BY <1>13, <1>14

\* A request reads the store, answers, or fails.
LEMMA RequestQuiet ==
    ASSUME QuietReplays, OrderInv, TypeInv, NEW r \in Replayers,
           ReplayStart(r) \/ ReplayEnd(r) \/ ReplayFails(r)
    PROVE  QuietReplays'
<1>1. /\ rpc \in [Replayers -> ReplayPoints] /\ todo \in [Replayers -> Seq(EventTypes)]
      /\ quiet \in [Replayers -> BOOLEAN] /\ store \in Seq(EventTypes)
      /\ todo = [todo EXCEPT ![r] = todo[r]] /\ quiet = [quiet EXCEPT ![r] = quiet[r]]
  BY DEF TypeInv, RequestsTyped, EventsTyped
<1>2. UNCHANGED <<store, scenario>> /\ UNCHANGED model
  BY DEF ReplayStart, ReplayEnd, ReplayFails, replayFrame
<1>3. CASE ReplayStart(r)
  <2>1. /\ rpc' = [rpc EXCEPT ![r] = "order"] /\ todo' = [todo EXCEPT ![r] = store]
        /\ quiet' = [quiet EXCEPT ![r] = TRUE]
    BY <1>3 DEF ReplayStart, ReplayGoto, EventsByAggregate
  <2>2. rpc'[r] = "order" /\ todo'[r] = store
    BY <1>1, <2>1
  <2>3. Len(store) = Len(store) - 0 /\ \A k \in 1 .. Len(store) : store[k] = store[0 + k]
    BY <1>1
  <2>4. Left(r, 0)'
    BY <1>2, <2>2, <2>3 DEF Left
  <2>5. QuietReplay(r)'
    BY <2>2, <2>4 DEF QuietReplay
  <2>6. QED
    BY <1>2, <2>1, <2>5, OthersQuiet
<1>4. CASE ReplayEnd(r) \/ ReplayFails(r)
  <2>1. /\ rpc' = [rpc EXCEPT ![r] = "idle"] /\ quiet' = [quiet EXCEPT ![r] = quiet[r]]
    BY <1>1, <1>4 DEF ReplayEnd, ReplayFails, ReplayGoto
  <2>2. PICK es : todo' = [todo EXCEPT ![r] = es]
    BY <1>1, <1>4 DEF ReplayEnd, ReplayFails
  <2>3. rpc'[r] = "idle"
    BY <1>1, <2>1
  <2>4. QuietReplay(r)'
    BY <2>3 DEF QuietReplay
  <2>5. QED
    BY <1>2, <2>1, <2>2, <2>4, OthersQuiet
<1>5. QED
  BY <1>3, <1>4

\* Every step preserves the invariant.
LEMMA NextQuiet == OrderInv /\ TypeInv /\ QuietReplays /\ [Next]_vars => QuietReplays'
<1> SUFFICES ASSUME OrderInv, TypeInv, QuietReplays, [Next]_vars PROVE QuietReplays'
  OBVIOUS
<1>1. CASE \E i \in Instances : \/ Handle(i) \/ Retry(i) \/ GiveUp(i) \/ Crash(i)
                                \/ \E t \in Topics : Steal(i, t)
  BY <1>1, QuietHandler
<1>2. CASE RepublishOrder \/ \E e \in lost : ReplayDlq(e)
  BY <1>2, QuietStands DEF RepublishOrder, ReplayDlq, Resend, model
<1>3. CASE UNCHANGED vars
  BY <1>3, QuietStands DEF vars, rep
<1>4. CASE \E r \in Replayers : ReplayStart(r) \/ Replay(r) \/ ReplayFails(r)
  BY <1>4, ResetQuiet, LoopQuiet, RequestQuiet DEF Replay
<1>5. QED
  BY <1>1, <1>2, <1>3, <1>4 DEF Next

\* With the whole list applied, the rows are those of the whole store.
LEMMA QuietRebuilt ==
    ASSUME OrderInv, TypeInv, QuietReplays
    PROVE  QuietReplayRebuilds
<1>1. SUFFICES ASSUME NEW r \in Replayers, rpc[r] = "check", todo[r] = <<>>, quiet[r]
               PROVE  rows = Rebuilt(scenario, store).rows /\ applied = ToSet(store)
  BY DEF QuietReplayRebuilds
<1>2. PICK d \in 0 .. Len(store) :
        /\ Left(r, d) /\ rows = ModelsAlong(scenario, store)[d].rows
        /\ applied = {store[k] : k \in 1 .. d}
  BY <1>1 DEF QuietReplays, QuietReplay
<1>3. Len(store) \in Nat /\ store \in Seq(EventTypes)
  BY DEF TypeInv, EventsTyped
<1>4. d = Len(store)
  BY <1>1, <1>2, <1>3 DEF Left
<1>5. ToSet(store) = {store[k] : k \in 1 .. Len(store)}
  BY <1>3, SMT DEF ToSet
<1>6. QED
  BY <1>2, <1>4, <1>5 DEF Rebuilt

\* What an undisturbed replay has done is what its list and the store say.
THEOREM ReplayInvariance == Spec => [](OrderInv /\ TypeInv /\ QuietReplays)
<1>1. Init => OrderInv /\ TypeInv /\ QuietReplays
  BY InitOrderInv, InitTypeInv DEF Init, QuietReplays
<1>2. (OrderInv /\ TypeInv /\ QuietReplays) /\ [Next]_vars => (OrderInv /\ TypeInv /\ QuietReplays)'
  BY NextOrderInv, NextTypeInv, NextQuiet
<1>3. QED
  BY <1>1, <1>2, PTL DEF Spec

\* A replay nobody interfered with ends with the rows the event store gives in the
\* order of its sequence numbers, and with every event logged as applied, whatever
\* an earlier, failed replay or a crash had left behind (replayAggregate).
THEOREM ReplayRebuilds == Spec => []QuietReplayRebuilds
<1>1. OrderInv /\ TypeInv /\ QuietReplays => QuietReplayRebuilds
  BY QuietRebuilt
<1>2. QED
  BY <1>1, ReplayInvariance, PTL

-----------------------------------------------------------------------------
(* The models follow the topics *)

Fed == {"inventory", "payments", "shipping"}

\* As long as nothing was stolen, replayed or diverted, an instance at work holds
\* its topic, what is marked is applied, and a check of the applied-events log
\* still tells the truth when its outcome is used.
Orderly ==
    /\ \A r \in Replayers : rpc[r] = "idle"
    /\ \A i \in Instances : pc[i] # "idle" => holder[TopicOf[cur[i]]] = i
    /\ \A i \in Instances : /\ pc[i] = "apply" => cur[i] \notin applied
                            /\ pc[i] = "finish" => cur[i] \in applied
    /\ processed \subseteq applied

\* The events of topic t are applied up to the offset, or one further.
Follows(t) ==
    \E n \in 0 .. Len(log[t]) :
        /\ n \in {taken[t], taken[t] + 1}
        /\ AppliedUpTo(t, n)
        /\ FedBy(t, Models) = FedBy(t, ModelsAlong(scenario, log[t])[n])

\* Only OrderCreated, which feeds none of these topics, is sent repeatedly: they
\* hold what they held at first, each event once.
Once(t) ==
    /\ log[t] = scenario.topics[t]
    /\ \A k \in 1 .. Len(log[t]) : \A j \in 1 .. k - 1 : log[t][j] # log[t][k]

Following ==
    steals = 0 /\ replays = 0 /\ lost = {} =>
        Orderly /\ \A t \in Fed : Once(t) /\ Follows(t)

\* What each topic feeds.
LEMMA FedParts ==
    ASSUME NEW m
    PROVE  /\ FedBy("inventory", m) = m.stock
           /\ FedBy("payments", m) = m.rows.payment
           /\ FedBy("shipping", m) = m.rows.shipment
BY DEF FedBy

\* An event of another topic leaves the part alone.
LEMMA FedByOthers ==
    ASSUME NEW t \in Fed, NEW s, NEW m, NEW e \in EventTypes, TopicOf[e] # t
    PROVE  FedBy(t, ModelsAfter(s, m, e)) = FedBy(t, m)
<1>1. /\ ModelsAfter(s, m, e).stock = StockAfter(s, m.stock, e)
      /\ ModelsAfter(s, m, e).rows.payment = PaymentRow(m.rows.payment, e)
      /\ ModelsAfter(s, m, e).rows.shipment = ShipmentRow(m.rows.shipment, e)
  BY DEF ModelsAfter, Project
<1>2. CASE t = "inventory"
  <2>1. e \notin {"InventoryReserved", "InventoryReleased"}
    BY <1>2, TopicTable
  <2>2. QED
    BY <1>1, <1>2, <2>1, FedParts DEF StockAfter
<1>3. CASE t = "payments"
  <2>1. e \notin {"PaymentAuthorized", "PaymentRefunded"}
    BY <1>3, TopicTable
  <2>2. QED
    BY <1>1, <1>3, <2>1, FedParts DEF PaymentRow
<1>4. CASE t = "shipping"
  <2>1. e # "ShipmentCreated"
    BY <1>4, TopicTable
  <2>2. QED
    BY <1>1, <1>4, <2>1, FedParts DEF ShipmentRow
<1>5. QED
  BY <1>2, <1>3, <1>4 DEF Fed

\* What an event makes of a part depends on that part only.
LEMMA FedByItself ==
    ASSUME NEW t \in Fed, NEW s, NEW m, NEW o, FedBy(t, m) = FedBy(t, o), NEW e
    PROVE  FedBy(t, ModelsAfter(s, m, e)) = FedBy(t, ModelsAfter(s, o, e))
<1>1. \A x : /\ ModelsAfter(s, x, e).stock = StockAfter(s, x.stock, e)
             /\ ModelsAfter(s, x, e).rows.payment = PaymentRow(x.rows.payment, e)
             /\ ModelsAfter(s, x, e).rows.shipment = ShipmentRow(x.rows.shipment, e)
  BY DEF ModelsAfter, Project
<1>2. CASE t = "inventory"
  BY <1>1, <1>2, FedParts
<1>3. CASE t = "payments"
  BY <1>1, <1>3, FedParts
<1>4. CASE t = "shipping"
  BY <1>1, <1>4, FedParts
<1>5. QED
  BY <1>2, <1>3, <1>4 DEF Fed

\* These are topics, and not the one of OrderCreated.
LEMMA FedTopics == Fed \subseteq Topics \ {"orders"}
BY DEF Fed, Topics

\* A step that does not touch topic t and the models.
LEMMA FollowStands ==
    ASSUME NEW t, Once(t), Follows(t), log'[t] = log[t], taken'[t] = taken[t],
           UNCHANGED <<scenario, applied, rows, stock>>
    PROVE  Once(t)' /\ Follows(t)'
<1>1. Once(t)'
  BY DEF Once
<1>2. Models' = Models
  BY DEF Models
<1>3. PICK n \in 0 .. Len(log[t]) :
        /\ n \in {taken[t], taken[t] + 1} /\ AppliedUpTo(t, n)
        /\ FedBy(t, Models) = FedBy(t, ModelsAlong(scenario, log[t])[n])
  BY DEF Follows
<1>4. AppliedUpTo(t, n)'
  BY <1>3 DEF AppliedUpTo
<1>5. FedBy(t, Models') = FedBy(t, ModelsAlong(scenario', log'[t])[n])
  BY <1>2, <1>3
<1>6. n \in 0 .. Len(log'[t]) /\ n \in {taken'[t], taken'[t] + 1}
  BY <1>3
<1>7. QED
  BY <1>1, <1>4, <1>5, <1>6 DEF Follows

\* The offset passes a message that is applied.
LEMMA FollowAdvance ==
    ASSUME KafkaTypes, NEW t \in Fed, Once(t), Follows(t), log'[t] = log[t],
           taken[t] < Len(log[t]), log[t][taken[t] + 1] \in applied,
           taken'[t] = taken[t] + 1, UNCHANGED <<scenario, applied, rows, stock>>
    PROVE  Once(t)' /\ Follows(t)'
<1>1. Once(t)'
  BY DEF Once
<1>2. Models' = Models
  BY DEF Models
<1>3. PICK n \in 0 .. Len(log[t]) :
        /\ n \in {taken[t], taken[t] + 1} /\ AppliedUpTo(t, n)
        /\ FedBy(t, Models) = FedBy(t, ModelsAlong(scenario, log[t])[n])
  BY DEF Follows
<1>4. taken[t] \in Nat /\ Len(log[t]) \in Nat
  BY FedTopics DEF KafkaTypes
<1>5. taken[t] + 1 \in 1 .. Len(log[t])
  BY <1>4
<1>6. n = taken[t] + 1
  BY <1>3, <1>4, <1>5 DEF AppliedUpTo
<1>7. AppliedUpTo(t, n)'
  BY <1>3 DEF AppliedUpTo
<1>8. FedBy(t, Models') = FedBy(t, ModelsAlong(scenario', log'[t])[n])
  BY <1>2, <1>3
<1>9. n \in 0 .. Len(log'[t]) /\ n \in {taken'[t], taken'[t] + 1}
  BY <1>3, <1>6
<1>10. QED
  BY <1>1, <1>7, <1>8, <1>9 DEF Follows

\* Event e, the next one of its topic and not applied before, is applied.
LEMMA FollowApply ==
    ASSUME OrderInv, NEW e \in EventTypes, e \notin applied,
           taken[TopicOf[e]] < Len(log[TopicOf[e]]),
           log[TopicOf[e]][taken[TopicOf[e]] + 1] = e,
           NEW t \in Fed, Once(t), Follows(t),
           CommitEvent(e), UNCHANGED <<log, taken, scenario>>
    PROVE  Once(t)' /\ Follows(t)'
<1>1. Once(t)'
  BY DEF Once
<1>2. applied' = applied \cup {e} /\ Models' = ModelsAfter(scenario, Models, e)
  BY DEF CommitEvent, Models, ModelsAfter
<1>3. PICK n \in 0 .. Len(log[t]) :
        /\ n \in {taken[t], taken[t] + 1} /\ AppliedUpTo(t, n)
        /\ FedBy(t, Models) = FedBy(t, ModelsAlong(scenario, log[t])[n])
  BY DEF Follows
<1>4. /\ taken[t] \in Nat /\ Len(log[t]) \in Nat
      /\ \A k \in 1 .. Len(log[t]) : TopicOf[log[t][k]] = t
  BY FedTopics DEF OrderInv, KafkaTypes
<1>5. CASE TopicOf[e] # t
  <2>1. AppliedUpTo(t, n)'
    <3>1. \A k \in 1 .. Len(log[t]) : log[t][k] # e
      BY <1>4, <1>5
    <3>2. QED
      BY <1>2, <1>3, <3>1 DEF AppliedUpTo
  <2>2. FedBy(t, Models') = FedBy(t, ModelsAlong(scenario', log'[t])[n])
    <3>1. PICK s, m : s = scenario /\ m = Models
      OBVIOUS
    <3>2. FedBy(t, ModelsAfter(s, m, e)) = FedBy(t, m)
      BY <1>5, FedByOthers
    <3>3. QED
      BY <1>2, <1>3, <3>1, <3>2
  <2>3. QED
    BY <1>1, <1>3, <2>1, <2>2 DEF Follows
<1>6. CASE TopicOf[e] = t
  <2>1. PICK p \in 1 .. Len(log[t]) : p = taken[t] + 1 /\ log[t][p] = e
    BY <1>4, <1>6
  <2>2. n = taken[t] /\ n = p - 1
    BY <1>3, <1>4, <2>1 DEF AppliedUpTo
  <2>3. \A k \in 1 .. Len(log[t]) : log[t][k] = e <=> k = p
    <3>1. ASSUME NEW k \in 1 .. Len(log[t]), log[t][k] = e PROVE k = p
      <4>1. k \notin 1 .. p - 1
        BY <2>1, <3>1 DEF Once
      <4>2. p \notin 1 .. k - 1
        BY <2>1, <3>1 DEF Once
      <4>3. QED
        BY <1>4, <2>1, <4>1, <4>2
    <3>2. QED
      BY <2>1, <3>1
  <2>4. AppliedUpTo(t, p)'
    <3>1. ASSUME NEW k \in 1 .. Len(log[t]) PROVE log[t][k] \in applied' <=> k <= p
      <4>1. log[t][k] \in applied <=> k <= n
        BY <1>3 DEF AppliedUpTo
      <4>2. k <= p <=> k <= n \/ k = p
        BY <1>4, <2>1, <2>2
      <4>3. QED
        BY <1>2, <2>3, <4>1, <4>2
    <3>2. QED
      BY <3>1 DEF AppliedUpTo
  <2>5. FedBy(t, Models') = FedBy(t, ModelsAlong(scenario', log'[t])[p])
    <3>1. PICK m, s, es : m = Models /\ s = scenario /\ es = log[t]
      OBVIOUS
    <3>2. PICK k \in 1 .. Len(es) : k = p
      BY <1>4, <2>1, <3>1
    <3>3. Len(es) \in Nat
      BY <1>4, <3>1
    <3>4. ModelsAlong(s, es)[k] = ModelsAfter(s, ModelsAlong(s, es)[k - 1], es[k])
      BY <3>3, ModelsStep, Zenon
    <3>5. es[k] = e /\ FedBy(t, m) = FedBy(t, ModelsAlong(s, es)[k - 1])
      BY <1>3, <2>1, <2>2, <3>1, <3>2
    <3>6. FedBy(t, ModelsAfter(s, m, e)) = FedBy(t, ModelsAfter(s, ModelsAlong(s, es)[k - 1], e))
      BY <3>5, FedByItself
    <3>7. QED
      BY <1>2, <3>1, <3>2, <3>4, <3>5, <3>6
  <2>6. QED
    BY <1>1, <2>1, <2>4, <2>5 DEF Follows
<1>7. QED
  BY <1>5, <1>6

-----------------------------------------------------------------------------
(* Handlers in order *)

\* Nothing was diverted that was not before.
LEMMA LostGrows == [Next]_vars => lost \subseteq lost'
BY DEF Next, Handle, AppendToEventStore, CheckApplied, ApplyEvent, Finish, TakeNext, Take, Retry,
       GiveUp, Crash, Steal, RepublishOrder, ReplayDlq, Resend, ReplayStart, Replay, Reset,
       DeleteRow, DeleteApplied, ReplayCheck, ReplayApply, ReplayEnd, ReplayFails, replayFrame, vars

\* An instance moves on with its event, which it may have applied or marked.
LEMMA OrderlyMove ==
    ASSUME OrderInv, TypeInv, Orderly, NEW i \in Instances, pc[i] # "idle",
           NEW p, p # "idle", pc' = [pc EXCEPT ![i] = p],
           UNCHANGED <<cur, holder, rpc>>,
           applied' = applied \/ applied' = applied \cup {cur[i]},
           p = "apply" => cur[i] \notin applied',
           p = "finish" => cur[i] \in applied',
           processed' \subseteq applied'
    PROVE  Orderly'
<1>1. /\ pc'[i] = p /\ \A j \in Instances \ {i} : pc'[j] = pc[j]
  BY DEF TypeInv, HandlersTyped
<1>2. \A j \in Instances : pc'[j] # "idle" => holder'[TopicOf[cur'[j]]] = j
  BY <1>1 DEF Orderly
<1>3. ASSUME NEW j \in Instances
      PROVE  /\ pc'[j] = "apply" => cur'[j] \notin applied'
             /\ pc'[j] = "finish" => cur'[j] \in applied'
  <2>1. CASE j = i
    BY <1>1, <2>1
  <2>2. CASE j # i
    <3>1. pc[j] # "idle" => cur[j] # cur[i]
      BY <2>2 DEF Orderly
    <3>2. QED
      BY <1>1, <2>2, <3>1 DEF Orderly
  <2>3. QED
    BY <2>1, <2>2
<1>4. QED
  BY <1>2, <1>3 DEF Orderly

\* An instance is through with its event, or dies, and frees what it held.
LEMMA OrderlyLeave ==
    ASSUME OrderInv, TypeInv, Orderly, NEW i \in Instances,
           pc' = [pc EXCEPT ![i] = "idle"], cur' = [cur EXCEPT ![i] = None],
           \A j \in Instances \ {i}, t \in Topics : holder[t] = j => holder'[t] = j,
           UNCHANGED <<applied, rpc>>, processed' \subseteq applied
    PROVE  Orderly'
<1>1. /\ pc'[i] = "idle" /\ \A j \in Instances \ {i} : pc'[j] = pc[j] /\ cur'[j] = cur[j]
  BY DEF TypeInv, HandlersTyped
<1>2. \A j \in Instances : pc[j] # "idle" => TopicOf[cur[j]] \in Topics
  BY AtWorkTyped, TopicsOfTypes
<1>3. QED
  BY <1>1, <1>2 DEF Orderly

\* Nobody works on anything else.
LEMMA OrderlyStands ==
    ASSUME Orderly, UNCHANGED <<pc, cur, holder, applied, rpc>>, processed' \subseteq processed
    PROVE  Orderly'
BY DEF Orderly

\* An instance takes the next message of a topic nobody works on.
LEMMA TakeFollows ==
    ASSUME OrderInv, TypeInv, Orderly, \A t \in Fed : Once(t) /\ Follows(t),
           NEW i \in Instances, NEW u \in Topics, TakeNext(i, u)
    PROVE  Orderly' /\ \A t \in Fed : Once(t)' /\ Follows(t)'
<1>1. PICK e : e = log[u][taken[u] + 1]
  OBVIOUS
<1>2. /\ holder[u] = None /\ pc[i] = "idle" /\ taken[u] < Len(log[u])
      /\ UNCHANGED <<log, scenario, applied, rows, stock, processed, rpc>>
  BY DEF TakeNext, Take, model, rep
<1>3. KafkaTypes
  BY DEF OrderInv
<1>4. /\ taken[u] \in Nat /\ Len(log[u]) \in Nat /\ holder \in [Topics -> Instances \cup {None}]
      /\ taken \in [Topics -> Nat]
  BY <1>3 DEF KafkaTypes
<1>5. TopicOf[e] = u
  BY <1>1, <1>2, <1>3, <1>4 DEF KafkaTypes
<1>6. CASE e \in processed
  <2>1. taken' = [taken EXCEPT ![u] = taken[u] + 1] /\ holder' = [holder EXCEPT ![u] = None]
        /\ UNCHANGED <<pc, cur>>
    BY <1>1, <1>6 DEF TakeNext, Take, mem
  <2>2. holder' = holder
    BY <1>2, <1>4, <2>1
  <2>3. Orderly'
    BY <1>2, <2>1, <2>2, OrderlyStands
  <2>4. e \in applied
    BY <1>6 DEF Orderly
  <2>5. ASSUME NEW t \in Fed PROVE Once(t)' /\ Follows(t)'
    <3>1. CASE t = u
      BY <1>1, <1>2, <1>3, <1>4, <2>1, <2>4, <3>1, FollowAdvance
    <3>2. CASE t # u
      <4>1. taken'[t] = taken[t]
        BY <1>4, <2>1, <3>2, FedTopics
      <4>2. QED
        BY <1>2, <4>1, FollowStands
    <3>3. QED
      BY <3>1, <3>2
  <2>6. QED
    BY <2>3, <2>5
<1>7. CASE e \notin processed
  <2>1. /\ holder' = [holder EXCEPT ![u] = i] /\ cur' = [cur EXCEPT ![i] = e]
        /\ pc' = [pc EXCEPT ![i] = "append"] /\ UNCHANGED taken
    BY <1>1, <1>7 DEF TakeNext, Take
  <2>2. /\ holder'[u] = i /\ \A t \in Topics \ {u} : holder'[t] = holder[t]
        /\ cur'[i] = e /\ pc'[i] = "append"
        /\ \A j \in Instances \ {i} : cur'[j] = cur[j] /\ pc'[j] = pc[j]
    BY <1>4, <2>1 DEF TypeInv, HandlersTyped
  <2>3. ASSUME NEW j \in Instances, pc'[j] # "idle" PROVE holder'[TopicOf[cur'[j]]] = j
    <3>1. CASE j = i
      BY <1>5, <2>2, <3>1
    <3>2. CASE j # i
      <4>1. holder[TopicOf[cur[j]]] = j /\ cur[j] \in EventTypes
        BY <2>2, <2>3, <3>2, AtWorkTyped DEF Orderly
      <4>2. TopicOf[cur[j]] \in Topics \ {u}
        BY <1>2, <4>1, NoneAssumption, TopicsOfTypes
      <4>3. QED
        BY <2>2, <3>2, <4>1, <4>2
    <3>3. QED
      BY <3>1, <3>2
  <2>4. Orderly'
    BY <1>2, <2>2, <2>3 DEF Orderly
  <2>5. QED
    BY <1>2, <2>1, <2>4, FollowStands
<1>8. QED
  BY <1>6, <1>7

\* The other steps of a handler, and what interrupts it short of the DLQ.
LEMMA HandlerFollows ==
    ASSUME OrderInv, TypeInv, Orderly, \A t \in Fed : Once(t) /\ Follows(t),
           NEW i \in Instances,
           \/ AppendToEventStore(i) \/ CheckApplied(i) \/ ApplyEvent(i) \/ Finish(i)
           \/ Retry(i) \/ Crash(i)
    PROVE  Orderly' /\ \A t \in Fed : Once(t)' /\ Follows(t)'
<1>1. pc[i] # "idle"
  BY DEF AppendToEventStore, CheckApplied, ApplyEvent, Finish, Retry, Crash
<1>2. PICK f : f = cur[i]
  OBVIOUS
<1>3. f \in EventTypes /\ TopicOf[f] \in Topics /\ holder[TopicOf[f]] = i
  BY <1>1, <1>2, AtWorkTyped, TopicsOfTypes DEF Orderly
<1>4. /\ taken[TopicOf[f]] < Len(log[TopicOf[f]])
      /\ log[TopicOf[f]][taken[TopicOf[f]] + 1] = f
  BY <1>2, <1>3 DEF OrderInv, HolderAtNext
<1>5. /\ processed \subseteq applied
      /\ pc[i] = "apply" => f \notin applied
      /\ pc[i] = "finish" => f \in applied
  BY <1>2 DEF Orderly
<1>6. /\ KafkaTypes /\ taken \in [Topics -> Nat]
      /\ holder \in [Topics -> Instances \cup {None}]
  BY DEF OrderInv, KafkaTypes
<1>7. CASE AppendToEventStore(i) \/ CheckApplied(i) \/ Retry(i)
  <2>1. /\ UNCHANGED <<log, taken, holder, cur, scenario, applied, rows, stock, rpc>>
    BY <1>7 DEF AppendToEventStore, CheckApplied, Retry, Goto, kafka, model, rep
  <2>2. PICK p \in {"append", "check", "apply", "finish"} : pc' = [pc EXCEPT ![i] = p]
                    /\ (p = "apply" => f \notin applied) /\ (p = "finish" => f \in applied)
    BY <1>2, <1>7 DEF AppendToEventStore, CheckApplied, Retry, Goto, IsApplied
  <2>3. processed' \subseteq applied
    <3>1. processed' = processed \/ (pc[i] = "finish" /\ processed' \subseteq processed \cup {f})
      BY <1>2, <1>7 DEF AppendToEventStore, CheckApplied, Retry, CutOff
    <3>2. QED
      BY <1>5, <3>1
  <2>4. Orderly'
    BY <1>1, <1>2, <2>1, <2>2, <2>3, OrderlyMove
  <2>5. QED
    BY <2>1, <2>4, FollowStands
<1>8. CASE ApplyEvent(i)
  <2>1. /\ UNCHANGED <<log, taken, holder, cur, scenario, processed, rpc>>
        /\ CommitEvent(f) /\ applied' = applied \cup {f} /\ pc[i] = "apply"
        /\ pc' = [pc EXCEPT ![i] = "finish"]
    BY <1>2, <1>8 DEF ApplyEvent, CommitEvent, Goto, kafka, rep
  <2>2. Orderly'
    BY <1>1, <1>2, <1>5, <2>1, OrderlyMove
  <2>3. QED
    BY <1>3, <1>4, <1>5, <2>1, <2>2, FollowApply
<1>9. CASE Finish(i)
  <2>1. /\ pc[i] = "finish" /\ Return(i) /\ processed' = processed \cup {f}
        /\ UNCHANGED <<scenario, applied, rows, stock, rpc>>
    BY <1>2, <1>9 DEF Finish, model, rep
  <2>2. /\ pc' = [pc EXCEPT ![i] = "idle"] /\ cur' = [cur EXCEPT ![i] = None]
        /\ taken' = [taken EXCEPT ![TopicOf[f]] = taken[TopicOf[f]] + 1]
        /\ holder' = [holder EXCEPT ![TopicOf[f]] = None] /\ UNCHANGED log
    BY <1>2, <1>3, <2>1 DEF Return
  <2>3. ASSUME NEW j \in Instances \ {i}, NEW t \in Topics, holder[t] = j PROVE holder'[t] = j
    BY <1>3, <1>6, <2>2, <2>3
  <2>4. Orderly'
    BY <1>5, <2>1, <2>2, <2>3, OrderlyLeave
  <2>5. ASSUME NEW t \in Fed PROVE Once(t)' /\ Follows(t)'
    <3>1. CASE t = TopicOf[f]
      <4>1. taken'[t] = taken[t] + 1
        BY <1>3, <1>6, <2>2, <3>1
      <4>2. QED
        BY <1>4, <1>5, <1>6, <2>1, <2>2, <3>1, <4>1, FollowAdvance
    <3>2. CASE t # TopicOf[f]
      <4>1. taken'[t] = taken[t]
        BY <1>6, <2>2, <3>2, FedTopics
      <4>2. QED
        BY <2>1, <2>2, <4>1, FollowStands
    <3>3. QED
      BY <3>1, <3>2
  <2>6. QED
    BY <2>4, <2>5
<1>10. CASE Crash(i)
  <2>1. /\ UNCHANGED <<log, taken, scenario, applied, rows, stock, rpc>>
        /\ pc' = [pc EXCEPT ![i] = "idle"] /\ cur' = [cur EXCEPT ![i] = None]
        /\ holder' = [t \in Topics |-> IF holder[t] = i THEN None ELSE holder[t]]
    BY <1>10 DEF Crash, model, rep
  <2>2. processed' \subseteq applied
    <3>1. processed' = processed \/ (pc[i] = "finish" /\ processed' \subseteq processed \cup {f})
      BY <1>2, <1>10 DEF Crash, CutOff
    <3>2. QED
      BY <1>5, <3>1
  <2>3. ASSUME NEW j \in Instances \ {i}, NEW t \in Topics, holder[t] = j PROVE holder'[t] = j
    BY <2>1, <2>3
  <2>4. Orderly'
    BY <2>1, <2>2, <2>3, OrderlyLeave
  <2>5. QED
    BY <2>1, <2>4, FollowStands
<1>11. QED
  BY <1>7, <1>8, <1>9, <1>10

\* Every step preserves the invariant.
LEMMA NextFollowing == OrderInv /\ TypeInv /\ Following /\ [Next]_vars => Following'
<1> SUFFICES ASSUME OrderInv, TypeInv, Following, [Next]_vars,
                    steals' = 0, replays' = 0, lost' = {}
             PROVE  Orderly' /\ \A t \in Fed : Once(t)' /\ Follows(t)'
  BY DEF Following
<1>1. steals = 0 /\ replays = 0 /\ lost = {}
  <2>1. steals \in Nat /\ replays \in Nat
    BY ScenariosAssumption DEF TypeInv, BoundsTyped
  <2>2. steals <= steals' /\ replays <= replays'
    BY BoundsStayTyped
  <2>3. QED
    BY <2>1, <2>2, LostGrows
<1>2. Orderly /\ \A t \in Fed : Once(t) /\ Follows(t)
  BY <1>1 DEF Following
<1>3. ASSUME NEW i \in Instances, Handle(i) \/ Retry(i) \/ Crash(i)
      PROVE  Orderly' /\ \A t \in Fed : Once(t)' /\ Follows(t)'
  BY <1>2, <1>3, TakeFollows, HandlerFollows DEF Handle
<1>4. ASSUME NEW i \in Instances, GiveUp(i) PROVE FALSE
  BY <1>4 DEF GiveUp
<1>5. ASSUME NEW i \in Instances, NEW t \in Topics, Steal(i, t) PROVE FALSE
  BY <1>1, <1>5 DEF Steal
<1>6. CASE RepublishOrder
  <2>1. /\ log' = [log EXCEPT !["orders"] = Append(@, "OrderCreated")]
        /\ UNCHANGED <<taken, holder, pc, cur, applied, rpc, rows, stock, scenario, processed>>
    BY <1>6, TopicTable DEF RepublishOrder, Resend, mem, model, rep
  <2>2. \A t \in Fed : log'[t] = log[t]
    BY <2>1, FedTopics DEF OrderInv, KafkaTypes
  <2>3. Orderly'
    BY <1>2, <2>1, OrderlyStands
  <2>4. QED
    BY <1>2, <2>1, <2>2, <2>3, FollowStands
<1>7. ASSUME NEW e \in lost PROVE FALSE
  BY <1>1, <1>7
<1>8. ASSUME NEW r \in Replayers, ReplayStart(r) PROVE FALSE
  BY <1>1, <1>8 DEF ReplayStart
<1>9. ASSUME NEW r \in Replayers, Replay(r) \/ ReplayFails(r) PROVE FALSE
  BY <1>2, <1>9 DEF Orderly, Replay, Reset, DeleteRow, DeleteApplied, ReplayCheck, ReplayApply,
                    ReplayEnd, ReplayFails
<1>10. CASE UNCHANGED vars
  BY <1>2, <1>10, OrderlyStands, FollowStands DEF vars
<1>11. QED
  BY <1>3, <1>4, <1>5, <1>6, <1>7, <1>8, <1>9, <1>10 DEF Next

-----------------------------------------------------------------------------
(* The past *)

\* The first j events of past.
First(past, j) == {past[k] : k \in 1 .. j}

\* After j past events, the first n messages of topic are projected, and the part
\* of the models that topic t feeds is what they give.
Matches(t, topic, past, s, j, n) ==
    /\ \A k \in 1 .. Len(topic) : topic[k] \in First(past, j) <=> k <= n
    /\ FedBy(t, ModelsAlong(s, past)[j]) = FedBy(t, ModelsAlong(s, topic)[n])

\* One past event more.
LEMMA PastStep ==
    ASSUME NEW t \in Fed, NEW topics, NEW read, NEW past \in Seq(EventTypes), NEW s,
           topics \in [Topics -> Seq(EventTypes)], read \in [Topics -> Nat],
           ReadInOrder(topics, read, past),
           NEW j \in Nat, j + 1 \in 1 .. Len(past),
           NEW n \in 0 .. Len(topics[t]), Matches(t, topics[t], past, s, j, n)
    PROVE  \E m \in 0 .. Len(topics[t]) : Matches(t, topics[t], past, s, j + 1, m)
<1>1. PICK topic : topic = topics[t]
  OBVIOUS
<1>2. PICK i, e : i = j + 1 /\ e = past[i]
  OBVIOUS
<1>3. t \in Topics /\ topic \in Seq(EventTypes) /\ Len(topic) \in Nat
  BY <1>1, FedTopics
<1>4. i \in 1 .. Len(past) /\ i - 1 = j /\ e \in EventTypes /\ Len(past) \in Nat
  BY <1>2
<1>5. First(past, i) = First(past, j) \cup {e}
  <2>1. 1 .. i = (1 .. j) \cup {i}
    BY <1>2
  <2>2. QED
    BY <1>2, <2>1 DEF First
<1>6. ModelsAlong(s, past)[i] = ModelsAfter(s, ModelsAlong(s, past)[j], e)
  <2>1. ModelsAlong(s, past)[i] = ModelsAfter(s, ModelsAlong(s, past)[i - 1], past[i])
    BY <1>4, ModelsStep, Zenon
  <2>2. QED
    BY <1>2, <1>4, <2>1
<1>7. /\ n \in 0 .. Len(topic)
      /\ \A k \in 1 .. Len(topic) : topic[k] \in First(past, j) <=> k <= n
      /\ FedBy(t, ModelsAlong(s, past)[j]) = FedBy(t, ModelsAlong(s, topic)[n])
  BY <1>1 DEF Matches
<1>8. /\ \A k \in 1 .. Len(topic) :
           TopicOf[topic[k]] = t /\ \A l \in 1 .. k - 1 : topic[l] # topic[k]
      /\ e \in ToSet(topics[TopicOf[e]])
      /\ \A l \in 1 .. i - 1 :
           /\ past[l] # e
           /\ \A a, b \in 1 .. Len(topics[TopicOf[e]]) :
                topics[TopicOf[e]][a] = past[l] /\ topics[TopicOf[e]][b] = e => a < b
  <2>1. \A k \in 1 .. Len(topic) :
           TopicOf[topic[k]] = t /\ \A l \in 1 .. k - 1 : topic[l] # topic[k]
    BY <1>1, <1>3 DEF ReadInOrder
  <2>2. e \in ToSet(topics[TopicOf[e]])
    <3>1. past[i] \in ToSet(topics[TopicOf[past[i]]])
      BY <1>4, Zenon DEF ReadInOrder
    <3>2. QED
      BY <1>2, <3>1, Zenon
  <2>3. \A l \in 1 .. i - 1 :
           /\ past[l] # e
           /\ \A a, b \in 1 .. Len(topics[TopicOf[e]]) :
                topics[TopicOf[e]][a] = past[l] /\ topics[TopicOf[e]][b] = e => a < b
    <3>1. \A l \in 1 .. i - 1 :
             /\ past[l] # past[i]
             /\ \A a, b \in 1 .. Len(topics[TopicOf[past[i]]]) :
                  /\ topics[TopicOf[past[i]]][a] = past[l]
                  /\ topics[TopicOf[past[i]]][b] = past[i]
                  => a < b
      BY <1>4, Zenon DEF ReadInOrder
    <3>2. QED
      BY <1>2, <3>1
  <2>4. QED
    BY <2>1, <2>2, <2>3
<1>9. CASE TopicOf[e] # t
  <2>1. \A k \in 1 .. Len(topic) : topic[k] # e
    BY <1>8, <1>9
  <2>2. FedBy(t, ModelsAlong(s, past)[i]) = FedBy(t, ModelsAlong(s, topic)[n])
    BY <1>4, <1>6, <1>7, <1>9, FedByOthers
  <2>3. Matches(t, topic, past, s, i, n)
    BY <1>5, <1>7, <2>1, <2>2 DEF Matches
  <2>4. QED
    BY <1>1, <1>2, <2>3
<1>10. CASE TopicOf[e] = t
  <2>1. PICK p \in 1 .. Len(topic) : topic[p] = e
    BY <1>1, <1>3, <1>8, <1>10, SMT DEF ToSet
  <2>2. \A k \in 1 .. Len(topic) : topic[k] = e <=> k = p
    BY <1>3, <1>8, <2>1
  <2>3. e \notin First(past, j)
    BY <1>4, <1>8 DEF First
  <2>4. n < p
    BY <1>3, <1>7, <2>1, <2>3
  <2>5. p = n + 1
    <3>1. SUFFICES ASSUME n + 1 < p PROVE FALSE
      BY <1>3, <2>1, <2>4
    <3>2. PICK q \in 1 .. Len(topic) : q = n + 1 /\ q < p
      BY <1>3, <2>1, <3>1
    <3>3. topic[q] \notin First(past, j) /\ topic[q] # e
      BY <1>3, <1>7, <2>2, <3>2
    <3>4. topic[q] \in First(past, Len(past))
      <4>1. read[t] \in Nat
            /\ \A k \in 1 .. Len(topic) : k <= read[t] <=> topic[k] \in ToSet(past)
        BY <1>1, <1>3 DEF ReadInOrder
      <4>2. topic[p] \in ToSet(past)
        BY <1>2, <1>4, <2>1, SMT DEF ToSet
      <4>3. topic[q] \in ToSet(past)
        BY <1>3, <3>2, <4>1, <4>2
      <4>4. QED
        BY <4>3, SMT DEF ToSet, First
    <3>5. PICK l \in 1 .. Len(past) : past[l] = topic[q]
      BY <3>4 DEF First
    <3>6. i < l
      BY <1>2, <1>4, <3>3, <3>5 DEF First
    <3>7. TopicOf[past[l]] = t
      BY <1>8, <3>5
    <3>8. p < q
      <4>1. \A k \in 1 .. l - 1 : \A a, b \in 1 .. Len(topics[TopicOf[past[l]]]) :
              topics[TopicOf[past[l]]][a] = past[k] /\ topics[TopicOf[past[l]]][b] = past[l]
                => a < b
        BY <3>5 DEF ReadInOrder
      <4>2. i \in 1 .. l - 1
        BY <1>4, <3>6
      <4>3. QED
        BY <1>1, <1>2, <2>1, <3>2, <3>5, <3>7, <4>1, <4>2
    <3>9. QED
      BY <1>3, <3>2, <3>8
  <2>6. \A k \in 1 .. Len(topic) : topic[k] \in First(past, i) <=> k <= p
    BY <1>3, <1>5, <1>7, <2>2, <2>5
  <2>7. FedBy(t, ModelsAlong(s, past)[i]) = FedBy(t, ModelsAlong(s, topic)[p])
    <3>1. ModelsAlong(s, topic)[p] = ModelsAfter(s, ModelsAlong(s, topic)[p - 1], e)
      BY <1>3, <2>1, ModelsStep, Zenon
    <3>2. p - 1 = n
      BY <1>3, <2>5
    <3>3. QED
      BY <1>6, <1>7, <3>1, <3>2, FedByItself
  <2>8. p \in 0 .. Len(topic) /\ Matches(t, topic, past, s, i, p)
    BY <2>1, <2>6, <2>7 DEF Matches
  <2>9. QED
    BY <1>1, <1>2, <2>8
<1>11. QED
  BY <1>9, <1>10

\* The past of a scenario leaves the models where the topics up to the offsets do.
LEMMA PastMatches ==
    ASSUME NEW t \in Fed, NEW topics, NEW read, NEW past \in Seq(EventTypes), NEW s,
           topics \in [Topics -> Seq(EventTypes)], read \in [Topics -> Nat],
           ReadInOrder(topics, read, past)
    PROVE  /\ read[t] \in 0 .. Len(topics[t])
           /\ Matches(t, topics[t], past, s, Len(past), read[t])
<1> DEFINE S == {j \in Nat : j \in 0 .. Len(past) =>
                   \E n \in 0 .. Len(topics[t]) : Matches(t, topics[t], past, s, j, n)}
<1>1. t \in Topics /\ topics[t] \in Seq(EventTypes) /\ Len(topics[t]) \in Nat
      /\ Len(past) \in Nat /\ read[t] \in Nat
  BY FedTopics
<1>2. 0 \in S
  <2>1. First(past, 0) = {}
    BY DEF First
  <2>2. ModelsAlong(s, past)[0] = ModelsAlong(s, topics[t])[0]
    BY <1>1, ModelsBegin
  <2>3. Matches(t, topics[t], past, s, 0, 0)
    BY <1>1, <2>1, <2>2 DEF Matches
  <2>4. QED
    BY <1>1, <2>3
<1>3. ASSUME NEW j \in S PROVE j + 1 \in S
  <2>1. SUFFICES ASSUME j + 1 \in 0 .. Len(past)
                 PROVE  \E n \in 0 .. Len(topics[t]) : Matches(t, topics[t], past, s, j + 1, n)
    OBVIOUS
  <2>2. j \in Nat /\ j \in 0 .. Len(past) /\ j + 1 \in 1 .. Len(past)
    BY <2>1
  <2>3. PICK n \in 0 .. Len(topics[t]) : Matches(t, topics[t], past, s, j, n)
    BY <2>2
  <2>4. QED
    BY <2>2, <2>3, PastStep
<1>4. Len(past) \in S
  <2>1. S = Nat
    BY <1>2, <1>3, Induction
  <2>2. QED
    BY <1>1, <2>1
<1>5. PICK n \in 0 .. Len(topics[t]) : Matches(t, topics[t], past, s, Len(past), n)
  BY <1>1, <1>4
<1>6. ToSet(past) = First(past, Len(past))
  BY SMT DEF ToSet, First
<1>7. read[t] <= Len(topics[t])
      /\ \A k \in 1 .. Len(topics[t]) : k <= read[t] <=> topics[t][k] \in ToSet(past)
  BY <1>1 DEF ReadInOrder
<1>8. \A k \in 1 .. Len(topics[t]) : k <= read[t] <=> k <= n
  BY <1>5, <1>6, <1>7 DEF Matches
<1>9. n = read[t]
  <2>1. ~(n < read[t])
    <3>1. n < read[t] => n + 1 \in 1 .. Len(topics[t]) /\ n + 1 <= read[t] /\ ~(n + 1 <= n)
      BY <1>1, <1>7
    <3>2. QED
      BY <1>8, <3>1
  <2>2. ~(read[t] < n)
    BY <1>1, <1>8
  <2>3. QED
    BY <1>1, <2>1, <2>2
<1>10. QED
  BY <1>5, <1>9

\* Nobody is at work, and the events behind the offsets are applied.
LEMMA InitFollowing == Init => Following
<1> SUFFICES ASSUME Init PROVE Orderly /\ \A t \in Fed : Once(t) /\ Follows(t)
  BY DEF Following
<1>1. PICK s \in Scenarios :
        /\ scenario = s /\ log = s.topics /\ taken = s.read /\ store = s.past
        /\ processed = ToSet(s.past) /\ applied = ToSet(s.past)
        /\ rows = Rebuilt(s, s.past).rows /\ stock = Rebuilt(s, s.past).stock
  BY DEF Init
<1>2. /\ s.topics \in [Topics -> Seq(EventTypes)] /\ s.read \in [Topics -> Nat]
      /\ s.past \in Seq(EventTypes) /\ ReadInOrder(s.topics, s.read, s.past)
  BY ScenariosAssumption, PastAssumption
<1>3. Orderly
  BY <1>1 DEF Init, Orderly
<1>4. ASSUME NEW t \in Fed PROVE Once(t) /\ Follows(t)
  <2>1. Once(t)
    <3>1. t \in Topics /\ log[t] = scenario.topics[t] /\ log[t] = s.topics[t]
      BY <1>1, FedTopics
    <3>2. \A k \in 1 .. Len(s.topics[t]) : \A j \in 1 .. k - 1 : s.topics[t][j] # s.topics[t][k]
      BY <1>2, <3>1 DEF ReadInOrder
    <3>3. QED
      BY <3>1, <3>2 DEF Once
  <2>2. /\ taken[t] \in 0 .. Len(log[t])
        /\ Matches(t, log[t], s.past, s, Len(s.past), taken[t])
    BY <1>1, <1>2, PastMatches
  <2>3. applied = First(s.past, Len(s.past))
    BY <1>1, SMT DEF ToSet, First
  <2>4. AppliedUpTo(t, taken[t])
    BY <2>2, <2>3 DEF Matches, AppliedUpTo
  <2>5. FedBy(t, Models) = FedBy(t, Rebuilt(s, s.past))
    BY <1>1, FedParts DEF Fed, Models
  <2>6. FedBy(t, Models) = FedBy(t, ModelsAlong(scenario, log[t])[taken[t]])
    BY <1>1, <2>2, <2>5 DEF Matches, Rebuilt
  <2>7. QED
    BY <2>1, <2>2, <2>4, <2>6 DEF Follows
<1>5. QED
  BY <1>3, <1>4

-----------------------------------------------------------------------------
(* What follows from it *)

\* What the models are after k events depends on those events only.
LEMMA ModelsOfPrefix ==
    ASSUME NEW s, NEW es \in Seq(EventTypes), NEW n \in 0 .. Len(es)
    PROVE  Rebuilt(s, SubSeq(es, 1, n)) = ModelsAlong(s, es)[n]
<1>1. PICK fs : fs = SubSeq(es, 1, n)
  OBVIOUS
<1>2. Len(es) \in Nat /\ n \in Nat /\ Len(fs) = n /\ \A k \in 1 .. n : fs[k] = es[k]
  BY <1>1
<1> DEFINE S == {k \in Nat : k <= n => ModelsAlong(s, fs)[k] = ModelsAlong(s, es)[k]}
<1>3. 0 \in S
  BY <1>2, ModelsBegin
<1>4. ASSUME NEW k \in S PROVE k + 1 \in S
  <2>1. SUFFICES ASSUME k + 1 <= n PROVE ModelsAlong(s, fs)[k + 1] = ModelsAlong(s, es)[k + 1]
    OBVIOUS
  <2>2. PICK l : l = k + 1
    OBVIOUS
  <2>3. /\ l \in 1 .. Len(fs) /\ l \in 1 .. Len(es) /\ l \in 1 .. n /\ l - 1 = k
        /\ ModelsAlong(s, fs)[k] = ModelsAlong(s, es)[k]
    BY <1>2, <2>1, <2>2
  <2>4. ModelsAlong(s, fs)[l] = ModelsAfter(s, ModelsAlong(s, fs)[l - 1], fs[l])
    BY <1>2, <2>3, ModelsStep, Zenon
  <2>5. ModelsAlong(s, es)[l] = ModelsAfter(s, ModelsAlong(s, es)[l - 1], es[l])
    BY <1>2, <2>3, ModelsStep, Zenon
  <2>6. QED
    BY <1>2, <2>2, <2>3, <2>4, <2>5
<1>5. S = Nat
  BY <1>3, <1>4, Induction
<1>6. ModelsAlong(s, fs)[n] = ModelsAlong(s, es)[n]
  BY <1>2, <1>5
<1>7. QED
  BY <1>1, <1>2, <1>6 DEF Rebuilt

\* The prefix applied is the one that gives the models.
LEMMA FollowingSuffices ==
    ASSUME OrderInv, Following
    PROVE  ModelsFollowTopics
<1>1. SUFFICES ASSUME steals = 0, replays = 0, lost = {}, NEW t \in Fed
               PROVE  \E n \in 0 .. Len(log[t]) :
                        /\ AppliedUpTo(t, n)
                        /\ FedBy(t, Models) =
                             FedBy(t, Rebuilt(scenario, SubSeq(log[t], 1, n)))
  BY DEF ModelsFollowTopics, Fed
<1>2. PICK n \in 0 .. Len(log[t]) :
        /\ AppliedUpTo(t, n)
        /\ FedBy(t, Models) = FedBy(t, ModelsAlong(scenario, log[t])[n])
  BY <1>1 DEF Following, Follows
<1>3. log[t] \in Seq(EventTypes)
  BY FedTopics DEF OrderInv, KafkaTypes
<1>4. PICK s, es : s = scenario /\ es = log[t]
  OBVIOUS
<1>5. Rebuilt(s, SubSeq(es, 1, n)) = ModelsAlong(s, es)[n]
  BY <1>3, <1>4, ModelsOfPrefix
<1>6. QED
  BY <1>2, <1>4, <1>5

\* As long as nothing was stolen, replayed or diverted, the events of a topic are
\* applied in its order, at most one ahead of the offset.
THEOREM FollowInvariance == Spec => [](OrderInv /\ TypeInv /\ Following)
<1>1. Init => OrderInv /\ TypeInv /\ Following
  BY InitOrderInv, InitTypeInv, InitFollowing
<1>2. (OrderInv /\ TypeInv /\ Following) /\ [Next]_vars => (OrderInv /\ TypeInv /\ Following)'
  BY NextOrderInv, NextTypeInv, NextFollowing
<1>3. QED
  BY <1>1, <1>2, PTL DEF Spec

\* The inventory, payment and shipment rows are what the applied prefix of their
\* topic gives, whatever crashes, retries and redeliveries come between the append
\* and the mark: no deduction twice, no payment back from REFUNDED.
THEOREM ModelsFollow == Spec => []ModelsFollowTopics
<1>1. OrderInv /\ TypeInv /\ Following => ModelsFollowTopics
  BY FollowingSuffices
<1>2. QED
  BY <1>1, FollowInvariance, PTL

-----------------------------------------------------------------------------
(* What the stock sums up to *)

\* Event e is among the first k of es.
Among(es, k, e) == \E j \in 1 .. k : es[j] = e

\* The stock once the order has its units, and once it has given them back.
Taken(s) == StockAfter(s, StockOf(s), "InventoryReserved")
Back(s) == StockAfter(s, Taken(s), "InventoryReleased")

\* The stock after the first k messages of the inventory topic: one reservation, and
\* after it one release.
StockAlong(s, es, k) ==
    ModelsAlong(s, es)[k].stock =
        IF ~Among(es, k, "InventoryReserved") THEN StockOf(s)
        ELSE IF ~Among(es, k, "InventoryReleased") THEN Taken(s) ELSE Back(s)

\* No event twice, and the release only after the reservation.
ThereAndBack(es) ==
    \A k \in 1 .. Len(es) :
        /\ \A j \in 1 .. k - 1 : es[j] # es[k]
        /\ es[k] = "InventoryReleased" => \E j \in 1 .. k - 1 : es[j] = "InventoryReserved"

\* Such a topic moves the stock there and back once.
LEMMA StockOnce ==
    ASSUME NEW s, NEW es \in Seq(EventTypes), ThereAndBack(es)
    PROVE  \A k \in 0 .. Len(es) : StockAlong(s, es, k)
<1> DEFINE S == {k \in Nat : k \in 0 .. Len(es) => StockAlong(s, es, k)}
<1>1. Len(es) \in Nat
  OBVIOUS
<1>2. 0 \in S
  <2>1. ModelsAlong(s, es)[0] = [rows |-> NoRows, stock |-> StockOf(s)]
    BY <1>1, ModelsBegin, Zenon
  <2>2. ~Among(es, 0, "InventoryReserved")
    BY DEF Among
  <2>3. QED
    BY <2>1, <2>2 DEF StockAlong
<1>3. ASSUME NEW k \in S PROVE k + 1 \in S
  <2>1. SUFFICES ASSUME k + 1 \in 0 .. Len(es) PROVE StockAlong(s, es, k + 1)
    OBVIOUS
  <2>2. PICK l \in 1 .. Len(es) : l = k + 1 /\ l - 1 = k /\ k \in 0 .. Len(es)
    BY <1>1, <2>1
  <2>3. StockAlong(s, es, k)
    BY <2>2
  <2>4. PICK e, c : e = es[l] /\ c = ModelsAlong(s, es)[k].stock
    OBVIOUS
  <2>5. ModelsAlong(s, es)[l].stock = StockAfter(s, c, e)
    <3>1. ModelsAlong(s, es)[l] = ModelsAfter(s, ModelsAlong(s, es)[l - 1], es[l])
      BY <1>1, ModelsStep, Zenon
    <3>2. QED
      BY <2>2, <2>4, <3>1 DEF ModelsAfter
  <2>6. \A f : Among(es, l, f) <=> Among(es, k, f) \/ f = e
    <3>1. 1 .. l = (1 .. k) \cup {l}
      BY <2>2
    <3>2. QED
      BY <2>4, <3>1 DEF Among
  <2>7. ~Among(es, k, e)
    BY <2>2, <2>4 DEF Among, ThereAndBack
  <2>8. \A n \in 0 .. Len(es) : Among(es, n, "InventoryReleased") => Among(es, n, "InventoryReserved")
    <3>1. ASSUME NEW n \in 0 .. Len(es), NEW j \in 1 .. n, es[j] = "InventoryReleased"
          PROVE  Among(es, n, "InventoryReserved")
      <4>1. PICK i \in 1 .. j - 1 : es[i] = "InventoryReserved"
        BY <1>1, <3>1 DEF ThereAndBack
      <4>2. i \in 1 .. n
        BY <1>1, <4>1
      <4>3. QED
        BY <4>1, <4>2 DEF Among
    <3>2. QED
      BY <3>1 DEF Among
  <2>9. c = IF ~Among(es, k, "InventoryReserved") THEN StockOf(s)
            ELSE IF ~Among(es, k, "InventoryReleased") THEN Taken(s) ELSE Back(s)
    BY <2>3, <2>4 DEF StockAlong
  <2>10. CASE e = "InventoryReserved"
    <3>1. ~Among(es, k, "InventoryReserved") /\ ~Among(es, k, "InventoryReleased")
      BY <2>2, <2>7, <2>8, <2>10
    <3>2. Among(es, l, "InventoryReserved") /\ ~Among(es, l, "InventoryReleased")
      BY <2>6, <2>10, <3>1
    <3>3. ModelsAlong(s, es)[l].stock = Taken(s)
      BY <2>5, <2>9, <2>10, <3>1 DEF Taken
    <3>4. QED
      BY <2>2, <3>2, <3>3 DEF StockAlong
  <2>11. CASE e = "InventoryReleased"
    <3>1. ~Among(es, k, "InventoryReleased") /\ Among(es, l, "InventoryReleased")
      BY <2>6, <2>7, <2>11
    <3>2. Among(es, l, "InventoryReserved")
      BY <1>1, <2>2, <2>8, <3>1
    <3>3. Among(es, k, "InventoryReserved")
      BY <2>6, <2>11, <3>2
    <3>4. ModelsAlong(s, es)[l].stock = Back(s)
      BY <2>5, <2>9, <2>11, <3>1, <3>3 DEF Back
    <3>5. QED
      BY <2>2, <3>1, <3>2, <3>4 DEF StockAlong
  <2>12. CASE e \notin {"InventoryReserved", "InventoryReleased"}
    <3>1. StockAfter(s, c, e) = c
      BY <2>12 DEF StockAfter
    <3>2. /\ Among(es, l, "InventoryReserved") <=> Among(es, k, "InventoryReserved")
          /\ Among(es, l, "InventoryReleased") <=> Among(es, k, "InventoryReleased")
      BY <2>6, <2>12
    <3>3. StockAlong(s, es, l)
      BY <2>5, <2>9, <3>1, <3>2 DEF StockAlong
    <3>4. QED
      BY <2>2, <3>3
  <2>13. QED
    BY <2>10, <2>11, <2>12
<1>4. S = Nat
  BY <1>2, <1>3, Induction
<1>5. QED
  BY <1>4

\* A reservation that exceeds what is available creates the difference, and the
\* release does not take it back; nothing else changes the sum.
LEMMA StockSums ==
    ASSUME NEW s \in Scenarios, NEW c \in {StockOf(s), Taken(s), Back(s)}
    PROVE  c.reserved + c.available \in TotalStock .. Larger(TotalStock, s.others + Units(s))
<1>1. PICK u \in Int, o \in Nat, n \in Nat :
        u = Units(s) /\ o = s.others /\ n = TotalStock /\ o <= n
  BY UnitsTyped
<1>2. StockOf(s) = [reserved |-> o, available |-> n - o]
  BY <1>1 DEF StockOf
<1>3. Taken(s) = [reserved |-> o + u, available |-> Minus(n - o, u)]
  BY <1>1, <1>2 DEF Taken, StockAfter
<1>4. Back(s) = [reserved |-> Minus(o + u, u), available |-> Minus(n - o, u) + u]
  BY <1>1, <1>3 DEF Back, StockAfter
<1>5. /\ o + (n - o) \in n .. Larger(n, o + u)
      /\ (o + u) + Minus(n - o, u) \in n .. Larger(n, o + u)
      /\ Minus(o + u, u) + (Minus(n - o, u) + u) \in n .. Larger(n, o + u)
  BY <1>1 DEF Minus, Larger
<1>6. c.reserved + c.available \in n .. Larger(n, o + u)
  <2>1. CASE c = StockOf(s)
    BY <1>2, <1>5, <2>1
  <2>2. CASE c = Taken(s)
    BY <1>3, <1>5, <2>2
  <2>3. CASE c = Back(s)
    BY <1>4, <1>5, <2>3
  <2>4. QED
    BY <2>1, <2>2, <2>3
<1>7. QED
  BY <1>1, <1>6

\* The stock is what a prefix of the inventory topic gives.
LEMMA FollowingAccounts ==
    ASSUME OrderInv, TypeInv, Following
    PROVE  StockAccounted
<1>1. Units(scenario) > 0 => stock.reserved >= 0 /\ stock.available >= 0
  BY DEF TypeInv, ModelsTyped, Models
<1>2. SUFFICES ASSUME steals = 0, replays = 0, lost = {}
               PROVE  stock.reserved + stock.available
                        \in TotalStock .. Larger(TotalStock, scenario.others + Units(scenario))
  BY <1>1 DEF StockAccounted
<1>3. "inventory" \in Fed /\ Once("inventory") /\ Follows("inventory")
  BY <1>2 DEF Following, Fed
<1>4. log["inventory"] \in Seq(EventTypes)
  BY <1>3, FedTopics DEF OrderInv, KafkaTypes
<1>5. PICK s, es, c :
        /\ s \in Scenarios /\ es \in Seq(EventTypes)
        /\ s = scenario /\ es = log["inventory"] /\ c = stock
  BY <1>4 DEF TypeInv, BoundsTyped
<1>6. ThereAndBack(es)
  <2>1. es = s.topics["inventory"]
    BY <1>3, <1>5 DEF Once
  <2>2. QED
    BY <1>3, <1>5, <2>1, ReleaseAssumption DEF Once, ThereAndBack
<1>7. PICK n \in 0 .. Len(es) : c = ModelsAlong(s, es)[n].stock
  BY <1>3, <1>5, FedParts DEF Follows, Models
<1>8. c \in {StockOf(s), Taken(s), Back(s)}
  BY <1>5, <1>6, <1>7, StockOnce DEF StockAlong
<1>9. c.reserved + c.available \in TotalStock .. Larger(TotalStock, s.others + Units(s))
  BY <1>5, <1>8, StockSums
<1>10. QED
  BY <1>5, <1>9

\* The stock counters never go below zero as long as the quantity does not (GREATEST
\* in applyHistoricalEvent); short of zombies, replays and diverted events no stock is
\* lost, and none is created but what was reserved beyond the available.
THEOREM StockSafe == Spec => []StockAccounted
<1>1. OrderInv /\ TypeInv /\ Following => StockAccounted
  BY FollowingAccounts
<1>2. QED
  BY <1>1, FollowInvariance, PTL

=============================================================================

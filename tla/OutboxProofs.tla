---------------------------- MODULE OutboxProofs ----------------------------
(***************************************************************************)
(* Proofs about Outbox for every set of events, every finite set of relay  *)
(* incarnations and every value of the bounds.                             *)
(***************************************************************************)
EXTENDS Outbox, FiniteSetTheorems, TLAPS

\* The workers that will still publish e from their current batch.
Holders(e) == {w \in Workers : e \in todo[w]}

\* Every claim of e pays for at most one copy: sent already, or still owed by
\* a worker that holds e.
ClaimsPayForCopies ==
    \A e \in Events : copies[e] + Cardinality(Holders(e)) <= attempts[e]

\* publishEvent works on a row, and marks it PUBLISHED only once it was sent.
WorkInProgress ==
    \A w \in Workers :
        /\ pc[w] \in {"marking", "failing"} => cur[w] \in Events
        /\ pc[w] = "marking" => copies[cur[w]] > 0
        /\ pc[w] \in {"idle", "claiming"} => todo[w] = {}

\* Rows that do not exist have not been claimed.
AbsentIsUntouched ==
    \A e \in Events : status[e] = "ABSENT" => attempts[e] = 0

\* The inductive invariant.
Inv ==
    /\ TypeOK
    /\ ClaimsPayForCopies
    /\ WorkInProgress
    /\ AbsentIsUntouched
    /\ PublishedIsDelivered
    /\ PendingIsClaimable

-----------------------------------------------------------------------------
(* Lemmas *)

\* Sets of workers are finite, so Holders can be counted.
LEMMA WorkerSets ==
    ASSUME NEW S \in SUBSET Workers
    PROVE  IsFiniteSet(S) /\ Cardinality(S) \in Nat
BY WorkersAssumption, FS_Subset, FS_CardinalityType

\* A claim (getPendingOutboxEvents) only takes claimable rows of the table.
LEMMA ClaimTakesClaimable ==
    ASSUME NEW w \in Workers, NEW S \in ClaimSets(w) \cup {{}}
    PROVE  S \subseteq {e \in Events : Claimable(e)}
BY DEF ClaimSets, Oldest

\* A worker that gives up its batch leaves no more holders than before.
LEMMA FewerHolders ==
    ASSUME TypeOK, NEW w \in Workers, NEW T \in SUBSET todo[w],
           todo' = [todo EXCEPT ![w] = T], NEW e \in Events
    PROVE  /\ Cardinality(Holders(e)) \in Nat
           /\ Cardinality(Holders(e))' \in Nat
           /\ Cardinality(Holders(e))' <= Cardinality(Holders(e))
<1>1. Holders(e) \in SUBSET Workers /\ Holders(e)' \in SUBSET Holders(e)
  BY DEF Holders, TypeOK
<1>2. QED
  BY <1>1, WorkerSets, FS_Subset

\* The holders of the claimed rows grow by the claiming worker, no others do.
LEMMA ClaimAddsHolder ==
    ASSUME TypeOK, NEW w \in Workers, NEW S \in SUBSET Events, todo[w] = {},
           todo' = [todo EXCEPT ![w] = S], NEW e \in Events
    PROVE  /\ Cardinality(Holders(e)) \in Nat
           /\ Cardinality(Holders(e))' =
                IF e \in S THEN Cardinality(Holders(e)) + 1
                           ELSE Cardinality(Holders(e))
<1>1. Holders(e) \in SUBSET Workers /\ w \notin Holders(e)
  BY DEF Holders, TypeOK
<1>2. Holders(e)' = IF e \in S THEN Holders(e) \cup {w} ELSE Holders(e)
  BY DEF Holders, TypeOK
<1>3. QED
  BY <1>1, <1>2, WorkerSets, FS_AddElement

\* Entering publishEvent for e takes the worker off the holders of e.
LEMMA PublishDropsHolder ==
    ASSUME TypeOK, NEW w \in Workers, NEW d \in todo[w],
           todo' = [todo EXCEPT ![w] = @ \ {d}], NEW e \in Events
    PROVE  /\ Cardinality(Holders(e)) \in Nat
           /\ Cardinality(Holders(e))' \in Nat
           /\ Cardinality(Holders(e)) =
                IF e = d THEN Cardinality(Holders(e))' + 1
                         ELSE Cardinality(Holders(e))'
<1>1. Holders(e) \in SUBSET Workers /\ Holders(e)' \in SUBSET Workers
  BY DEF Holders, TypeOK
<1>2. CASE e = d
  <2>1. w \in Holders(e) /\ Holders(e)' = Holders(e) \ {w}
    BY <1>2 DEF Holders, TypeOK
  <2>2. QED
    BY <1>1, <1>2, <2>1, WorkerSets, FS_RemoveElement
<1>3. CASE e # d
  <2>1. Holders(e)' = Holders(e)
    BY <1>3 DEF Holders, TypeOK
  <2>2. QED
    BY <1>1, <1>3, <2>1, WorkerSets
<1>4. QED
  BY <1>2, <1>3

-----------------------------------------------------------------------------
(* The invariant *)

\* The empty table with no relay started satisfies the invariant.
LEMMA InitInv == Init => Inv
<1> SUFFICES ASSUME Init PROVE Inv
  OBVIOUS
<1>1. TypeOK
  BY BoundsAssumption DEF Init, TypeOK, Statuses, Leases, Lives, Points
<1>2. ClaimsPayForCopies
  <2> SUFFICES ASSUME NEW e \in Events
               PROVE  copies[e] + Cardinality(Holders(e)) <= attempts[e]
    BY DEF ClaimsPayForCopies
  <2>1. Holders(e) = {}
    BY DEF Init, Holders
  <2>2. QED
    BY <2>1, FS_EmptySet DEF Init
<1>3. QED
  BY <1>1, <1>2, BoundsAssumption
     DEF Init, Inv, WorkInProgress, AbsentIsUntouched,
         PublishedIsDelivered, PendingIsClaimable

\* A claim, answered or lost, preserves the invariant on rows and counters.
LEMMA TakeInv ==
    ASSUME Inv, NEW w \in Workers, NEW S \in ClaimSets(w) \cup {{}}, Take(w, S),
           todo[w] = {}, UNCHANGED <<life, cur, copies>>,
           NEW T \in {{}, S}, todo' = [todo EXCEPT ![w] = T],
           NEW p \in {"idle", "publishing"}, pc' = [pc EXCEPT ![w] = p],
           p = "idle" => T = {}
    PROVE  Inv'
<1> USE DEF Inv
<1>1. S \subseteq {e \in Events : Claimable(e)}
  BY ClaimTakesClaimable
<1>2. TypeOK'
  BY <1>1, BoundsAssumption DEF TypeOK, Take, Claimable, Statuses, Leases, Points
<1>3. ClaimsPayForCopies'
  <2> SUFFICES ASSUME NEW e \in Events
               PROVE  (copies[e] + Cardinality(Holders(e)) <= attempts[e])'
    BY DEF ClaimsPayForCopies
  <2>1. T \in SUBSET Events
    BY <1>1
  <2>2. /\ Cardinality(Holders(e)) \in Nat
        /\ Cardinality(Holders(e))' = IF e \in T THEN Cardinality(Holders(e)) + 1
                                                ELSE Cardinality(Holders(e))
    BY <2>1, ClaimAddsHolder
  <2>3. copies[e] + Cardinality(Holders(e)) <= attempts[e]
    BY DEF ClaimsPayForCopies
  <2>4. attempts'[e] = IF e \in S THEN attempts[e] + 1 ELSE attempts[e]
    BY DEF Take
  <2>5. copies' = copies /\ copies[e] \in Nat /\ attempts[e] \in Nat
    BY BoundsAssumption DEF TypeOK
  <2>6. e \in T => e \in S
    OBVIOUS
  <2>7. QED
    BY <2>2, <2>3, <2>4, <2>5, <2>6
<1>4. WorkInProgress'
  BY DEF WorkInProgress, TypeOK
<1>5. /\ AbsentIsUntouched'
      /\ PublishedIsDelivered'
      /\ PendingIsClaimable'
  BY <1>1 DEF Take, TypeOK, AbsentIsUntouched, PublishedIsDelivered, PendingIsClaimable
<1>6. QED
  BY <1>2, <1>3, <1>4, <1>5

\* A mark query, answered or lost, preserves the invariant on the rows; s is
\* PUBLISHED only for a row that has been sent.
LEMMA ReleaseInv ==
    ASSUME Inv, NEW w \in Workers, NEW e \in Events, NEW s \in {"PUBLISHED", "FAILED", "PENDING"},
           Release(w, e, s) \/ UNCHANGED row,
           s = "PUBLISHED" => copies[e] > 0,
           s # "PUBLISHED" => s = AfterFailure(e),
           UNCHANGED copies
    PROVE  /\ status' \in [Events -> Statuses]
           /\ owner' \in [Events -> Workers \cup {None}]
           /\ lease' \in [Events -> Leases]
           /\ attempts' = attempts
           /\ AbsentIsUntouched'
           /\ PublishedIsDelivered'
           /\ PendingIsClaimable'
BY BoundsAssumption
   DEF Inv, TypeOK, Release, Fenced, AfterFailure, row, Statuses, Leases,
       AbsentIsUntouched, PublishedIsDelivered, PendingIsClaimable

\* A worker that only drops rows from its batch, with the table's counters
\* unchanged, keeps every copy paid for.
LEMMA DropKeepsPaid ==
    ASSUME Inv, NEW w \in Workers, NEW T \in SUBSET todo[w],
           todo' = [todo EXCEPT ![w] = T], attempts' = attempts, copies' = copies
    PROVE  ClaimsPayForCopies'
<1> SUFFICES ASSUME NEW e \in Events
             PROVE  (copies[e] + Cardinality(Holders(e)) <= attempts[e])'
  BY DEF ClaimsPayForCopies
<1>1. /\ Cardinality(Holders(e)) \in Nat
      /\ Cardinality(Holders(e))' \in Nat
      /\ Cardinality(Holders(e))' <= Cardinality(Holders(e))
  BY FewerHolders DEF Inv
<1>2. copies[e] \in Nat /\ attempts[e] \in Nat
  BY BoundsAssumption DEF Inv, TypeOK
<1>3. copies[e] + Cardinality(Holders(e)) <= attempts[e]
  BY DEF Inv, ClaimsPayForCopies
<1>4. QED
  BY <1>1, <1>2, <1>3

\* Sending e, with the copy stored or not, keeps every copy paid for: the
\* worker stops being a holder of e.
LEMMA PublishKeepsPaid ==
    ASSUME Inv, NEW w \in Workers, NEW d \in Events, NEW p, Publish(w, d, p),
           copies' = [copies EXCEPT ![d] = @ + 1] \/ copies' = copies
    PROVE  ClaimsPayForCopies'
<1> SUFFICES ASSUME NEW e \in Events
             PROVE  (copies[e] + Cardinality(Holders(e)) <= attempts[e])'
  BY DEF ClaimsPayForCopies
<1>1. /\ Cardinality(Holders(e)) \in Nat
      /\ Cardinality(Holders(e))' \in Nat
      /\ Cardinality(Holders(e)) = IF e = d THEN Cardinality(Holders(e))' + 1
                                           ELSE Cardinality(Holders(e))'
  BY PublishDropsHolder DEF Inv, Publish
<1>2. /\ copies[e] \in Nat /\ attempts[e] \in Nat /\ attempts'[e] = attempts[e]
      /\ copies'[e] <= IF e = d THEN copies[e] + 1 ELSE copies[e]
      /\ copies'[e] \in Nat
  BY BoundsAssumption DEF Inv, TypeOK, Publish, row
<1>3. copies[e] + Cardinality(Holders(e)) <= attempts[e]
  BY DEF Inv, ClaimsPayForCopies
<1>4. QED
  BY <1>1, <1>2, <1>3

\* The other parts of the invariant when publishEvent has its send answered.
LEMMA PublishInv ==
    ASSUME Inv, NEW w \in Workers, NEW d \in Events,
           NEW p \in {"marking", "failing"}, Publish(w, d, p),
           \/ copies' = [copies EXCEPT ![d] = @ + 1]
           \/ copies' = copies /\ p = "failing"
    PROVE  Inv'
<1>1. ClaimsPayForCopies'
  BY PublishKeepsPaid
<1>2. TypeOK'
  BY DEF Inv, TypeOK, Publish, row, Points
<1>3. WorkInProgress'
  BY DEF Inv, TypeOK, WorkInProgress, Publish
<1>4. AbsentIsUntouched' /\ PublishedIsDelivered' /\ PendingIsClaimable'
  BY DEF Inv, TypeOK, AbsentIsUntouched, PublishedIsDelivered, PendingIsClaimable,
         Publish, row
<1>5. QED
  BY <1>1, <1>2, <1>3, <1>4 DEF Inv

\* A mark query ends, however: publishEvent goes on, returns or throws.
LEMMA MarkInv ==
    ASSUME Inv, NEW w \in Workers, pc[w] \in {"marking", "failing"},
           NEW s \in {"PUBLISHED", "FAILED", "PENDING"},
           Release(w, cur[w], s) \/ UNCHANGED row,
           s = "PUBLISHED" => pc[w] = "marking",
           s # "PUBLISHED" => s = AfterFailure(cur[w]),
           UNCHANGED <<life, copies>>,
           \/ NextEvent(w)
           \/ AbortBatch(w)
           \/ pc' = [pc EXCEPT ![w] = "failing"] /\ UNCHANGED <<todo, cur>>
    PROVE  Inv'
<1>1. cur[w] \in Events /\ (s = "PUBLISHED" => copies[cur[w]] > 0)
  BY DEF Inv, WorkInProgress
<1>2. /\ status' \in [Events -> Statuses]
      /\ owner' \in [Events -> Workers \cup {None}]
      /\ lease' \in [Events -> Leases]
      /\ attempts' = attempts
      /\ AbsentIsUntouched' /\ PublishedIsDelivered' /\ PendingIsClaimable'
  BY <1>1, ReleaseInv
<1>3. \E T \in SUBSET todo[w] : todo' = [todo EXCEPT ![w] = T]
  <2>1. CASE todo' = todo
    BY <2>1 DEF Inv, TypeOK
  <2>2. CASE AbortBatch(w)
    BY <2>2 DEF AbortBatch
  <2>3. QED
    BY <2>1, <2>2 DEF NextEvent
<1>4. ClaimsPayForCopies'
  BY <1>2, <1>3, DropKeepsPaid
<1>5. TypeOK'
  BY <1>2 DEF Inv, TypeOK, NextEvent, AbortBatch, Points
<1>6. WorkInProgress'
  BY <1>1 DEF Inv, TypeOK, WorkInProgress, NextEvent, AbortBatch
<1>7. QED
  BY <1>2, <1>4, <1>5, <1>6 DEF Inv

\* Every step preserves the invariant.
LEMMA NextInv == Inv /\ [Next]_vars => Inv'
<1> SUFFICES ASSUME Inv, [Next]_vars PROVE Inv'
  OBVIOUS
<1>1. ASSUME NEW e \in Events, CreateOrder(e) PROVE Inv'
  <2>1. \A d \in Events : Holders(d)' = Holders(d)
    BY <1>1 DEF CreateOrder, Holders
  <2>2. ClaimsPayForCopies'
    BY <1>1, <2>1 DEF Inv, ClaimsPayForCopies, CreateOrder
  <2>3. TypeOK' /\ WorkInProgress' /\ AbsentIsUntouched'
    BY <1>1 DEF Inv, CreateOrder, TypeOK, Statuses, WorkInProgress, AbsentIsUntouched
  <2>4. PublishedIsDelivered' /\ PendingIsClaimable'
    BY <1>1, BoundsAssumption DEF Inv, CreateOrder, TypeOK, AbsentIsUntouched,
       PublishedIsDelivered, PendingIsClaimable
  <2>5. QED
    BY <2>2, <2>3, <2>4 DEF Inv
<1>2. ASSUME NEW e \in Events, LeaseExpire(e) PROVE Inv'
  <2>1. \A d \in Events : Holders(d)' = Holders(d)
    BY <1>2 DEF LeaseExpire, Holders, mem
  <2>2. ClaimsPayForCopies'
    BY <1>2, <2>1 DEF Inv, ClaimsPayForCopies, LeaseExpire
  <2>3. QED
    BY <1>2, <2>2 DEF Inv, LeaseExpire, mem, TypeOK, Leases, WorkInProgress,
       AbsentIsUntouched, PublishedIsDelivered, PendingIsClaimable
<1>3. ASSUME NEW w \in Workers, Start(w) \/ Stop(w) \/ Disconnect(w) \/ Poll(w)
      PROVE  Inv'
  <2>1. UNCHANGED <<row, todo, cur, copies>>
    BY <1>3 DEF Start, Stop, Disconnect, Poll, mem
  <2>2. ClaimsPayForCopies'
    <3>1. \A d \in Events : Holders(d)' = Holders(d)
      BY <2>1 DEF Holders
    <3>2. QED
      BY <2>1, <3>1 DEF Inv, ClaimsPayForCopies, row
  <2>3. TypeOK' /\ WorkInProgress'
    BY <1>3, <2>1 DEF Inv, Start, Stop, Disconnect, Poll, mem, row, TypeOK, Lives,
       Points, WorkInProgress
  <2>4. QED
    BY <2>1, <2>2, <2>3 DEF Inv, row, AbsentIsUntouched, PublishedIsDelivered,
       PendingIsClaimable
<1>4. ASSUME NEW w \in Workers, Crash(w) PROVE Inv'
  <2>1. ClaimsPayForCopies'
    BY <1>4, DropKeepsPaid DEF Crash, row
  <2>2. TypeOK' /\ WorkInProgress'
    BY <1>4 DEF Inv, Crash, row, TypeOK, Lives, Points, WorkInProgress
  <2>3. QED
    BY <1>4, <2>1, <2>2 DEF Inv, Crash, row, AbsentIsUntouched,
       PublishedIsDelivered, PendingIsClaimable
<1>5. ASSUME NEW w \in Workers, Claim(w) PROVE Inv'
  <2>1. PICK S \in ClaimSets(w) :
            /\ Take(w, S)
            /\ todo' = [todo EXCEPT ![w] = S]
            /\ pc'   = [pc EXCEPT ![w] = IF S = {} THEN "idle" ELSE "publishing"]
    BY <1>5 DEF Claim
  <2>2. todo[w] = {} /\ UNCHANGED <<life, cur, copies>>
    BY <1>5 DEF Claim, Inv, WorkInProgress
  <2>3. QED
    BY <2>1, <2>2, TakeInv
<1>6. ASSUME NEW w \in Workers, ClaimError(w) PROVE Inv'
  <2>1. PICK S \in ClaimSets(w) \cup {{}} : Take(w, S)
    BY <1>6 DEF ClaimError
  <2>2. /\ todo[w] = {} /\ UNCHANGED <<life, cur, copies>>
        /\ pc' = [pc EXCEPT ![w] = "idle"]
        /\ todo' = [todo EXCEPT ![w] = {}]
    BY <1>6 DEF ClaimError, Inv, WorkInProgress, TypeOK
  <2>3. QED
    BY <2>1, <2>2, TakeInv
<1>7. ASSUME NEW w \in Workers, NEW e \in Events, SendOk(w, e) \/ SendError(w, e)
      PROVE  Inv'
  BY <1>7, PublishInv DEF SendOk, SendError
<1>8. ASSUME NEW w \in Workers, MarkPublished(w) \/ MarkPublishedError(w) PROVE Inv'
  BY <1>8, MarkInv DEF MarkPublished, MarkPublishedError
<1>9. ASSUME NEW w \in Workers, MarkFailed(w) \/ MarkFailedError(w) PROVE Inv'
  <2>1. AfterFailure(cur[w]) \in {"FAILED", "PENDING"}
    BY DEF AfterFailure
  <2>2. QED
    BY <1>9, <2>1, MarkInv DEF MarkFailed, MarkFailedError
<1>10. CASE UNCHANGED vars
  <2>1. \A d \in Events : Holders(d)' = Holders(d)
    BY <1>10 DEF vars, Holders
  <2>2. ClaimsPayForCopies'
    BY <1>10, <2>1 DEF Inv, ClaimsPayForCopies, vars
  <2>3. QED
    BY <1>10, <2>2 DEF Inv, vars, TypeOK, WorkInProgress, AbsentIsUntouched,
       PublishedIsDelivered, PendingIsClaimable
<1>11. QED
  BY <1>1, <1>2, <1>3, <1>4, <1>5, <1>6, <1>7, <1>8, <1>9, <1>10 DEF Next, Step

\* The inductive invariant holds of every reachable state.
THEOREM Invariance == Spec => []Inv
BY InitInv, NextInv, PTL DEF Spec

-----------------------------------------------------------------------------
(* Results *)

\* Rows, workers and counters keep their types: in particular the claim query
\* never drives attempts past its bound.
THEOREM TypeCorrect == Spec => []TypeOK
<1>1. Inv => TypeOK
  BY DEF Inv
<1>2. QED
  BY <1>1, Invariance, PTL

\* A row marked PUBLISHED by markOutboxEventPublished is in Kafka, whatever
\* crashes, lease expiries, stale workers and lost answers happen.
THEOREM PublishedDelivered == Spec => []PublishedIsDelivered
<1>1. Inv => PublishedIsDelivered
  BY DEF Inv
<1>2. QED
  BY <1>1, Invariance, PTL

\* The topic never holds more copies of an event than getPendingOutboxEvents
\* claimed it times.
THEOREM CopiesBounded == Spec => []CopiesWithinAttempts
<1>1. Inv => CopiesWithinAttempts
  <2> SUFFICES ASSUME Inv, NEW e \in Events PROVE copies[e] <= attempts[e]
    BY DEF CopiesWithinAttempts
  <2>1. Holders(e) \in SUBSET Workers
    BY DEF Holders
  <2>2. Cardinality(Holders(e)) \in Nat
    BY <2>1, WorkerSets
  <2>3. copies[e] \in Nat /\ attempts[e] \in Nat
    BY BoundsAssumption DEF Inv, TypeOK
  <2>4. copies[e] + Cardinality(Holders(e)) <= attempts[e]
    BY DEF Inv, ClaimsPayForCopies
  <2>5. QED
    BY <2>2, <2>3, <2>4
<1>2. QED
  BY <1>1, Invariance, PTL

\* The bound of the claim and the bound of markOutboxEventFailed agree.
THEOREM PendingClaimable == Spec => []PendingIsClaimable
<1>1. Inv => PendingIsClaimable
  BY DEF Inv
<1>2. QED
  BY <1>1, Invariance, PTL

\* While a lease is valid only its owner's own mark query changes who holds
\* the row: stale workers are fenced off.
THEOREM StaleWorkersFenced == Spec => NoStaleCompletion
<1> DEFINE Handover(e) ==
        /\ status[e] = "PROCESSING" /\ owner'[e] # owner[e]
        /\ lease[e] = "valid"
        => LET w == owner[e]
           IN  cur[w] = e /\ pc[w] \in {"marking", "failing"} /\ pc'[w] # pc[w]
<1>1. ASSUME Inv, [Next]_vars, NEW e \in Events PROVE Handover(e)
  <2> SUFFICES ASSUME status[e] = "PROCESSING", owner'[e] # owner[e], lease[e] = "valid"
               PROVE  LET w == owner[e]
                      IN  cur[w] = e /\ pc[w] \in {"marking", "failing"} /\ pc'[w] # pc[w]
    OBVIOUS
  <2>1. ASSUME NEW d \in Events, CreateOrder(d) \/ LeaseExpire(d) PROVE FALSE
    BY <2>1 DEF CreateOrder, LeaseExpire
  <2>2. ASSUME NEW w \in Workers,
               Start(w) \/ Stop(w) \/ Disconnect(w) \/ Crash(w) \/ Poll(w)
        PROVE  FALSE
    BY <2>2 DEF Start, Stop, Disconnect, Crash, Poll, row
  <2>3. ASSUME NEW w \in Workers, Claim(w) \/ ClaimError(w) PROVE FALSE
    <3>1. PICK S \in ClaimSets(w) \cup {{}} : Take(w, S)
      BY <2>3 DEF Claim, ClaimError
    <3>2. e \notin S
      BY ClaimTakesClaimable DEF Claimable
    <3>3. QED
      BY <3>1, <3>2 DEF Take
  <2>4. ASSUME NEW w \in Workers, NEW d \in Events, SendOk(w, d) \/ SendError(w, d)
        PROVE  FALSE
    BY <2>4 DEF SendOk, SendError, Publish, row
  <2>5. ASSUME NEW w \in Workers, MarkPublished(w) \/ MarkPublishedError(w)
               \/ MarkFailed(w) \/ MarkFailedError(w)
        PROVE  /\ owner[e] = w /\ cur[w] = e
               /\ pc[w] \in {"marking", "failing"} /\ pc'[w] # pc[w]
    <3>1. cur[w] \in Events
      BY <1>1, <2>5 DEF MarkPublished, MarkPublishedError, MarkFailed, MarkFailedError,
         Inv, WorkInProgress
    <3>2. Fenced(w, cur[w]) /\ cur[w] = e
      BY <1>1, <2>5, <3>1 DEF MarkPublished, MarkPublishedError, MarkFailed, MarkFailedError,
         Release, row, Inv, TypeOK
    <3>3. pc[w] \in {"marking", "failing"} /\ pc'[w] # pc[w]
      BY <1>1, <2>5 DEF MarkPublished, MarkPublishedError, MarkFailed, MarkFailedError,
         NextEvent, AbortBatch, Inv, TypeOK
    <3>4. QED
      BY <3>2, <3>3 DEF Fenced
  <2>6. CASE UNCHANGED vars
    BY <2>6 DEF vars
  <2>7. QED
    BY <1>1, <2>1, <2>2, <2>3, <2>4, <2>5, <2>6 DEF Next, Step
<1>2. Inv /\ [Next]_vars => [\A e \in Events : Handover(e)]_vars
  BY <1>1
<1>3. QED
  BY <1>2, Invariance, PTL DEF Spec, NoStaleCompletion

\* The relay implements AtLeastOnce: each of its steps accepts, delivers,
\* confirms or gives up one event, or leaves the promise untouched.
THEOREM Refinement == Spec => ImplementsAtLeastOnce
<1>1. Init => ALO!Init
  BY DEF Init, ALO!Init, Accepted, Outcome
<1>2. ASSUME Inv, Inv', [Next]_vars PROVE [ALO!Next]_(ALO!vars)
  <2>1. ASSUME NEW e \in Events, CreateOrder(e) PROVE ALO!Accept(e)
    BY <2>1, <1>2 DEF CreateOrder, ALO!Accept, Accepted, Outcome, Inv, TypeOK
  <2>2. ASSUME NEW e \in Events, LeaseExpire(e) PROVE UNCHANGED ALO!vars
    BY <2>2 DEF LeaseExpire, ALO!vars, Accepted, Outcome
  <2>3. ASSUME NEW w \in Workers,
               Start(w) \/ Stop(w) \/ Disconnect(w) \/ Crash(w) \/ Poll(w)
        PROVE  UNCHANGED ALO!vars
    BY <2>3 DEF Start, Stop, Disconnect, Crash, Poll, row, ALO!vars, Accepted, Outcome
  <2>4. ASSUME NEW w \in Workers, Claim(w) \/ ClaimError(w)
        PROVE  UNCHANGED ALO!vars
    <3>1. PICK S \in ClaimSets(w) \cup {{}} : Take(w, S)
      BY <2>4 DEF Claim, ClaimError
    <3>2. \A e \in S : e \in Events /\ status[e] \in {"PENDING", "PROCESSING"}
      BY ClaimTakesClaimable DEF Claimable
    <3>3. Accepted' = Accepted /\ Outcome' = Outcome
      BY <3>1, <3>2 DEF Take, Accepted, Outcome
    <3>4. copies' = copies
      BY <2>4 DEF Claim, ClaimError
    <3>5. QED
      BY <3>3, <3>4 DEF ALO!vars
  <2>5. ASSUME NEW w \in Workers, NEW e \in Events, SendOk(w, e) \/ SendError(w, e)
        PROVE  ALO!Deliver(e) \/ UNCHANGED ALO!vars
    <3>1. Accepted' = Accepted /\ Outcome' = Outcome /\ e \in todo[w]
      BY <2>5 DEF SendOk, SendError, Publish, row, Accepted, Outcome
    <3>2. CASE copies' = copies
      BY <3>1, <3>2 DEF ALO!vars
    <3>3. CASE copies' = [copies EXCEPT ![e] = @ + 1]
      <4>1. Holders(e) \in SUBSET Workers /\ w \in Holders(e)
        BY <3>1 DEF Holders
      <4>2. Cardinality(Holders(e)) \in Nat \ {0}
        BY <4>1, WorkerSets, FS_EmptySet
      <4>3. copies[e] \in Nat /\ attempts[e] \in 0 .. MaxAttempts
        BY <1>2 DEF Inv, TypeOK
      <4>4. copies[e] + Cardinality(Holders(e)) <= attempts[e]
        BY <1>2 DEF Inv, ClaimsPayForCopies
      <4>5. copies[e] < MaxAttempts /\ attempts[e] # 0
        BY <4>2, <4>3, <4>4, BoundsAssumption
      <4>6. e \in Accepted
        BY <4>5, <1>2 DEF Accepted, Inv, AbsentIsUntouched
      <4>7. QED
        BY <3>1, <3>3, <4>5, <4>6 DEF ALO!Deliver
    <3>4. QED
      BY <2>5, <3>2, <3>3 DEF SendOk, SendError
  <2>6. ASSUME NEW w \in Workers, MarkPublished(w) \/ MarkPublishedError(w)
        PROVE  (\E e \in Events : ALO!Confirm(e)) \/ UNCHANGED ALO!vars
    <3> DEFINE e == cur[w]
    <3>1. e \in Events /\ copies[e] > 0 /\ copies' = copies
      BY <2>6, <1>2 DEF MarkPublished, MarkPublishedError, Inv, WorkInProgress
    <3>2. CASE UNCHANGED row
      BY <3>1, <3>2 DEF row, ALO!vars, Accepted, Outcome
    <3>3. CASE Release(w, e, "PUBLISHED") /\ Fenced(w, e)
      <4>1. status[e] = "PROCESSING" /\ status' = [status EXCEPT ![e] = "PUBLISHED"]
        BY <3>3 DEF Release, Fenced
      <4>2. Accepted' = Accepted /\ e \in Accepted
        BY <3>1, <4>1, <1>2 DEF Accepted, Inv, TypeOK
      <4>3. Outcome' = [Outcome EXCEPT ![e] = "published"] /\ Outcome[e] = "open"
        BY <3>1, <4>1, <1>2 DEF Outcome, Inv, TypeOK
      <4>4. QED
        BY <3>1, <4>2, <4>3 DEF ALO!Confirm
    <3>4. QED
      BY <2>6, <3>2, <3>3 DEF MarkPublished, MarkPublishedError, Release, row
  <2>7. ASSUME NEW w \in Workers, MarkFailed(w) \/ MarkFailedError(w)
        PROVE  (\E e \in Events : ALO!GiveUp(e)) \/ UNCHANGED ALO!vars
    <3> DEFINE e == cur[w]
    <3>1. e \in Events /\ copies' = copies
      BY <2>7, <1>2 DEF MarkFailed, MarkFailedError, Inv, WorkInProgress
    <3>2. CASE UNCHANGED row
      BY <3>1, <3>2 DEF row, ALO!vars, Accepted, Outcome
    <3>3. CASE Release(w, e, AfterFailure(e)) /\ Fenced(w, e)
      <4>1. /\ status[e] = "PROCESSING"
            /\ \/ status' = [status EXCEPT ![e] = "FAILED"]
               \/ status' = [status EXCEPT ![e] = "PENDING"]
        BY <3>3 DEF Release, Fenced, AfterFailure
      <4>2. Accepted' = Accepted /\ e \in Accepted
        BY <3>1, <4>1, <1>2 DEF Accepted, Inv, TypeOK
      <4>3. /\ Outcome[e] = "open"
            /\ Outcome' = [Outcome EXCEPT ![e] = "failed"] \/ Outcome' = Outcome
        BY <3>1, <4>1, <1>2 DEF Outcome, Inv, TypeOK
      <4>4. QED
        BY <3>1, <4>2, <4>3 DEF ALO!GiveUp, ALO!vars
    <3>4. QED
      BY <2>7, <3>2, <3>3 DEF MarkFailed, MarkFailedError, Release, row
  <2>8. CASE UNCHANGED vars
    BY <2>8 DEF vars, ALO!vars, Accepted, Outcome
  <2>9. QED
    BY <1>2, <2>1, <2>2, <2>3, <2>4, <2>5, <2>6, <2>7, <2>8 DEF Next, Step, ALO!Next
<1>3. QED
  BY <1>1, <1>2, Invariance, PTL DEF Spec, ImplementsAtLeastOnce, ALO!Spec

=============================================================================

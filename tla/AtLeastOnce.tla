----------------------------- MODULE AtLeastOnce -----------------------------
(***************************************************************************)
(* What the outbox promises its callers: an accepted event is delivered at *)
(* least once before it is confirmed, at most MaxAttempts times in all,    *)
(* and its outcome is decided once.  A delivery may still come in after    *)
(* the outcome: the publisher may be a worker that lost its lease.         *)
(***************************************************************************)
EXTENDS Naturals

CONSTANTS Events, MaxAttempts

VARIABLES
    accepted,   \* events whose transaction committed
    copies,     \* deliveries so far
    outcome     \* "open", "published" or "failed"

vars == <<accepted, copies, outcome>>

Init ==
    /\ accepted = {}
    /\ copies   = [e \in Events |-> 0]
    /\ outcome  = [e \in Events |-> "open"]

Accept(e) ==
    /\ e \notin accepted
    /\ accepted' = accepted \cup {e}
    /\ UNCHANGED <<copies, outcome>>

Deliver(e) ==
    /\ e \in accepted
    /\ copies[e] < MaxAttempts
    /\ copies' = [copies EXCEPT ![e] = @ + 1]
    /\ UNCHANGED <<accepted, outcome>>

Confirm(e) ==
    /\ e \in accepted
    /\ outcome[e] = "open"
    /\ copies[e] > 0
    /\ outcome' = [outcome EXCEPT ![e] = "published"]
    /\ UNCHANGED <<accepted, copies>>

GiveUp(e) ==
    /\ e \in accepted
    /\ outcome[e] = "open"
    /\ outcome' = [outcome EXCEPT ![e] = "failed"]
    /\ UNCHANGED <<accepted, copies>>

Next == \E e \in Events : Accept(e) \/ Deliver(e) \/ Confirm(e) \/ GiveUp(e)

Spec == Init /\ [][Next]_vars
=============================================================================

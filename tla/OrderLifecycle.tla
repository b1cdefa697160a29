--------------------------- MODULE OrderLifecycle ---------------------------
(***************************************************************************)
(* What the saga promises an order: it is open until it is completed,      *)
(* failed, or undone and then cancelled; an undone order is cancelled with *)
(* the last of the compensations it owes, each counted once; and the       *)
(* outcome, once there is one, stays and is announced at most once.        *)
(***************************************************************************)
CONSTANT Compensations

VARIABLES
    phase,      \* "NONE", "OPEN", "COMPENSATING" or an outcome
    owed,       \* compensations the order owes
    done,       \* ... of these, and perhaps others, reported as done
    announced   \* the announcements: where, and of which outcome

vars == <<phase, owed, done, announced>>

Outcomes == {"COMPLETED", "FAILED", "CANCELLED"}

Init == phase = "NONE" /\ owed = {} /\ done = {} /\ announced = {}

Accept ==
    /\ phase = "NONE"
    /\ phase' = "OPEN"
    /\ UNCHANGED <<owed, done, announced>>

Decide ==
    /\ phase = "OPEN"
    /\ phase' \in {"COMPLETED", "FAILED"}
    /\ UNCHANGED <<owed, done, announced>>

Undo ==
    /\ phase = "OPEN"
    /\ phase' = "COMPENSATING"
    /\ owed' \in (SUBSET Compensations) \ {{}}
    /\ UNCHANGED <<done, announced>>

Report(c) ==
    /\ phase = "COMPENSATING"
    /\ done' = done \cup {c}
    /\ phase' = IF owed \subseteq done' THEN "CANCELLED" ELSE "COMPENSATING"
    /\ UNCHANGED <<owed, announced>>

Announce ==
    /\ phase \in Outcomes
    /\ announced = {}
    /\ \E a \in announced' : announced' = {a} /\ a[2] = phase
    /\ UNCHANGED <<phase, owed, done>>

Next == Accept \/ Decide \/ Undo \/ Announce \/ \E c \in Compensations : Report(c)

Spec == Init /\ [][Next]_vars
=============================================================================

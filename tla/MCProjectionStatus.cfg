\* Two projection instances, an order that is cancelled, no fault at all.
CONSTANTS
    Scenarios <- Undisturbed
    Instances = {i1, i2}
    Replayers = {r1}
    TotalStock = 1
    StealCost = 1
    None = None
SPECIFICATION Spec
INVARIANTS OutcomeShown
\* Nothing is left to do once the order is projected.
CHECK_DEADLOCK FALSE

\* One replay of an order that holds stock, no fault at all.
CONSTANTS
    Scenarios <- HoldingStock
    Instances = {i1, i2}
    Replayers = {r1}
    TotalStock = 1
    StealCost = 1
    None = None
SPECIFICATION Spec
INVARIANTS ReplayKeepsStock
\* Nothing is left to do once the order is projected.
CHECK_DEADLOCK FALSE

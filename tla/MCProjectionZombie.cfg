\* Two projection instances and one rebalance, nobody asks for a replay.
CONSTANTS
    Scenarios <- Rebalancing
    Instances = {i1, i2}
    Replayers = {r1}
    TotalStock = 1
    StealCost = 1
    None = None
SPECIFICATION Spec
INVARIANTS ConcurrencyKeepsStock
\* Nothing is left to do once the order is projected.
CHECK_DEADLOCK FALSE

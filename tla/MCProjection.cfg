\* Two projection instances and two replay requests at a time, over stretches of
\* every history of the saga; each scenario bounds its faults and replays.
CONSTANTS
    Scenarios <- MCScenarios
    Instances = {i1, i2}
    Replayers = {r1, r2}
    TotalStock = 1
    StealCost = 1
    None = None
SPECIFICATION FairSpec
INVARIANTS
    TypeOK StoreKeepsTopicOrder NothingUnstored ModelsFollowTopics StockAccounted
    QuietReplayRebuilds
PROPERTIES EventuallyProjected
\* Nothing is left to do once the order is projected.
CHECK_DEADLOCK FALSE

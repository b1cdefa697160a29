\* Two orchestrator instances and one fault, rebalances left aside.
CONSTANTS
    Instances = {i1, i2}
    MaxFaults = 1
    StealCost = 2
    None = None
SPECIFICATION FairSpec
PROPERTIES SagaEnds
\* Nothing is left to do once the order is settled.
CHECK_DEADLOCK FALSE

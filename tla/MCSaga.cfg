\* Two orchestrator instances and two faults of any kind or one rebalance.
CONSTANTS
    Instances = {i1, i2}
    MaxFaults = 2
    StealCost = 2
    None = None
SPECIFICATION FairSpec
INVARIANTS TypeOK CancelledIsCompensated AtMostOneOutcome CommandsAtMostOnce
PROPERTIES ImplementsLifecycle SagaEndsUnlessLost
\* Nothing is left to do once the order is settled.
CHECK_DEADLOCK FALSE

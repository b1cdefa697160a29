\* Two orders, a relay that may die at any point and one that stays up.
CONSTANTS
    Events <- MCEvents
    Workers = {w1, w2}
    Mortal = {w1}
    BatchSize = 1
    MaxAttempts = 2
    None = None
SPECIFICATION FairSpec
PROPERTIES EveryExpiredLeaseReclaimed

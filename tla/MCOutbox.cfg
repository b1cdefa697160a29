\* Two orders, a relay that may stop or crash at any point and one that stays
\* up; every row may be claimed twice.  OutboxProofs has the safety properties
\* for every other size.
CONSTANTS
    Events <- MCEvents
    Workers = {w1, w2}
    Mortal = {w1}
    BatchSize = 2
    MaxAttempts = 2
    None = None
SPECIFICATION FairSpec
INVARIANTS TypeOK PublishedIsDelivered CopiesWithinAttempts PendingIsClaimable
PROPERTIES NoStaleCompletion ImplementsAtLeastOnce EventuallySettled ExpiredLeaseReclaimed

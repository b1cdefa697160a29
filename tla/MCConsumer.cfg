\* One event that may arrive repeatedly, two members of the group, two overlapping replay
\* requests.
CONSTANTS
    Events = {e1}
    Malformed = malformed
    Instances = {i1, i2}
    Replayers = {r1, r2}
    MaxRetries = 2
    MaxLog = 3
    MaxFaults = 2
    None = None
SPECIFICATION Spec
SYMMETRY MCSymmetry
INVARIANTS TypeOK LossesAccounted DuplicatesNeedFaults ReplayedIsResent
\* Nothing is left to do once the bounded log is handled.
CHECK_DEADLOCK FALSE

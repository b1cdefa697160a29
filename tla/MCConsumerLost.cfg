\* One event and malformed messages, two members of the group, one replay
\* request.
CONSTANTS
    Events = {e1}
    Malformed = malformed
    Instances = {i1, i2}
    Replayers = {r1}
    MaxRetries = 2
    MaxLog = 2
    MaxFaults = 1
    None = None
SPECIFICATION Spec
INVARIANTS NothingLost
\* Nothing is left to do once the bounded log is handled.
CHECK_DEADLOCK FALSE

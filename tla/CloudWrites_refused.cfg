\* One user, four writes, the third one refused, and no disturbance at all.
SPECIFICATION Spec
CONSTANTS
    User = {ada}
    None = None
    kMaxPendingWrites = 4
    Refused = {3}
    MaxWrites = 4
    MaxWaits = 0
    MaxSignIns = 0
    MaxFaults = 0
INVARIANT RejectedWasRefused
CHECK_DEADLOCK FALSE

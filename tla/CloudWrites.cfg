\* Two users and three writes, the second one refused, with room for two of them
\* in the pipeline; one change of the user and one disturbance, wherever they fall.
SPECIFICATION FairSpec
CONSTANTS
    User = {ada, bob}
    None = None
    kMaxPendingWrites = 2
    Refused = {2}
    MaxWrites = 3
    MaxWaits = 1
    MaxSignIns = 1
    MaxFaults = 1
INVARIANTS
    TypeOK
    PipelineInStep
    WrittenByOwner
    NothingLost
PROPERTIES
    WaitMeansDone
    WritesDrain
CHECK_DEADLOCK FALSE

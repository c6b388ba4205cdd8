SPECIFICATION Spec
CONSTANTS
    sa = sa
    sb = sb
    Slots <- OneSlot
    Topic <- LinkTopic
    Policy <- SyncPolicy
    Headers <- OneHeader
    PatientOwner = TRUE
    RcvCap = 2
    MaxBatch = 1
    MaxEvents = 1
    MaxStarts = 2
    MaxFaults = 1
    MaxThrows = 0
CHECK_DEADLOCK FALSE
INVARIANT RunningMeansSubscribed

SPECIFICATION Spec
CONSTANTS
    sa = sa
    sb = sb
    Slots <- OneSlot
    Topic <- LinkTopic
    Policy <- SyncPolicy
    Headers <- AllHeaders
    PatientOwner = FALSE
    RcvCap = 1
    MaxBatch = 2
    MaxEvents = 3
    MaxStarts = 2
    MaxFaults = 1
    MaxThrows = 1
CHECK_DEADLOCK FALSE
INVARIANT ReadLoopAlive

SPECIFICATION Spec
CONSTANTS
    sa = sa
    sb = sb
    Slots <- OneSlot
    Topic <- LinkTopic
    Policy <- SyncPolicy
    Headers <- OneHeader
    PatientOwner = FALSE
    RcvCap = 2
    MaxBatch = 1
    MaxEvents = 2
    MaxStarts = 2
    MaxFaults = 0
    MaxThrows = 0
CHECK_DEADLOCK FALSE
INVARIANT SingleReadLoop

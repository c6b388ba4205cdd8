SPECIFICATION Spec
CONSTANTS
    sa = sa
    sb = sb
    Slots <- TwoSlots
    Topic <- LinkTopic
    Policy <- MixedPolicy
    Headers <- LinkHeaders
    PatientOwner = TRUE
    RcvCap = 2
    MaxBatch = 2
    MaxEvents = 3
    MaxStarts = 2
    MaxFaults = 1
    MaxThrows = 1
CHECK_DEADLOCK FALSE
INVARIANT TypeOK
INVARIANT SingleReadLoop
INVARIANT OrderedDelivery
INVARIANT NothingAfterDestruction
PROPERTY EventuallyDelivered

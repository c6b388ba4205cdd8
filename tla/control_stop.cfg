SPECIFICATION Spec
CONSTANTS
    o1 = o1
    o2 = o2
    Ops <- Ops2
    Shared = Shared
    NoOp = NoOp
    NoEntry = NoEntry
    Entries <- ReachableEntries
    KernelErrors <- NoErrnos
    Kinds <- DumpAndProbe
    SerialNeighborOps = TRUE
    SeqMod = 3
    RcvCap = 4
    Notices <- NoNotices
    MaxDump = 1
    MaxNotices = 0
    MaxFaults = 0
    MaxStops = 1
CHECK_DEADLOCK FALSE
PROPERTY StopEndsOperations

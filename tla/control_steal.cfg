SPECIFICATION Spec
CONSTANTS
    o1 = o1
    o2 = o2
    Ops <- Ops2
    Shared = Shared
    NoOp = NoOp
    NoEntry = NoEntry
    Entries <- ReachableEntries
    KernelErrors <- NoErrnos
    Kinds <- ProbeOnly
    SerialNeighborOps = FALSE
    SeqMod = 3
    RcvCap = 4
    Notices <- NoNotices
    MaxDump = 1
    MaxNotices = 0
    MaxFaults = 0
    MaxStops = 0
CHECK_DEADLOCK FALSE
PROPERTY EveryCallReturns

SPECIFICATION Spec
CONSTANTS
    o1 = o1
    o2 = o2
    Ops <- Ops2
    Shared = Shared
    NoOp = NoOp
    NoEntry = NoEntry
    Entries <- ReachableEntries
    KernelErrors <- NoErrnos
    Kinds <- DumpAndGet
    SerialNeighborOps = TRUE
    SeqMod = 3
    RcvCap = 4
    Notices <- OwnNotices
    MaxDump = 1
    MaxNotices = 1
    MaxFaults = 0
    MaxStops = 1
INVARIANT NoStolenReply
PROPERTY EveryCallReturns

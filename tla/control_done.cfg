SPECIFICATION Spec
CONSTANTS
    o1 = o1
    o2 = o2
    Ops <- Ops1
    Shared = Shared
    NoOp = NoOp
    NoEntry = NoEntry
    Entries <- RouteEntries
    KernelErrors <- Errnos
    Kinds <- RoutesOnly
    SerialNeighborOps = TRUE
    SeqMod = 2
    RcvCap = 4
    Notices <- NoNotices
    MaxDump = 1
    MaxNotices = 0
    MaxFaults = 0
    MaxStops = 0
INVARIANT BrokenDumpFails

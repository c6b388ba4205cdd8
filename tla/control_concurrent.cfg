SPECIFICATION Spec
CONSTANTS
    o1 = o1
    o2 = o2
    Ops <- Ops2
    Shared = Shared
    NoOp = NoOp
    NoEntry = NoEntry
    Entries <- NeighborEntries
    KernelErrors <- Errnos
    Kinds <- NeighborKinds
    SerialNeighborOps = FALSE
    SeqMod = 4
    RcvCap = 1
    Notices <- ForeignNotices
    MaxDump = 1
    MaxNotices = 1
    MaxFaults = 1
    MaxStops = 1
SYMMETRY Symmetry
CHECK_DEADLOCK FALSE
INVARIANT ResultFromOwnAnswer
INVARIANT NobodyForgotten
INVARIANT DumpEndAhead
PROPERTY ServiceSpec

SPECIFICATION Spec
CONSTANTS
    o1 = o1
    o2 = o2
    Ops <- Ops1
    Shared = Shared
    NoOp = NoOp
    NoEntry = NoEntry
    Entries <- DumpEntries
    KernelErrors <- Errnos
    Kinds <- OtherKinds
    SerialNeighborOps = FALSE
    SeqMod = 2
    RcvCap = 2
    Notices <- OwnNotices
    MaxDump = 3
    MaxNotices = 1
    MaxFaults = 1
    MaxStops = 1
INVARIANT TypeOK
INVARIANT CompleteDump
PROPERTY ServiceSpec

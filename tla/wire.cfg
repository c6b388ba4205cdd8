SPECIFICATION Spec
CONSTANTS
    a1 = a1
    a2 = a2
    NoAddress = NoAddress
    NoRequest = NoRequest
    NoEvent = NoEvent
    Buffer = 124
    Word = 256
    MaxMessages = 3
    KernelMessages <- Messages
    Readers <- AllReaders
    Indexes <- SmallIndexes
    Addresses <- TwoAddresses
CHECK_DEADLOCK FALSE
INVARIANT TypeOK
INVARIANT WalkInside
INVARIANT ReadsInside
INVARIANT AllParsed
INVARIANT RequestCarriesCall
PROPERTY WalkEnds

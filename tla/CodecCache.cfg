\* Two threads, three codecs: the vector grows through capacities 1, 2 and 4.
SPECIFICATION Spec
CONSTANTS
    t1 = t1
    t2 = t2
    h264 = h264
    h265 = h265
    av1 = av1
    caps1 = caps1
    caps2 = caps2
    Threads <- MCThreads
    Codecs <- MCCodecs
    Capabilities <- MCCapabilities
    MaxCalls = 2
    NoThread = NoThread
    NoAnswer = NoAnswer
    Failed = Failed
    Garbage = Garbage
INVARIANTS
    TypeOK
    OneEntryPerCodec
    PointerNamesCodec
PROPERTIES
    EntriesKept
    QueriesReturn
    ImplementsMemo
CHECK_DEADLOCK FALSE

\* Two threads, two query devices and an adopted one, one with calls nested three deep.
SPECIFICATION Spec
CONSTANTS
    t1 = t1
    t2 = t2
    one = one
    two = two
    lent = lent
    h264 = h264
    Threads <- MCThreads
    QueryDevices <- MCQueryDevices
    AdoptedDevices <- MCAdoptedDevices
    Codecs <- MCCodecs
    Loggers <- MCLoggers
    Habits <- MCHabits
    MaxCalls <- MCMaxCalls
    MaxDepth = 3
    MaxMessages = 1
    NoThread = NoThread
INVARIANTS
    TypeOK
    ProbesDoNotNest
    TableNeverWaits
    NoCircularWait
PROPERTIES
    CallsReturn
CHECK_DEADLOCK FALSE

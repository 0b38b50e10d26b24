\* Two threads, two drivers of up to two devices each.
SPECIFICATION Spec
CONSTANTS
    t1 = t1
    t2 = t2
    Threads <- MCThreads
    Registrations <- MCRegistrations
    MaxDevices = 2
    MaxCalls = 2
    MaxAdopted = 1
    NoThread = NoThread
    NoDevice = NoDevice
PROPERTY
    ContextKeptUntilFailure
CHECK_DEADLOCK FALSE

\* Machines of one and two devices, with and without video.
SPECIFICATION Spec
CONSTANTS
    Candidates <- MCCandidates
    Systems <- MCSystems
    Codecs <- MCCodecs
    MaxAttempts = 4
    MaxFaults = 3
    Null = Null
INVARIANTS
    TypeOK
    LibraryOutlivesInstance
    NothingLeftBehind
    ListedDevicesEncode
    PartialOnlyWhenSpent
PROPERTIES
    InitialiseEnds
CHECK_DEADLOCK FALSE

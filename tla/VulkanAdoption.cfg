\* Three physical devices; descriptors right and wrong in every check.
SPECIFICATION Spec
CONSTANTS
    PhysicalDevices <- MCPhysicalDevices
    Descriptors <- MCDescriptors
    Codecs <- MCCodecs
    NoFamily = NoFamily
    NoDevice = NoDevice
INVARIANTS
    TypeOK
    AdoptedHasQueue
    ReportsLent
    FamiliesWereWritten

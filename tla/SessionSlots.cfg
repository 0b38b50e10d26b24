SPECIFICATION Spec
CONSTANTS
    t1 = t1
    Threads <- MCThreads
    Codecs <- MCCodecs
    SlotCount = 8
    Word = 256
    DeviceCodecs <- MCProResCodecs
    Questions <- MCSlotless
    MaxOpens = 2
    NoSlot = NoSlot
INVARIANT
    CountsWhatIsAsked

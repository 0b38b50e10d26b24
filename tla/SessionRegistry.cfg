SPECIFICATION Spec
CONSTANTS
    t1 = t1
    Threads <- MCThreads
    Codecs <- MCCodecs
    SlotCount = 8
    Word = 256
    DeviceCodecs <- MCVulkanCodecs
    Questions <- MCQuestions
    MaxOpens = 3
    NoSlot = NoSlot
INVARIANTS
    TypeOK
    CountsMatchSessions
    AnswerInWindow

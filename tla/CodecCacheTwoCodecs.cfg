\* Two threads asking the same device about different codecs.
SPECIFICATION Spec
CONSTANTS
    t1 = t1
    t2 = t2
    h264 = h264
    h265 = h265
    av1 = av1
    caps1 = caps1
    caps2 = caps2
    Threads <- MCThreads
    Codecs <- MCCodecs
    Capabilities <- MCCapabilities
    MaxCalls = 2
    NoThread = NoThread
    NoAnswer = NoAnswer
    Failed = Failed
    Garbage = Garbage
INVARIANT
    AnswersAreCached
CHECK_DEADLOCK FALSE

\* One codec at a time; 256 stands for 2^32.
SPECIFICATION Spec
CONSTANTS
    Drivers <- MCDrivers
    Word = 256
    NoAnswer = NoAnswer
INVARIANTS
    MissesAreNamed
    FormatsDescribed
    LimitsHold
CHECK_DEADLOCK FALSE

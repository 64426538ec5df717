CONSTANTS
    Base = 3
    WordWidth = 2
    ImageLength = 4
    Modulus <- RadixModulus
    MemorySize <- RadixMemorySize
    MaxSteps = 9
    Programs <- Differences
SPECIFICATION Spec
INVARIANT RunsIdentical
CHECK_DEADLOCK FALSE

CONSTANTS
    Base = 3
    WordWidth = 2
    ImageLength = 4
    Modulus <- RadixModulus
    MemorySize <- RadixMemorySize
    MaxSteps = 9
    Programs <- CrossingImages
SPECIFICATION Spec
INVARIANT MachinesAgree
CHECK_DEADLOCK FALSE

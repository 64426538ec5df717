CONSTANTS
    Base = 2
    WordWidth = 3
    Balanced = FALSE
    Modulus <- RadixModulus
    MemorySize <- RadixMemorySize
    MaxSteps = 40
    Programs <- MCPrograms
SPECIFICATION Spec
INVARIANTS TypeOK StackPointerInMemory FlagsExclusive
PROPERTIES LimitReportedExactly FaultFootprint OnlyStoresDisturbCalls RunEnds
CHECK_DEADLOCK FALSE

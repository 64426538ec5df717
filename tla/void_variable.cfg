CONSTANTS
    Base = 3
    WordWidth = 5
    Balanced = FALSE
    Modulus <- RadixModulus
    MemorySize <- RadixMemorySize
    DataBase <- RadixDataBase
    BoolTrue <- RadixBoolTrue
    MaxSteps = 600
    Patience = 12
    Sources <- VoidVariable
    Programs = {}
SPECIFICATION SourceSpec
INVARIANT AcceptedCompiles
CHECK_DEADLOCK FALSE

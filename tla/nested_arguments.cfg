CONSTANTS
    Base = 3
    WordWidth = 5
    Balanced = FALSE
    Modulus <- RadixModulus
    MemorySize <- RadixMemorySize
    DataBase <- RadixDataBase
    BoolTrue <- RadixBoolTrue
    MaxSteps = 600
    Patience = 12
    Sources <- NestedArguments
    Programs = {}
SPECIFICATION SourceSpec
INVARIANT OutputAsWritten
CHECK_DEADLOCK FALSE

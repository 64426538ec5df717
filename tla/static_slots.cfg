CONSTANTS
    Base = 2
    WordWidth = 7
    Balanced = FALSE
    BodyLength = 1
    Modulus <- RadixModulus
    MemorySize <- RadixMemorySize
    DataBase <- RadixDataBase
    BoolTrue <- RadixBoolTrue
    MaxSteps = 120
    IRSources <- WideSources
    Programs <- Images
SPECIFICATION RunSpec
PROPERTY CallsReturn
CHECK_DEADLOCK FALSE

CONSTANTS
    Base = 3
    WordWidth = 5
    Balanced = TRUE
    BodyLength = 2
    Modulus <- RadixModulus
    MemorySize <- RadixMemorySize
    DataBase <- RadixDataBase
    BoolTrue <- RadixBoolTrue
    MaxSteps = 60
    IRSources <- MCSources
    Programs <- Images
SPECIFICATION RunSpec
PROPERTIES ImplementsIR CallsReturn
INVARIANTS NoCodeFault MemoryIsApart StaticAllocationIsSafe
CHECK_DEADLOCK FALSE

CONSTANTS
    Base = 3
    Radix = 3
    WordWidth = 5
    Balanced = FALSE
    Modulus <- RadixModulus
    MemorySize <- RadixMemorySize
    DataBase <- RadixDataBase
    BoolTrue <- RadixBoolTrue
    MaxSteps = 600
    Patience = 12
    Characters <- MCCharacters
    Letters <- MCLetters
    Texts <- MCTexts
    TokenLists <- MCTokenLists
    MaxLiteral <- MCMaxLiteral
    Sources <- MCSources
    Programs = {}
SPECIFICATION TextSpec
INVARIANTS MaximalMunch NothingLost ErrorsJustified ParsesTheGrammar
INVARIANTS OutputAsWritten EndsAsWritten AcceptedCompiles BoolsAreBoolean LoweredIsWellFormed
PROPERTY Terminates
CHECK_DEADLOCK FALSE

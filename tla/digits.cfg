CONSTANTS
    Base = 3
    WordWidth = 4
    Balanced = TRUE
    Modulus <- RadixModulus
    Numbers <- MCNumbers
    Texts <- MCTexts
    Decimals <- MCDecimals
SPECIFICATION Spec
INVARIANTS RoundTrip ReadByPosition NumeralsUnique
PROPERTY Terminates
CHECK_DEADLOCK FALSE

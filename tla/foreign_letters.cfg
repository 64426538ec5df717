CONSTANTS
    Base = 3
    WordWidth = 4
    Balanced = TRUE
    Modulus <- RadixModulus
    Numbers <- MCNumbers
    Texts <- MCTexts
    Decimals <- MCDecimals
SPECIFICATION Spec
INVARIANT OnlyDigitsAccepted
CHECK_DEADLOCK FALSE

\* Types of 2, 4 and 8 bits, texts of up to three characters and longer ones.
SPECIFICATION FairSpec
CONSTANTS
    Bits = 2
    MaxDigits = 3
    Scales <- MCScales
    Attributes <- MCAttributes
    Texts <- MCTexts
    Stale <- MCStale
    MaxLength = 3
    Chars = {"-", "1", ".", "e"}
INVARIANTS
    PrintedExactly
    LogKeepsValue
PROPERTIES
    DecomposesNumbers

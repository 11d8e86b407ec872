\* A file with an error before two without, named on the command line.
SPECIFICATION Spec
CONSTANTS
    Files <- MCFiles
    Runs <- MCAfterError
    Unlexable <- MCUnlexable
    Markup <- MCMarkup
INVARIANTS
    KeepsParsing

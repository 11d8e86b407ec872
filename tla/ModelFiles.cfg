\* Every selection of up to four model files, with and without options.
SPECIFICATION Spec
CONSTANTS
    Files <- MCFiles
    Runs <- MCRuns
    Unlexable <- MCUnlexable
    Markup <- MCMarkup
INVARIANTS
    TypeOK
    WhoWins
    IndexedIsReady
    StringsReachTheirModel
    ExportReloads

\* All forms of models, every length of the data up to twelve registers.
SPECIFICATION FairSpec
CONSTANTS
    Models <- MCAll
    MaxLen = 12
INVARIANTS
    TypeOK
    DecodedInPlace
    CompleteRecords
    WithinBlock
    EveryByteOnce
    ScaledByName
PROPERTIES
    Decodes

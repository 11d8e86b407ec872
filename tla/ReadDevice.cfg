\* Every device, two attempts per read: what is collected, refinement, liveness
\* and the inductive invariant of the proofs.
SPECIFICATION FairSpec
CONSTANTS
    Devices <- MCDevices
    KnownDids <- MCKnownDids
    Retries = 2
    MaxRead = 3
    RegsSize = 7
    MaxBlocks = 4
INVARIANTS
    TypeOK
    DatasetsFaithful
    DatasetsNumbered
    FailureHasCause
PROPERTIES
    DatasetsOnlyGrow
    AllOrNothing
    Terminates

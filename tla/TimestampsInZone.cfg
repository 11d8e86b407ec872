\* The host's time is not GMT.
SPECIFICATION Spec
CONSTANTS
    Times <- MCTimes
    HostZones <- MCHostZones
    Texts <- MCTexts
INVARIANTS
    GmtInstant

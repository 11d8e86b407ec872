\* Timestamps of the client and of other loggers, on hosts in three zones.
SPECIFICATION FairSpec
CONSTANTS
    Times <- MCTimes
    HostZones <- MCHostZones
    Texts <- MCTexts
INVARIANTS
    InstantKept
PROPERTIES
    Rfc3339Accepted

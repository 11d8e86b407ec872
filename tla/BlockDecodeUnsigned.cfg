\* A uint32 point with a scale factor.
SPECIFICATION Spec
CONSTANTS
    Models <- MCUnsigned
    MaxLen = 3
INVARIANTS
    UnsignedScaled

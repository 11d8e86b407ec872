\* Up to two devices of up to two datasets with up to two values.
SPECIFICATION Spec
CONSTANTS
    Uploads <- MCUploads
    MaxDevices = 2
    MaxDatasets = 2
INVARIANTS
    TypeOK
    NoOrphans
    ReportsTrue
PROPERTIES
    OneDeviceAtATime
    InOneStepEach

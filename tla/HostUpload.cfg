\* Every upload of up to three devices.
SPECIFICATION FairSpec
CONSTANTS
    Uploads <- MCUploads
    MaxDevices = 3
INVARIANTS
    TypeOK
    EveryDeviceDecided
    DevicesComplete
    ResponseHonest
PROPERTIES
    Ends

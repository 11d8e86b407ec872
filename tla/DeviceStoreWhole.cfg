\* Is a device stored whole or not at all?
SPECIFICATION Spec
CONSTANTS
    Uploads <- MCUploads
    MaxDevices = 1
    MaxDatasets = 1
INVARIANTS
    StoredWhole

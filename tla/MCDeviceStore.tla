--------------------------- MODULE MCDeviceStore ---------------------------
(***************************************************************************)
(* Uploads for model checking DeviceStore.                                 *)
(***************************************************************************)
EXTENDS DeviceStore

CONSTANTS
    MaxDevices,     \* devices in an upload
    MaxDatasets     \* datasets of a device

Kinds == {[indexed |-> FALSE, values |-> n] : n \in 0 .. 2}
           \union {[indexed |-> TRUE, values |-> 1]}

Upto(n, T) == UNION {[1 .. k -> T] : k \in 0 .. n}

MCUploads == Upto(MaxDevices, Upto(MaxDatasets, Kinds))
=============================================================================

---------------------------- MODULE DeviceStore ----------------------------
(***************************************************************************)
(* Storing the devices of an upload in SQLite: the loop of                 *)
(* suns_host_test.c over suns_output_sqlite_device() and the functions     *)
(* that insert its rows.                                                   *)
(*                                                                         *)
(* One action is one SQL statement with the code up to the next.  Every    *)
(* statement may fail, and a failure may make SQLite roll the transaction  *)
(* back on its own (disk full, I/O error, busy).  The process may die at   *)
(* any time; an open transaction is then undone when the database is next  *)
(* opened.                                                                 *)
(***************************************************************************)
EXTENDS Integers, Sequences

CONSTANT Uploads    \* sequences of devices that may have to be stored

\* A device is the sequence of its datasets; a dataset has a number of values,
\* and an index if it is one of several of its model.
Dataset == [indexed : BOOLEAN, values : Nat]

ASSUME UploadsAssumption == Uploads \subseteq Seq(Seq(Dataset))

VARIABLES
    devices,    \* the devices to store; never changes
    pc,         \* "begin", "device_row", "dataset_row", "value", "end",
                \* "closed", "crashed"
    d, s, v,    \* the device, dataset and value each loop is at
    in_txn,     \* SQLite: a transaction is open
    journal,    \* SQLite: the rows inserted in it
    db,         \* SQLite: the rows committed
    rc,         \* rc of suns_output_sqlite_device()
    reported,   \* the rc returned for each device so far
    failed      \* history: some statement failed

cursors == <<d, s, v>>
sqlite  == <<in_txn, journal, db>>
vars == <<devices, pc, cursors, sqlite, rc, reported, failed>>

Datasets == devices[d]

\* The tables device, dataset and value; a row refers to its parent by rowid.
DeviceRow(n)         == <<"device", n>>
DatasetRow(n, k)     == <<"dataset", n, k>>
ValueRow(n, k, j)    == <<"value", n, k, j>>

Init ==
    /\ devices \in Uploads
    /\ pc = "begin"
    /\ d = 1 /\ s = 1 /\ v = 1
    /\ in_txn = FALSE
    /\ journal = {}
    /\ db = {}
    /\ rc = 0
    /\ reported = <<>>
    /\ failed = FALSE

-----------------------------------------------------------------------------
\* What SQLite does with a statement

\* Outside a transaction an insert is its own transaction.
Inserted(row) ==
    /\ IF in_txn THEN journal' = journal \union {row} /\ UNCHANGED db
                 ELSE db' = db \union {row} /\ UNCHANGED journal
    /\ UNCHANGED <<in_txn, failed>>

\* A statement fails, and with it perhaps the transaction.
StatementFails ==
    /\ \/ UNCHANGED <<in_txn, journal>>
       \/ in_txn' = FALSE /\ journal' = {}
    /\ failed' = TRUE
    /\ UNCHANGED db

-----------------------------------------------------------------------------
\* suns_output_sqlite_device()

\* It returns; the caller notes the code and goes on to the next device.
ReturnDevice(code) ==
    /\ reported' = Append(reported, code)
    /\ d' = d + 1
    /\ rc' = 0
    /\ pc' = "begin"
    /\ UNCHANGED <<devices, s, v>>

AtDevice == pc = "begin" /\ d <= Len(devices)

Begin ==
    /\ AtDevice
    /\ ~in_txn
    /\ in_txn' = TRUE
    /\ pc' = "device_row"
    /\ UNCHANGED <<devices, cursors, journal, db, rc, reported, failed>>

\* Slip: a transaction that is still open is taken for one's own.
BeginFails_Unnoticed ==
    /\ AtDevice
    /\ in_txn
    /\ pc' = "device_row"
    /\ UNCHANGED <<devices, cursors, sqlite, rc, reported, failed>>

\* BEGIN fails, and always while an earlier device's transaction is open.
BeginFails ==
    /\ AtDevice
    /\ failed' = TRUE
    /\ ReturnDevice(-1)
    /\ UNCHANGED sqlite

InsertDevice ==
    /\ pc = "device_row"
    /\ Inserted(DeviceRow(d))
    /\ s' = 1
    /\ pc' = IF Len(Datasets) = 0 THEN "end" ELSE "dataset_row"
    /\ UNCHANGED <<devices, d, v, rc, reported>>

\* Straight to the end of the function, past END TRANSACTION.  (The statement
\* there has been finalized before; what that does, if it does not go
\* unnoticed, is a Crash.)
InsertDeviceFails ==
    /\ pc = "device_row"
    /\ StatementFails
    /\ ReturnDevice(-1)

\* Slip: one dataset too many.
NextDataset_OneMore ==
    /\ s' = s + 1
    /\ pc' = IF s <= Len(Datasets) THEN "dataset_row" ELSE "end"
    /\ UNCHANGED <<devices, d, rc, reported>>

\* On to the next dataset, or to END TRANSACTION.
NextDataset ==
    /\ s' = s + 1
    /\ pc' = IF s < Len(Datasets) THEN "dataset_row" ELSE "end"
    /\ UNCHANGED <<devices, d, rc, reported>>

\* An index is bound as if it were a string: a dataset that has one takes the
\* process down.
InsertDataset ==
    /\ pc = "dataset_row"
    /\ ~Datasets[s].indexed
    /\ Inserted(DatasetRow(d, s))
    /\ v' = 1
    /\ IF Datasets[s].values = 0 THEN NextDataset
       ELSE pc' = "value" /\ UNCHANGED <<devices, d, s, rc, reported>>

BindIndex ==
    /\ pc = "dataset_row"
    /\ Datasets[s].indexed
    /\ pc' = "crashed"
    /\ in_txn' = FALSE
    /\ journal' = {}
    /\ UNCHANGED <<devices, cursors, db, rc, reported, failed>>

InsertValue ==
    /\ pc = "value"
    /\ Inserted(ValueRow(d, s, v))
    /\ v' = v + 1
    /\ IF v < Datasets[s].values
       THEN UNCHANGED <<devices, pc, d, s, rc, reported>>
       ELSE NextDataset

\* Slip: on to the next dataset after a failure.
InsertFails_GoesOn ==
    /\ pc \in {"dataset_row", "value"}
    /\ StatementFails
    /\ rc' = -1
    /\ s' = s + 1
    /\ pc' = IF s < Len(Datasets) THEN "dataset_row" ELSE "end"
    /\ UNCHANGED <<devices, d, v, reported>>

\* Slip: the code of the failure is lost.
InsertFails_Forgotten ==
    /\ pc \in {"dataset_row", "value"}
    /\ StatementFails
    /\ pc' = "end"
    /\ UNCHANGED <<devices, cursors, rc, reported>>

\* A dataset or value fails: out of the loops, to END TRANSACTION.
InsertFails ==
    /\ pc \in {"dataset_row", "value"}
    /\ StatementFails
    /\ rc' = -1
    /\ pc' = "end"
    /\ UNCHANGED <<devices, cursors, reported>>

\* Whatever was inserted is committed.
End ==
    /\ pc = "end"
    /\ in_txn
    /\ db' = db \union journal
    /\ journal' = {}
    /\ in_txn' = FALSE
    /\ ReturnDevice(rc)
    /\ UNCHANGED failed

\* Slip: what END returns is not looked at.
EndFails_Unnoticed ==
    /\ pc = "end"
    /\ StatementFails
    /\ ReturnDevice(rc)

\* END fails, and always after SQLite has rolled back.
EndFails ==
    /\ pc = "end"
    /\ StatementFails
    /\ ReturnDevice(-1)

\* suns_output_sqlite_close(): an open transaction is rolled back.
Close ==
    /\ pc = "begin"
    /\ d > Len(devices)
    /\ pc' = "closed"
    /\ in_txn' = FALSE
    /\ journal' = {}
    /\ UNCHANGED <<devices, cursors, db, rc, reported, failed>>

Crash ==
    /\ pc \notin {"closed", "crashed"}
    /\ pc' = "crashed"
    /\ in_txn' = FALSE
    /\ journal' = {}
    /\ UNCHANGED <<devices, cursors, db, rc, reported, failed>>

Terminated == pc \in {"closed", "crashed"} /\ UNCHANGED vars

Next ==
    \/ Begin \/ BeginFails
    \/ InsertDevice \/ InsertDeviceFails
    \/ InsertDataset \/ BindIndex \/ InsertValue \/ InsertFails
    \/ End \/ EndFails \/ Close
    \/ Crash \/ Terminated

Spec == Init /\ [][Next]_vars

-----------------------------------------------------------------------------
\* The rows of a device, and the order in which they are written

RowsOf(n) ==
    {DeviceRow(n)}
    \union {DatasetRow(n, k) : k \in 1 .. Len(devices[n])}
    \union UNION {{ValueRow(n, k, j) : j \in 1 .. devices[n][k].values} :
                     k \in 1 .. Len(devices[n])}

\* Of two rows of a device, the one that is written first.
Precedes(r, row) ==
    /\ row[1] # "device"
    /\ \/ r[1] = "device"
       \/ r[3] < row[3]
       \/ r[1] = "dataset" /\ row[1] = "value" /\ r[3] = row[3]
       \/ r[1] = "value" /\ row[1] = "value" /\ r[3] = row[3] /\ r[4] < row[4]

\* Rows that are written before a row.
Before(row) == {r \in RowsOf(row[2]) : Precedes(r, row)}

TypeOK ==
    /\ pc \in {"begin", "device_row", "dataset_row", "value", "end", "closed",
               "crashed"}
    /\ d \in 1 .. Len(devices) + 1
    /\ pc \in {"dataset_row", "value"} => s \in 1 .. Len(Datasets)
    /\ pc = "value" => v \in 1 .. Datasets[s].values
    /\ in_txn \in BOOLEAN
    /\ \A row \in journal \union db : row \in RowsOf(row[2])
    /\ ~in_txn => journal = {}
    /\ rc \in {-1, 0}
    /\ Len(reported) = d - 1
    /\ failed \in BOOLEAN

-----------------------------------------------------------------------------
\* Properties

\* No committed row lacks its dataset, its device or any row written before
\* it, whatever fails, whatever SQLite rolls back and whenever the process
\* dies: rows refer to their parents by rowid, and nothing else links them.
NoOrphans == \A row \in db : Before(row) \subseteq db

\* A device reported as stored is stored, for good; and as long as nothing
\* fails all devices passed are.
ReportsTrue ==
    \A n \in 1 .. Len(reported) :
       /\ reported[n] = 0 => RowsOf(n) \subseteq db
       /\ ~failed => reported[n] = 0

\* A step commits rows of one device at most, the one that is being stored,
\* and never adds to a device committed before: a transaction left open by a
\* failure does not leak into the next device's.
OneDeviceAtATime ==
    [][\A row \in db' \ db :
          /\ row[2] = d
          /\ db \intersect RowsOf(d) = {}
          /\ pc = "end"]_vars

Devices == INSTANCE StoredDevices WITH
    rows   <- [n \in 1 .. Len(devices) |-> RowsOf(n)],
    stored <- [n \in 1 .. Len(devices) |-> RowsOf(n) \intersect db],
    open   <- pc \notin {"closed", "crashed"}

\* The store implements StoredDevices: each device gets its rows up to some
\* point in one step, all of them where success is reported, and no later step
\* touches them.
InOneStepEach == Devices!Spec

-----------------------------------------------------------------------------
\* "all of the inserts need to be performed as a single transaction [...] its
\* also the right thing to do to maintain consistency" (suns_output_sqlite.c):
\* a device is stored whole or not at all.
StoredWhole ==
    \A n \in 1 .. Len(devices) :
       RowsOf(n) \subseteq db \/ RowsOf(n) \intersect db = {}
=============================================================================

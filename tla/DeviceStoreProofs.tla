-------------------------- MODULE DeviceStoreProofs --------------------------
(***************************************************************************)
(* What holds of DeviceStore for all uploads.  The argument: while a       *)
(* device is being stored the journal holds exactly its rows before the    *)
(* cursor, and nothing is inserted outside a transaction; a transaction    *)
(* that is left open is never committed, for no BEGIN succeeds behind it.  *)
(***************************************************************************)
EXTENDS DeviceStore, TLAPS

Storing == {"device_row", "dataset_row", "value", "end"}

\* The rows of device d before dataset k, and before value j of it.
RowsBefore(k) == {r \in RowsOf(d) : r[1] = "device" \/ r[3] < k}
RowsBeforeValue(k, j) ==
    {r \in RowsOf(d) : \/ r[1] = "device"
                       \/ r[3] < k
                       \/ r[3] = k /\ (r[1] = "dataset" \/ r[4] < j)}

\* Whatever is in a set of rows has all its predecessors there.
Closed(rows) == \A row \in rows : Before(row) \subseteq rows

CursorInv ==
    /\ devices \in Uploads
    /\ pc \in Storing \union {"begin", "closed", "crashed"}
    /\ d \in 1 .. Len(devices) + 1 /\ s \in Nat /\ v \in Nat
    /\ pc \in Storing => d <= Len(devices)
    /\ pc \in {"dataset_row", "value"} => s \in 1 .. Len(devices[d])
    /\ pc = "value" => v \in 1 .. devices[d][s].values

\* A transaction is open while rows are inserted.
TransactionInv ==
    /\ in_txn \in BOOLEAN
    /\ ~in_txn => journal = {}
    /\ pc \in Storing \ {"end"} => in_txn

JournalInv ==
    /\ pc = "device_row" => journal = {}
    /\ pc = "dataset_row" => journal = RowsBefore(s)
    /\ pc = "value" => journal = RowsBeforeValue(s, v)
    /\ pc = "end" => /\ journal \subseteq RowsOf(d) /\ Closed(journal)
                     /\ rc = 0 => journal = RowsOf(d)
    /\ \A row \in journal : row \in RowsOf(row[2])

\* What is committed belongs to devices that are done with.
CommittedInv ==
    /\ \A row \in db : row \in RowsOf(row[2]) /\ row[2] \in Nat /\ row[2] < d
    /\ Closed(db)

ReportInv ==
    /\ reported \in Seq({-1, 0}) /\ Len(reported) = d - 1
    /\ rc \in {-1, 0} /\ failed \in BOOLEAN
    /\ pc \notin {"end", "crashed"} => rc = 0
    /\ ~failed => rc = 0
    /\ \A n \in 1 .. Len(reported) :
          /\ reported[n] = 0 => RowsOf(n) \subseteq db
          /\ ~failed => reported[n] = 0

IInv == CursorInv /\ TransactionInv /\ JournalInv /\ CommittedInv /\ ReportInv

-----------------------------------------------------------------------------
\* Rows

\* A row is one of three.
LEMMA RowForms ==
    ASSUME NEW n, NEW r
    PROVE  r \in RowsOf(n) <=>
             \/ r = DeviceRow(n)
             \/ \E k \in 1 .. Len(devices[n]) : r = DatasetRow(n, k)
             \/ \E k \in 1 .. Len(devices[n]) :
                   \E j \in 1 .. devices[n][k].values : r = ValueRow(n, k, j)
  BY DEF RowsOf

LEMMA RowFields ==
    /\ \A n : DeviceRow(n)[1] = "device" /\ DeviceRow(n)[2] = n
    /\ \A n, k : /\ DatasetRow(n, k)[1] = "dataset" /\ DatasetRow(n, k)[2] = n
                 /\ DatasetRow(n, k)[3] = k
    /\ \A n, k, j : /\ ValueRow(n, k, j)[1] = "value" /\ ValueRow(n, k, j)[2] = n
                    /\ ValueRow(n, k, j)[3] = k /\ ValueRow(n, k, j)[4] = j
  BY DEF DeviceRow, DatasetRow, ValueRow

\* The shape of an upload.
LEMMA UploadFacts ==
    ASSUME devices \in Uploads
    PROVE  /\ Len(devices) \in Nat
           /\ \A n \in 1 .. Len(devices) :
                /\ Len(devices[n]) \in Nat
                /\ \A k \in 1 .. Len(devices[n]) :
                     /\ devices[n][k].values \in Nat
                     /\ devices[n][k].indexed \in BOOLEAN
<1>1. devices \in Seq(Seq(Dataset))
  BY UploadsAssumption
<1>2. ASSUME NEW n \in 1 .. Len(devices)
      PROVE  /\ Len(devices[n]) \in Nat
             /\ \A k \in 1 .. Len(devices[n]) :
                   devices[n][k].values \in Nat /\ devices[n][k].indexed \in BOOLEAN
  <2>1. devices[n] \in Seq(Dataset)
    BY <1>1
  <2>2. ASSUME NEW k \in 1 .. Len(devices[n])
        PROVE  devices[n][k].values \in Nat /\ devices[n][k].indexed \in BOOLEAN
    <3>1. devices[n][k] \in Dataset
      BY <2>1
    <3> QED
      BY <3>1 DEF Dataset
  <2> QED
    BY <2>1, <2>2
<1> QED
  BY <1>1, <1>2

-----------------------------------------------------------------------------
\* Sets of rows

LEMMA EmptyClosed == Closed({})
  BY DEF Closed

LEMMA UnionClosed ==
    ASSUME NEW A, NEW B, Closed(A), Closed(B)
    PROVE  Closed(A \union B)
  BY DEF Closed

\* The predecessors of a row of a device.
LEMMA BeforeFacts ==
    ASSUME NEW n, NEW row \in RowsOf(n)
    PROVE  /\ row[2] = n
           /\ row[1] = "device" => Before(row) = {}
           /\ row[1] # "device" => Before(row) =
                {r \in RowsOf(n) :
                   \/ r[1] = "device"
                   \/ r[3] < row[3]
                   \/ r[1] = "dataset" /\ row[1] = "value" /\ r[3] = row[3]
                   \/ r[1] = "value" /\ row[1] = "value" /\ r[3] = row[3] /\ r[4] < row[4]}
<1>1. row[2] = n
  BY RowForms, RowFields
<1> QED
  BY <1>1 DEF Before, Precedes

LEMMA RowTypes ==
    ASSUME devices \in Uploads, NEW n \in 1 .. Len(devices), NEW row \in RowsOf(n)
    PROVE  /\ row[1] \in {"device", "dataset", "value"}
           /\ row[1] # "device" => row[3] \in 1 .. Len(devices[n])
           /\ row[1] = "value" => row[4] \in 1 .. devices[n][row[3]].values
           /\ row[1] = "device" => row = DeviceRow(n)
           /\ row[1] = "dataset" => row = DatasetRow(n, row[3])
           /\ row[1] = "value" => row = ValueRow(n, row[3], row[4])
<1>1. CASE row = DeviceRow(n)
  BY <1>1, RowFields
<1>2. ASSUME NEW k \in 1 .. Len(devices[n]), row = DatasetRow(n, k)
      PROVE  row[1] = "dataset" /\ row[3] = k
  BY <1>2, RowFields
<1>3. ASSUME NEW k \in 1 .. Len(devices[n]), NEW j \in 1 .. devices[n][k].values,
             row = ValueRow(n, k, j)
      PROVE  row[1] = "value" /\ row[3] = k /\ row[4] = j
  BY <1>3, RowFields
<1> QED
  BY <1>1, <1>2, <1>3, RowForms

\* The rows up to a place are closed.
LEMMA PrefixClosed ==
    ASSUME devices \in Uploads, d \in 1 .. Len(devices), NEW k \in Nat, NEW j \in Nat
    PROVE  /\ Closed(RowsOf(d))
           /\ Closed(RowsBefore(k))
           /\ Closed(RowsBeforeValue(k, j))
<1>1. \A n \in 1 .. Len(devices) : Len(devices[n]) \in Nat
  BY UploadFacts
<1>2. \A i \in 1 .. Len(devices[d]) : devices[d][i].values \in Nat
  BY UploadFacts
<1>3. \A row \in RowsOf(d) :
         /\ row[1] \in {"device", "dataset", "value"}
         /\ row[1] # "device" => row[3] \in Nat
         /\ row[1] = "value" => row[4] \in Nat
  <2> TAKE row \in RowsOf(d)
  <2>1. /\ row[1] \in {"device", "dataset", "value"}
        /\ row[1] # "device" => row[3] \in 1 .. Len(devices[d])
        /\ row[1] = "value" => row[4] \in 1 .. devices[d][row[3]].values
    BY RowTypes
  <2> QED
    BY <2>1, <1>1, <1>2
<1>4. Closed(RowsOf(d))
  BY BeforeFacts DEF Closed
<1>5. Closed(RowsBefore(k))
  BY <1>3, BeforeFacts DEF Closed, RowsBefore
<1>6. Closed(RowsBeforeValue(k, j))
  BY <1>3, BeforeFacts DEF Closed, RowsBeforeValue
<1> QED
  BY <1>4, <1>5, <1>6

\* How the rows before the cursor grow with it.
LEMMA NextRow ==
    ASSUME devices \in Uploads, d \in 1 .. Len(devices)
    PROVE  /\ RowsBefore(1) = {DeviceRow(d)}
           /\ RowsBefore(Len(devices[d]) + 1) = RowsOf(d)
           /\ \A k \in 1 .. Len(devices[d]) :
                /\ RowsBeforeValue(k, 1) = RowsBefore(k) \union {DatasetRow(d, k)}
                /\ \A j \in 1 .. devices[d][k].values :
                     RowsBeforeValue(k, j + 1) = RowsBeforeValue(k, j) \union {ValueRow(d, k, j)}
                /\ RowsBeforeValue(k, devices[d][k].values + 1) = RowsBefore(k + 1)
<1>1. /\ Len(devices[d]) \in Nat
      /\ \A i \in 1 .. Len(devices[d]) : devices[d][i].values \in Nat
  BY UploadFacts
<1>2. \A row \in RowsOf(d) :
           /\ row[1] \in {"device", "dataset", "value"}
           /\ row[1] # "device" => row[3] \in 1 .. Len(devices[d])
           /\ row[1] = "value" => row[4] \in 1 .. devices[d][row[3]].values
           /\ row[1] = "device" => row = DeviceRow(d)
           /\ row[1] = "dataset" => row = DatasetRow(d, row[3])
           /\ row[1] = "value" => row = ValueRow(d, row[3], row[4])
  BY RowTypes
<1>3. /\ DeviceRow(d) \in RowsOf(d)
      /\ \A k \in 1 .. Len(devices[d]) :
            /\ DatasetRow(d, k) \in RowsOf(d)
            /\ \A j \in 1 .. devices[d][k].values : ValueRow(d, k, j) \in RowsOf(d)
  BY RowForms
<1>4. RowsBefore(1) = {DeviceRow(d)}
  BY <1>1, <1>2, <1>3, RowFields DEF RowsBefore
<1>5. RowsBefore(Len(devices[d]) + 1) = RowsOf(d)
  BY <1>1, <1>2 DEF RowsBefore
<1>6. ASSUME NEW k \in 1 .. Len(devices[d])
      PROVE  RowsBeforeValue(k, 1) = RowsBefore(k) \union {DatasetRow(d, k)}
  <2>1. ASSUME NEW r \in RowsBeforeValue(k, 1), r \notin RowsBefore(k)
        PROVE  r = DatasetRow(d, k)
    BY <1>1, <1>2, <2>1 DEF RowsBefore, RowsBeforeValue
  <2>2. RowsBefore(k) \subseteq RowsBeforeValue(k, 1)
    BY DEF RowsBefore, RowsBeforeValue
  <2>3. DatasetRow(d, k) \in RowsBeforeValue(k, 1)
    BY <1>3, RowFields DEF RowsBeforeValue
  <2> QED
    BY <2>1, <2>2, <2>3
<1>7. ASSUME NEW k \in 1 .. Len(devices[d]), NEW j \in 1 .. devices[d][k].values
      PROVE  RowsBeforeValue(k, j + 1) = RowsBeforeValue(k, j) \union {ValueRow(d, k, j)}
  BY <1>1, <1>2, <1>3, RowFields DEF RowsBeforeValue
<1>8. ASSUME NEW k \in 1 .. Len(devices[d])
      PROVE  RowsBeforeValue(k, devices[d][k].values + 1) = RowsBefore(k + 1)
  BY <1>1, <1>2 DEF RowsBefore, RowsBeforeValue
<1> QED
  BY <1>4, <1>5, <1>6, <1>7, <1>8

-----------------------------------------------------------------------------
\* Steps

\* The rows of a device do not change, for the devices do not.
LEMMA RowsUnchanged ==
    ASSUME devices' = devices
    PROVE  /\ \A n : RowsOf(n)' = RowsOf(n)
           /\ \A row : Before(row)' = Before(row)
           /\ \A rows : Closed(rows)' <=> Closed(rows)
           /\ d' = d => /\ \A k : RowsBefore(k)' = RowsBefore(k)
                        /\ \A k, j : RowsBeforeValue(k, j)' = RowsBeforeValue(k, j)
<1>1. \A n : RowsOf(n)' = RowsOf(n)
  BY DEF RowsOf
<1>2. \A row : Before(row)' = Before(row)
  BY <1>1 DEF Before
<1>3. \A rows : Closed(rows)' <=> Closed(rows)
  BY <1>2 DEF Closed
<1>4. d' = d => /\ \A k : RowsBefore(k)' = RowsBefore(k)
                /\ \A k, j : RowsBeforeValue(k, j)' = RowsBeforeValue(k, j)
  BY <1>1 DEF RowsBefore, RowsBeforeValue
<1> QED
  BY <1>1, <1>2, <1>3, <1>4

\* Storing a device begins with an open transaction and an empty journal.
LEMMA BeginStep ==
    ASSUME IInv, Begin
    PROVE  IInv'
<1>1. devices' = devices /\ d' = d
  BY DEF Begin, cursors
<1>2. CursorInv'
  BY UploadFacts DEF Begin, cursors, IInv, CursorInv, AtDevice, Storing
<1>3. TransactionInv'
  BY DEF Begin, IInv, TransactionInv, Storing
<1>4. JournalInv'
  BY DEF Begin, IInv, JournalInv, TransactionInv
<1>5. CommittedInv'
  BY <1>1, RowsUnchanged DEF Begin, IInv, CommittedInv
<1>6. ReportInv'
  BY <1>1, RowsUnchanged DEF Begin, IInv, ReportInv, AtDevice, Storing
<1> QED
  BY <1>2, <1>3, <1>4, <1>5, <1>6 DEF IInv

\* A device whose code is noted: the report stays true if the code is.
LEMMA ReturnStep ==
    ASSUME IInv, NEW code \in {-1, 0}, ReturnDevice(code),
           d <= Len(devices), failed' \in BOOLEAN, failed => failed',
           db \subseteq db',
           code = 0 => RowsOf(d) \subseteq db',
           ~failed' => code = 0
    PROVE  CursorInv' /\ ReportInv'
<1>1. devices' = devices /\ d' = d + 1 /\ pc' = "begin" /\ rc' = 0 /\ s' = s /\ v' = v
  BY DEF ReturnDevice
<1>2. Len(devices) \in Nat /\ d \in 1 .. Len(devices)
  BY UploadFacts DEF IInv, CursorInv
<1>3. CursorInv'
  BY <1>1, <1>2 DEF IInv, CursorInv, Storing
<1>4. /\ reported' = Append(reported, code)
      /\ reported \in Seq({-1, 0}) /\ Len(reported) = d - 1
  BY DEF ReturnDevice, IInv, ReportInv
<1>5. /\ reported' \in Seq({-1, 0}) /\ Len(reported') = d
      /\ \A n \in 1 .. d - 1 : reported'[n] = reported[n]
      /\ reported'[d] = code
  BY <1>2, <1>4
<1>6. ASSUME NEW n \in 1 .. Len(reported')
      PROVE  /\ reported'[n] = 0 => RowsOf(n) \subseteq db'
             /\ ~failed' => reported'[n] = 0
  <2>1. CASE n = d
    BY <2>1, <1>5
  <2>2. CASE n # d
    <3>1. n \in 1 .. Len(reported) /\ reported'[n] = reported[n]
      BY <2>2, <1>2, <1>4, <1>5
    <3> QED
      BY <3>1 DEF IInv, ReportInv
  <2> QED
    BY <2>1, <2>2
<1>7. ReportInv'
  BY <1>1, <1>2, <1>5, <1>6, RowsUnchanged DEF ReportInv
<1> QED
  BY <1>3, <1>7

\* The rows of a device are committed in the end only, all at once.
LEMMA CommittedUnchanged ==
    ASSUME IInv, devices' = devices, db' = db, d' \in {d, d + 1}
    PROVE  CommittedInv'
<1>1. d \in Nat
  BY UploadFacts DEF IInv, CursorInv
<1> QED
  BY <1>1, RowsUnchanged DEF IInv, CommittedInv

LEMMA BeginFailsStep ==
    ASSUME IInv, BeginFails
    PROVE  IInv'
<1>1. devices' = devices /\ d' = d + 1 /\ pc' = "begin" /\ db' = db
      /\ in_txn' = in_txn /\ journal' = journal
  BY DEF BeginFails, ReturnDevice, sqlite
<1>2. CursorInv' /\ ReportInv'
  <2>1. d <= Len(devices) /\ failed' = TRUE /\ ReturnDevice(-1)
    BY DEF BeginFails, AtDevice
  <2> QED
    BY <1>1, <2>1, ReturnStep
<1>3. TransactionInv'
  BY <1>1 DEF IInv, TransactionInv, Storing
<1>4. JournalInv'
  BY <1>1, RowsUnchanged DEF IInv, JournalInv
<1>5. CommittedInv'
  BY <1>1, CommittedUnchanged
<1> QED
  BY <1>2, <1>3, <1>4, <1>5 DEF IInv

\* Inserting a row: inside a transaction, always.
LEMMA InsertStep ==
    ASSUME IInv, NEW row, Inserted(row), pc \in Storing \ {"end"}
    PROVE  /\ in_txn /\ in_txn' = TRUE /\ failed' = failed
           /\ journal' = journal \union {row} /\ db' = db
  BY DEF Inserted, IInv, TransactionInv

LEMMA InsertDeviceStep ==
    ASSUME IInv, InsertDevice
    PROVE  IInv'
<1>1. /\ pc = "device_row" /\ s' = 1
      /\ pc' = IF Len(devices[d]) = 0 THEN "end" ELSE "dataset_row"
      /\ devices' = devices /\ d' = d /\ v' = v /\ rc' = rc /\ reported' = reported
      /\ Inserted(DeviceRow(d))
  BY DEF InsertDevice, Datasets
<1>2. /\ in_txn' = TRUE /\ failed' = failed
      /\ journal' = journal \union {DeviceRow(d)} /\ db' = db
  BY <1>1, InsertStep DEF Storing
<1>3. d \in 1 .. Len(devices) /\ Len(devices) \in Nat /\ Len(devices[d]) \in Nat
  BY <1>1, UploadFacts DEF IInv, CursorInv, Storing
<1>4. CursorInv'
  BY <1>1, <1>3 DEF IInv, CursorInv, Storing
<1>5. TransactionInv'
  BY <1>1, <1>2 DEF TransactionInv
<1>6. JournalInv'
  <2>1. journal' = RowsBefore(1)
    BY <1>1, <1>2, <1>3, NextRow DEF IInv, JournalInv, CursorInv
  <2>2. Len(devices[d]) = 0 => journal' = RowsOf(d)
    BY <2>1, <1>3, NextRow DEF IInv, CursorInv
  <2>3. journal' \subseteq RowsOf(d) /\ Closed(journal')
    BY <2>1, <1>3, PrefixClosed DEF IInv, CursorInv, RowsBefore
  <2>4. \A row \in journal' : row \in RowsOf(row[2])
    BY <2>3, BeforeFacts
  <2>5. \A r : /\ RowsOf(r)' = RowsOf(r) /\ RowsBefore(r)' = RowsBefore(r)
               /\ Closed(r)' <=> Closed(r)
    BY <1>1, RowsUnchanged
  <2> QED
    BY <1>1, <2>1, <2>2, <2>3, <2>4, <2>5 DEF JournalInv, Closed
<1>7. CommittedInv'
  BY <1>1, <1>2, CommittedUnchanged
<1>8. ReportInv'
  BY <1>1, <1>2, RowsUnchanged DEF IInv, ReportInv
<1> QED
  BY <1>4, <1>5, <1>6, <1>7, <1>8 DEF IInv

\* A statement that fails commits nothing, and adds nothing to the journal.
LEMMA FailureFacts ==
    ASSUME IInv, StatementFails
    PROVE  /\ db' = db /\ failed' = TRUE
           /\ in_txn' \in BOOLEAN /\ ~in_txn' => journal' = {}
           /\ journal' = journal \/ journal' = {}
  BY DEF StatementFails, IInv, TransactionInv

LEMMA FailureKeepsTransaction ==
    ASSUME IInv, StatementFails, pc' \in {"begin", "end"}
    PROVE  TransactionInv'
<1>1. pc' \notin Storing \ {"end"}
  BY DEF Storing
<1>2. CASE UNCHANGED <<in_txn, journal>>
  BY <1>1, <1>2 DEF IInv, TransactionInv
<1>3. CASE in_txn' = FALSE /\ journal' = {}
  BY <1>1, <1>3 DEF TransactionInv
<1> QED
  BY <1>2, <1>3 DEF StatementFails

LEMMA InsertDeviceFailsStep ==
    ASSUME IInv, InsertDeviceFails
    PROVE  IInv'
<1>1. /\ pc = "device_row" /\ devices' = devices /\ d' = d + 1 /\ pc' = "begin"
      /\ StatementFails /\ ReturnDevice(-1)
  BY DEF InsertDeviceFails, ReturnDevice
<1>2. CursorInv' /\ ReportInv'
  <2>1. d <= Len(devices) /\ failed' = TRUE /\ db' = db
    BY <1>1, FailureFacts DEF IInv, CursorInv, Storing
  <2> QED
    BY <1>1, <2>1, ReturnStep
<1>3. TransactionInv'
  BY <1>1, FailureKeepsTransaction
<1>4. JournalInv'
  BY <1>1, FailureFacts, RowsUnchanged DEF IInv, JournalInv
<1>5. CommittedInv'
  BY <1>1, FailureFacts, CommittedUnchanged
<1> QED
  BY <1>2, <1>3, <1>4, <1>5 DEF IInv

\* With all rows of a dataset in the journal the next dataset begins, or the
\* end of the device.
LEMMA NextDatasetStep ==
    ASSUME IInv, NextDataset, pc \in {"dataset_row", "value"}, v' \in Nat,
           in_txn' = TRUE, failed' = failed, db' = db, journal' = RowsBefore(s + 1)
    PROVE  IInv'
<1>1. /\ devices' = devices /\ d' = d /\ rc' = rc /\ reported' = reported /\ s' = s + 1
      /\ pc' = IF s < Len(devices[d]) THEN "dataset_row" ELSE "end"
  BY DEF NextDataset, Datasets
<1>2. /\ d \in 1 .. Len(devices) /\ Len(devices) \in Nat
      /\ Len(devices[d]) \in Nat /\ s \in 1 .. Len(devices[d])
  BY UploadFacts DEF IInv, CursorInv, Storing
<1>3. CursorInv'
  BY <1>1, <1>2 DEF IInv, CursorInv, Storing
<1>4. TransactionInv'
  BY DEF TransactionInv
<1>5. JournalInv'
  <2>1. pc' = "end" => journal' = RowsOf(d)
    <3>1. pc' = "end" => s + 1 = Len(devices[d]) + 1
      BY <1>1, <1>2
    <3> QED
      BY <3>1, <1>2, NextRow DEF IInv, CursorInv
  <2>2. journal' \subseteq RowsOf(d) /\ Closed(journal')
    BY <1>2, PrefixClosed DEF IInv, CursorInv, RowsBefore
  <2>3. \A row \in journal' : row \in RowsOf(row[2])
    BY <2>2, BeforeFacts
  <2>4. \A r : /\ RowsOf(r)' = RowsOf(r) /\ RowsBefore(r)' = RowsBefore(r)
               /\ Closed(r)' <=> Closed(r)
    BY <1>1, RowsUnchanged
  <2> QED
    BY <1>1, <2>1, <2>2, <2>3, <2>4 DEF JournalInv, Closed
<1>6. CommittedInv'
  BY <1>1, CommittedUnchanged
<1>7. ReportInv'
  BY <1>1, RowsUnchanged DEF IInv, ReportInv
<1> QED
  BY <1>3, <1>4, <1>5, <1>6, <1>7 DEF IInv

\* The cursor moves to a value of the dataset.
LEMMA AtValueStep ==
    ASSUME IInv, pc \in {"dataset_row", "value"}, pc' = "value",
           UNCHANGED <<devices, d, s, rc, reported>>,
           v' \in 1 .. devices[d][s].values,
           in_txn' = TRUE, failed' = failed, db' = db,
           journal' = RowsBeforeValue(s, v')
    PROVE  IInv'
<1>1. /\ d \in 1 .. Len(devices) /\ Len(devices) \in Nat
      /\ Len(devices[d]) \in Nat /\ s \in 1 .. Len(devices[d])
      /\ devices[d][s].values \in Nat
  BY UploadFacts DEF IInv, CursorInv, Storing
<1>2. CursorInv'
  BY <1>1 DEF IInv, CursorInv, Storing
<1>3. TransactionInv'
  BY DEF TransactionInv
<1>4. JournalInv'
  <2>1. journal' \subseteq RowsOf(d)
    BY DEF RowsBeforeValue
  <2>2. \A row \in journal' : row \in RowsOf(row[2])
    BY <2>1, BeforeFacts
  <2>3. /\ \A r : RowsOf(r)' = RowsOf(r)
        /\ \A k, j : RowsBeforeValue(k, j)' = RowsBeforeValue(k, j)
    BY RowsUnchanged
  <2>4. journal' = RowsBeforeValue(s, v)'
    BY <2>1 DEF RowsBeforeValue, RowsOf
  <2> QED
    BY <2>2, <2>3, <2>4 DEF JournalInv
<1>5. CommittedInv'
  BY CommittedUnchanged
<1>6. ReportInv'
  BY RowsUnchanged DEF IInv, ReportInv
<1> QED
  BY <1>2, <1>3, <1>4, <1>5, <1>6 DEF IInv

LEMMA InsertDatasetStep ==
    ASSUME IInv, InsertDataset
    PROVE  IInv'
<1>1. pc = "dataset_row" /\ Inserted(DatasetRow(d, s)) /\ v' = 1
  BY DEF InsertDataset
<1>2. /\ in_txn' = TRUE /\ failed' = failed /\ db' = db
      /\ journal' = journal \union {DatasetRow(d, s)}
  BY <1>1, InsertStep DEF Storing
<1>3. /\ d \in 1 .. Len(devices) /\ s \in 1 .. Len(devices[d])
      /\ devices[d][s].values \in Nat /\ devices \in Uploads
  BY <1>1, UploadFacts DEF IInv, CursorInv, Storing
<1>4. journal' = RowsBeforeValue(s, 1)
  BY <1>1, <1>2, <1>3, NextRow DEF IInv, JournalInv
<1>5. CASE devices[d][s].values = 0
  <2>1. NextDataset
    BY <1>5 DEF InsertDataset, Datasets
  <2>2. RowsBeforeValue(s, devices[d][s].values + 1) = RowsBefore(s + 1)
    BY <1>3, NextRow
  <2>3. journal' = RowsBefore(s + 1)
    BY <1>4, <1>5, <2>2
  <2> QED
    BY <1>1, <1>2, <2>1, <2>3, NextDatasetStep
<1>6. CASE devices[d][s].values # 0
  <2>1. pc' = "value" /\ UNCHANGED <<devices, d, s, rc, reported>>
    BY <1>6 DEF InsertDataset, Datasets
  <2>2. v' \in 1 .. devices[d][s].values /\ journal' = RowsBeforeValue(s, v')
    BY <1>1, <1>3, <1>4, <1>6
  <2> QED
    BY <1>1, <1>2, <2>1, <2>2, AtValueStep
<1> QED
  BY <1>5, <1>6

LEMMA InsertValueStep ==
    ASSUME IInv, InsertValue
    PROVE  IInv'
<1>1. pc = "value" /\ Inserted(ValueRow(d, s, v)) /\ v' = v + 1
  BY DEF InsertValue
<1>2. /\ in_txn' = TRUE /\ failed' = failed /\ db' = db
      /\ journal' = journal \union {ValueRow(d, s, v)}
  BY <1>1, InsertStep DEF Storing
<1>3. /\ d \in 1 .. Len(devices) /\ s \in 1 .. Len(devices[d])
      /\ devices[d][s].values \in Nat /\ devices \in Uploads
      /\ v \in 1 .. devices[d][s].values
  BY <1>1, UploadFacts DEF IInv, CursorInv, Storing
<1>4. journal' = RowsBeforeValue(s, v + 1)
  BY <1>1, <1>2, <1>3, NextRow DEF IInv, JournalInv
<1>5. CASE v < devices[d][s].values
  <2>1. pc' = "value" /\ UNCHANGED <<devices, d, s, rc, reported>>
    BY <1>1, <1>5 DEF InsertValue, Datasets
  <2>2. v' \in 1 .. devices[d][s].values /\ journal' = RowsBeforeValue(s, v')
    BY <1>1, <1>3, <1>4, <1>5
  <2> QED
    BY <1>1, <1>2, <2>1, <2>2, AtValueStep
<1>6. CASE ~(v < devices[d][s].values)
  <2>1. NextDataset
    BY <1>6 DEF InsertValue, Datasets
  <2>2. v = devices[d][s].values
    BY <1>3, <1>6
  <2>3. RowsBeforeValue(s, devices[d][s].values + 1) = RowsBefore(s + 1)
    BY <1>3, NextRow
  <2>4. journal' = RowsBefore(s + 1) /\ v' \in Nat
    BY <1>1, <1>3, <1>4, <2>2, <2>3
  <2> QED
    BY <1>1, <1>2, <2>1, <2>4, NextDatasetStep
<1> QED
  BY <1>5, <1>6

LEMMA InsertFailsStep ==
    ASSUME IInv, InsertFails
    PROVE  IInv'
<1>1. /\ pc \in {"dataset_row", "value"} /\ pc' = "end" /\ rc' = -1 /\ StatementFails
      /\ UNCHANGED <<devices, d, s, v, reported>>
  BY DEF InsertFails, cursors
<1>2. d \in 1 .. Len(devices) /\ s \in Nat /\ v \in Nat /\ devices \in Uploads
  BY <1>1 DEF IInv, CursorInv, Storing
<1>3. CursorInv'
  BY <1>1, <1>2 DEF IInv, CursorInv, Storing
<1>4. TransactionInv'
  BY <1>1, FailureKeepsTransaction
<1>5. JournalInv'
  <2>1. journal \subseteq RowsOf(d) /\ Closed(journal)
    BY <1>1, <1>2, PrefixClosed DEF IInv, JournalInv, RowsBefore, RowsBeforeValue
  <2>2. journal' \subseteq RowsOf(d) /\ Closed(journal')
    BY <2>1, FailureFacts, EmptyClosed, <1>1
  <2>3. \A row \in journal' : row \in RowsOf(row[2])
    BY <2>2, BeforeFacts
  <2>4. \A r : RowsOf(r)' = RowsOf(r) /\ Before(r)' = Before(r)
    BY <1>1, RowsUnchanged
  <2>5. \A row \in journal' : Before(row)' \subseteq journal'
    BY <2>2, <2>4 DEF Closed
  <2> QED
    BY <1>1, <2>2, <2>3, <2>4, <2>5 DEF JournalInv, Closed
<1>6. CommittedInv'
  BY <1>1, FailureFacts, CommittedUnchanged
<1>7. ReportInv'
  BY <1>1, FailureFacts, RowsUnchanged DEF IInv, ReportInv
<1> QED
  BY <1>3, <1>4, <1>5, <1>6, <1>7 DEF IInv

\* The commit: whole devices if nothing failed, and never one before.
LEMMA EndStep ==
    ASSUME IInv, End
    PROVE  /\ IInv'
           /\ db' = db \union journal /\ pc = "end" /\ journal \subseteq RowsOf(d)
<1>1. /\ pc = "end" /\ pc' = "begin" /\ devices' = devices /\ d' = d + 1
      /\ db' = db \union journal /\ journal' = {} /\ in_txn' = FALSE
      /\ failed' = failed /\ ReturnDevice(rc)
  BY DEF End, ReturnDevice
<1>2. d \in 1 .. Len(devices) /\ devices \in Uploads /\ Len(devices) \in Nat
  BY <1>1, UploadFacts DEF IInv, CursorInv, Storing
<1>3. journal \subseteq RowsOf(d) /\ Closed(journal) /\ (rc = 0 => journal = RowsOf(d))
  BY <1>1 DEF IInv, JournalInv
<1>4. CursorInv' /\ ReportInv'
  <2>1. /\ rc \in {-1, 0} /\ failed' \in BOOLEAN /\ (~failed' => rc = 0)
        /\ d <= Len(devices)
    BY <1>1, <1>2 DEF IInv, ReportInv
  <2> QED
    BY <1>1, <1>3, <2>1, ReturnStep
<1>5. TransactionInv'
  BY <1>1 DEF TransactionInv, Storing
<1>6. JournalInv'
  BY <1>1 DEF JournalInv
<1>7. CommittedInv'
  <2>1. \A row \in journal : row \in RowsOf(row[2]) /\ row[2] = d
    BY <1>3, BeforeFacts
  <2>2. Closed(db) /\ Closed(db \union journal)
    BY <1>3, UnionClosed DEF IInv, CommittedInv
  <2>3. \A row \in db \union journal :
           row \in RowsOf(row[2]) /\ row[2] \in Nat /\ row[2] < d + 1
    BY <1>2, <2>1 DEF IInv, CommittedInv
  <2>4. \A r : RowsOf(r)' = RowsOf(r) /\ Before(r)' = Before(r)
    BY <1>1, RowsUnchanged
  <2>5. \A row \in db' : Before(row)' \subseteq db'
    BY <1>1, <2>2, <2>4 DEF Closed
  <2> QED
    BY <1>1, <2>3, <2>4, <2>5 DEF CommittedInv, Closed
<1> QED
  BY <1>1, <1>3, <1>4, <1>5, <1>6, <1>7 DEF IInv

LEMMA EndFailsStep ==
    ASSUME IInv, EndFails
    PROVE  IInv'
<1>1. /\ pc = "end" /\ devices' = devices /\ d' = d + 1 /\ pc' = "begin"
      /\ StatementFails /\ ReturnDevice(-1)
  BY DEF EndFails, ReturnDevice
<1>2. CursorInv' /\ ReportInv'
  <2>1. d <= Len(devices) /\ failed' = TRUE /\ db' = db
    BY <1>1, FailureFacts DEF IInv, CursorInv, Storing
  <2> QED
    BY <1>1, <2>1, ReturnStep
<1>3. TransactionInv'
  BY <1>1, FailureKeepsTransaction
<1>4. JournalInv'
  <2>1. \A row \in journal' : row \in RowsOf(row[2])
    BY <1>1, FailureFacts DEF IInv, JournalInv
  <2> QED
    BY <1>1, <2>1, RowsUnchanged DEF JournalInv
<1>5. CommittedInv'
  BY <1>1, FailureFacts, CommittedUnchanged
<1> QED
  BY <1>2, <1>3, <1>4, <1>5 DEF IInv

\* The process ends: what was not committed is undone.
LEMMA StopStep ==
    ASSUME IInv, pc' \in {"closed", "crashed"}, in_txn' = FALSE, journal' = {},
           pc' = "closed" => pc = "begin",
           UNCHANGED <<devices, d, s, v, db, rc, reported, failed>>
    PROVE  IInv'
<1>1. CursorInv'
  BY DEF IInv, CursorInv, Storing
<1>2. TransactionInv'
  BY DEF TransactionInv, Storing
<1>3. JournalInv'
  BY DEF JournalInv
<1>4. CommittedInv'
  BY CommittedUnchanged
<1>5. ReportInv'
  BY RowsUnchanged DEF IInv, ReportInv
<1> QED
  BY <1>1, <1>2, <1>3, <1>4, <1>5 DEF IInv

LEMMA StutterStep ==
    ASSUME IInv, UNCHANGED vars
    PROVE  IInv'
  BY RowsUnchanged DEF vars, cursors, sqlite, IInv, CursorInv, TransactionInv, JournalInv,
     CommittedInv, ReportInv, Storing, Closed

-----------------------------------------------------------------------------
\* Theorems

LEMMA InitInvariant == Init => IInv
<1> SUFFICES ASSUME Init PROVE IInv
  OBVIOUS
<1>1. CursorInv
  BY UploadFacts DEF Init, CursorInv, Storing
<1>2. TransactionInv /\ JournalInv /\ CommittedInv
  BY DEF Init, TransactionInv, JournalInv, CommittedInv, Closed, Storing
<1>3. ReportInv
  <2>1. reported = <<>> /\ rc = 0 /\ failed = FALSE /\ d = 1
    BY DEF Init
  <2>2. reported \in Seq({-1, 0}) /\ Len(reported) = d - 1 /\ 1 .. Len(reported) = {}
    BY <2>1
  <2> QED
    BY <2>1, <2>2 DEF ReportInv
<1> QED
  BY <1>1, <1>2, <1>3 DEF IInv

LEMMA NextInvariant == IInv /\ [Next]_vars => IInv'
<1> SUFFICES ASSUME IInv, [Next]_vars PROVE IInv'
  OBVIOUS
<1>1. CASE Begin
  BY <1>1, BeginStep
<1>2. CASE BeginFails
  BY <1>2, BeginFailsStep
<1>3. CASE InsertDevice
  BY <1>3, InsertDeviceStep
<1>4. CASE InsertDeviceFails
  BY <1>4, InsertDeviceFailsStep
<1>5. CASE InsertDataset
  BY <1>5, InsertDatasetStep
<1>6. CASE BindIndex
  BY <1>6, StopStep DEF BindIndex, cursors
<1>7. CASE InsertValue
  BY <1>7, InsertValueStep
<1>8. CASE InsertFails
  BY <1>8, InsertFailsStep
<1>9. CASE End
  BY <1>9, EndStep
<1>10. CASE EndFails
  BY <1>10, EndFailsStep
<1>11. CASE Close
  BY <1>11, StopStep DEF Close, cursors
<1>12. CASE Crash
  BY <1>12, StopStep DEF Crash, cursors
<1>13. CASE Terminated
  BY <1>13, StutterStep DEF Terminated
<1>14. CASE UNCHANGED vars
  BY <1>14, StutterStep
<1> QED
  BY <1>1, <1>2, <1>3, <1>4, <1>5, <1>6, <1>7, <1>8, <1>9, <1>10, <1>11, <1>12, <1>13,
     <1>14 DEF Next

\* The inductive invariant holds in every reachable state.
THEOREM Invariant == Spec => []IInv
  BY InitInvariant, NextInvariant, PTL DEF Spec

\* The loops stay inside the device, and rows are rows of their device.
THEOREM TypeCorrect == Spec => []TypeOK
<1>1. IInv => TypeOK
  BY UploadFacts DEF IInv, CursorInv, TransactionInv, JournalInv, CommittedInv, ReportInv,
     TypeOK, Storing, Datasets
<1> QED
  BY <1>1, Invariant, PTL

\* No committed row lacks one that is written before it (suns_output_sqlite.c,
\* 241-292).
THEOREM RowsHaveParents == Spec => []NoOrphans
<1>1. IInv => NoOrphans
  BY DEF IInv, CommittedInv, Closed, NoOrphans
<1> QED
  BY <1>1, Invariant, PTL

\* Success is reported of stored devices only, and failure only if some
\* statement failed (suns_host_test.c, 47-52).
THEOREM ReportedTruly == Spec => []ReportsTrue
<1>1. IInv => ReportsTrue
  BY DEF IInv, ReportInv, ReportsTrue
<1> QED
  BY <1>1, Invariant, PTL

\* A commit holds rows of the device that is being stored, of which there were
\* none (suns_output_sqlite.c, 274-292).
THEOREM CommitsOneDevice == Spec => OneDeviceAtATime
<1> DEFINE Commit == \A row \in db' \ db :
                        /\ row[2] = d
                        /\ db \intersect RowsOf(d) = {}
                        /\ pc = "end"
<1>1. IInv /\ [Next]_vars => [Commit]_vars
  <2> SUFFICES ASSUME IInv, Next PROVE Commit
    OBVIOUS
  <2>1. CASE End
    <3>1. db' = db \union journal /\ pc = "end" /\ journal \subseteq RowsOf(d)
      BY <2>1, EndStep
    <3>2. \A row \in RowsOf(d) : row[2] = d
      BY BeforeFacts
    <3>3. db \intersect RowsOf(d) = {}
      <4>1. d \in Nat /\ \A row \in db : row[2] < d
        BY UploadFacts DEF IInv, CursorInv, CommittedInv
      <4> QED
        BY <4>1, <3>2
    <3> QED
      BY <3>1, <3>2, <3>3
  <2>2. CASE InsertDevice \/ InsertDataset \/ InsertValue
    <3>1. PICK row : Inserted(row) /\ pc \in Storing \ {"end"}
      BY <2>2 DEF InsertDevice, InsertDataset, InsertValue, Storing
    <3> QED
      BY <3>1, InsertStep
  <2>3. CASE BeginFails \/ InsertDeviceFails \/ InsertFails \/ EndFails
    BY <2>3 DEF BeginFails, InsertDeviceFails, InsertFails, EndFails, StatementFails, sqlite
  <2>4. CASE Begin \/ BindIndex \/ Close \/ Crash \/ Terminated
    BY <2>4 DEF Begin, BindIndex, Close, Crash, Terminated, vars, sqlite
  <2> QED
    BY <2>1, <2>2, <2>3, <2>4 DEF Next
<1> QED
  BY <1>1, Invariant, PTL DEF Spec, OneDeviceAtATime

-----------------------------------------------------------------------------
\* Refinement

StoredNow == [n \in 1 .. Len(devices) |-> RowsOf(n) \intersect db]
Open == pc \notin {"closed", "crashed"}

\* A step that commits nothing and ends no device.
LEMMA SameStored ==
    ASSUME IInv, UNCHANGED <<devices, db, reported>>, failed' \in {failed, TRUE},
           Open, ~Open' => failed' = failed
    PROVE  [Devices!Next]_Devices!vars
<1>1. StoredNow' = StoredNow /\ [n \in 1 .. Len(devices) |-> RowsOf(n)]'
                                 = [n \in 1 .. Len(devices) |-> RowsOf(n)]
  BY RowsUnchanged DEF StoredNow
<1>2. CASE Open' /\ failed' = failed
  BY <1>1, <1>2 DEF Devices!vars, Open, StoredNow
<1>3. CASE Open' /\ failed' = TRUE
  BY <1>1, <1>3 DEF Devices!Next, Devices!Fail, Open, StoredNow
<1>4. CASE ~Open'
  BY <1>1, <1>4 DEF Devices!Next, Devices!Stop, Open, StoredNow
<1> QED
  BY <1>2, <1>3, <1>4

\* A device is done with: its part of the journal, or nothing, is stored.
LEMMA DeviceDone ==
    ASSUME IInv, Open, Open', d \in 1 .. Len(devices), NEW code \in {-1, 0}, NEW part,
           devices' = devices, reported' = Append(reported, code),
           part \subseteq RowsOf(d), Closed(part), db' = db \union part,
           IF code = 0 THEN part = RowsOf(d) /\ failed' = failed ELSE failed' = TRUE
    PROVE  Devices!StoreDevice
<1> DEFINE Rows == [n \in 1 .. Len(devices) |-> RowsOf(n)]
<1>1. /\ Len(devices) \in Nat /\ d \in Nat /\ Len(reported) = d - 1
      /\ Len(reported) + 1 = d
  BY UploadFacts DEF IInv, CursorInv, ReportInv
<1>2. Rows' = Rows /\ Rows[d] = RowsOf(d) /\ Len(Rows) = Len(devices)
  BY <1>1, RowsUnchanged
<1>3. ASSUME NEW n \in 1 .. Len(devices)
      PROVE  RowsOf(n) \intersect db' = IF n = d THEN part ELSE RowsOf(n) \intersect db
  <2>1. /\ \A row \in RowsOf(n) : row[2] = n
        /\ \A row \in part : row[2] = d
    BY BeforeFacts
  <2>2. \A row \in db : row[2] # d
    BY <1>1 DEF IInv, CommittedInv
  <2> QED
    BY <2>1, <2>2
<1>4. StoredNow' = [StoredNow EXCEPT ![d] = part]
  BY <1>3, RowsUnchanged DEF StoredNow
<1>5. Devices!WrittenInOrder(part, RowsOf(d))
  <2> SUFFICES ASSUME NEW row \in part, NEW r \in RowsOf(d), Precedes(r, row)
               PROVE  r \in part
    BY DEF Devices!WrittenInOrder
  <2>1. row[2] = d
    BY BeforeFacts
  <2> QED
    BY <2>1 DEF Closed, Before
<1>6. Devices!Turn = d /\ Open' = Open
  BY <1>1 DEF Devices!Turn, Open
<1>7. /\ Devices!WrittenInOrder(part, Rows[d]) /\ part \in SUBSET Rows[d]
      /\ IF code = 0 THEN part = Rows[d] /\ UNCHANGED failed ELSE failed' = TRUE
  BY <1>2, <1>5
<1>8. \E q \in SUBSET Rows[d], c \in {-1, 0} :
         /\ Devices!WrittenInOrder(q, Rows[d])
         /\ StoredNow' = [StoredNow EXCEPT ![d] = q]
         /\ reported' = Append(reported, c)
         /\ IF c = 0 THEN q = Rows[d] /\ UNCHANGED failed ELSE failed' = TRUE
  BY <1>4, <1>7
<1>9. Devices!Turn <= Len(Rows)
  BY <1>1, <1>2, <1>6
<1> QED
  BY <1>2, <1>6, <1>8, <1>9 DEF Devices!StoreDevice, Open, StoredNow

\* Storing an upload implements StoredDevices: each device gets its rows up to
\* some point in one step, for good, and all of them where success is reported
\* (suns_output_sqlite.c, 233-292; suns_host_test.c, 42-56).
THEOREM Refinement == Spec => InOneStepEach
<1>1. Init => Devices!Init
  <2> SUFFICES ASSUME Init PROVE Devices!Init
    OBVIOUS
  <2>1. \A n : RowsOf(n) \intersect db = {}
    BY DEF Init
  <2> QED
    BY <2>1 DEF Init, Devices!Init
<1>2. IInv /\ [Next]_vars => [Devices!Next]_Devices!vars
  <2> SUFFICES ASSUME IInv, [Next]_vars PROVE [Devices!Next]_Devices!vars
    OBVIOUS
  <2>1. CASE End
    <3>1. /\ pc = "end" /\ pc' = "begin" /\ devices' = devices /\ failed' = failed
          /\ reported' = Append(reported, rc) /\ db' = db \union journal
      BY <2>1 DEF End, ReturnDevice
    <3>2. /\ d \in 1 .. Len(devices) /\ rc \in {-1, 0} /\ failed \in BOOLEAN
          /\ journal \subseteq RowsOf(d) /\ Closed(journal)
          /\ rc = 0 => journal = RowsOf(d)
          /\ ~failed => rc = 0
      BY <3>1, UploadFacts DEF IInv, CursorInv, JournalInv, ReportInv, Storing
    <3>3. PICK part, code : part = journal /\ code = rc
      OBVIOUS
    <3>4. /\ code \in {-1, 0} /\ reported' = Append(reported, code)
          /\ part \subseteq RowsOf(d) /\ Closed(part) /\ db' = db \union part
          /\ IF code = 0 THEN part = RowsOf(d) /\ failed' = failed ELSE failed' = TRUE
      BY <3>1, <3>2, <3>3
    <3>5. Devices!StoreDevice
      BY <3>1, <3>2, <3>4, DeviceDone DEF Open
    <3> QED
      BY <3>5 DEF Devices!Next
  <2>2. CASE BeginFails \/ InsertDeviceFails \/ EndFails
    <3>1. /\ pc \in {"begin", "device_row", "end"} /\ d <= Len(devices)
          /\ pc' = "begin" /\ devices' = devices /\ failed' = TRUE
          /\ reported' = Append(reported, -1) /\ db' = db
      BY <2>2, FailureFacts DEF BeginFails, AtDevice, InsertDeviceFails, EndFails, ReturnDevice,
         sqlite, IInv, CursorInv, Storing
    <3>2. d \in 1 .. Len(devices)
      BY <3>1, UploadFacts DEF IInv, CursorInv
    <3>3. PICK part, code : part = {} /\ code = -1
      OBVIOUS
    <3>4. /\ code \in {-1, 0} /\ reported' = Append(reported, code)
          /\ part \subseteq RowsOf(d) /\ Closed(part) /\ db' = db \union part
          /\ IF code = 0 THEN part = RowsOf(d) /\ failed' = failed ELSE failed' = TRUE
      BY <3>1, <3>3, EmptyClosed
    <3>5. Open /\ Open' /\ devices' = devices
      BY <3>1 DEF Open
    <3>6. Devices!StoreDevice
      BY <3>2, <3>4, <3>5, DeviceDone
    <3> QED
      BY <3>6 DEF Devices!Next
  <2>3. CASE InsertDevice \/ InsertDataset \/ InsertValue
    <3>1. PICK row : Inserted(row) /\ pc \in Storing \ {"end"}
      BY <2>3 DEF InsertDevice, InsertDataset, InsertValue, Storing
    <3>2. Open /\ Open' /\ UNCHANGED <<devices, reported>>
      BY <2>3 DEF InsertDevice, InsertDataset, InsertValue, NextDataset, Open
    <3> QED
      BY <3>1, <3>2, InsertStep, SameStored
  <2>4. CASE InsertFails
    BY <2>4, FailureFacts, SameStored DEF InsertFails, Open
  <2>5. CASE Begin \/ BindIndex \/ Close \/ Crash
    BY <2>5, SameStored DEF Begin, AtDevice, BindIndex, Close, Crash, Open
  <2>6. CASE Terminated \/ UNCHANGED vars
    BY <2>6, RowsUnchanged DEF Terminated, vars, sqlite, Devices!vars
  <2> QED
    BY <2>1, <2>2, <2>3, <2>4, <2>5, <2>6 DEF Next
<1> QED
  BY <1>1, <1>2, Invariant, PTL DEF Spec, InOneStepEach, Devices!Spec
=============================================================================

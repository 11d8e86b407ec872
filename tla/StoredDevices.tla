---------------------------- MODULE StoredDevices ----------------------------
(***************************************************************************)
(* What storing devices in the database promises, without its statements   *)
(* and transactions: the devices are dealt with one after the other; of    *)
(* each the database gets, at once and for good, the rows up to some point *)
(* in the order they are written, and all of them if the device is         *)
(* reported as stored.  The work may stop at any time, between devices.    *)
(* DeviceStore implements this specification.                              *)
(***************************************************************************)
EXTENDS Integers, Sequences

CONSTANT Precedes(_, _)     \* the order in which the rows of a device are written

VARIABLES
    rows,       \* the set of rows of each device; never changes
    stored,     \* those of each device that are in the database
    reported,   \* 0 or -1, for each device dealt with
    failed,     \* some statement failed
    open        \* the work goes on

vars == <<rows, stored, reported, failed, open>>

\* Everything before a row that is there is there too.
WrittenInOrder(part, all) ==
    \A row \in part : \A r \in all : Precedes(r, row) => r \in part

Init ==
    /\ stored = [n \in DOMAIN rows |-> {}]
    /\ reported = <<>>
    /\ failed = FALSE
    /\ open = TRUE

\* The device that is dealt with next.
Turn == Len(reported) + 1

\* It is whole where success is reported, and a failure has a cause.
StoreDevice ==
    /\ open
    /\ Turn <= Len(rows)
    /\ \E part \in SUBSET rows[Turn], code \in {-1, 0} :
          /\ WrittenInOrder(part, rows[Turn])
          /\ stored' = [stored EXCEPT ![Turn] = part]
          /\ reported' = Append(reported, code)
          /\ IF code = 0 THEN part = rows[Turn] /\ UNCHANGED failed ELSE failed' = TRUE
    /\ UNCHANGED <<rows, open>>

Fail ==
    /\ open
    /\ failed' = TRUE
    /\ UNCHANGED <<rows, stored, reported, open>>

\* All are dealt with, or the process dies.
Stop ==
    /\ open
    /\ open' = FALSE
    /\ UNCHANGED <<rows, stored, reported, failed>>

Next == StoreDevice \/ Fail \/ Stop

Spec == Init /\ [][Next]_vars
=============================================================================

----------------------------- MODULE DeviceScan -----------------------------
(***************************************************************************)
(* What reading a device promises, without saying how: the program either  *)
(* prints the complete contents of a well-formed device, every block it    *)
(* knows once, in register order and correctly numbered, or it prints      *)
(* nothing and fails.  ReadDevice implements this specification.           *)
(***************************************************************************)
EXTENDS SunspecDevice

CONSTANTS
    Devices,    \* the devices the program may be pointed at
    KnownDids   \* the data model ids (dids) of the loaded models

VARIABLES
    dev,        \* the device being read
    outcome,    \* "scanning", "success" or "failure"
    output      \* the datasets printed

vars == <<dev, outcome, output>>

-----------------------------------------------------------------------------

\* The dids that head a block, in chain order, up to the one that stops it.
DidOf(d, k) == Header(d, d.start[k]).did

Blocks(d) == 1 .. Len(d.start) - 1

\* What suns_app_read_device() demands of a device: the signature is found, the
\* first block is the common model, did 1, and the chain stops at an end marker.
WellFormed(d) ==
    /\ \E w \in Windows : d.window[w] = Signature
    /\ Blocks(d) # {}
    /\ DidOf(d, 1) = 1
    /\ 1 \in KnownDids
    /\ LET last == d.start[Len(d.start)]
       IN  Readable(d, last, 2) /\ IsEndMarker(Header(d, last))

\* ds holds the known blocks of d below offset top, once each, in order, and
\* with the words the device holds.
HoldsBlocksBelow(ds, d, top) ==
    /\ \A n \in 1 .. Len(ds) : \E k \in 1 .. Len(d.start) :
          /\ d.start[k] < top
          /\ k \in Blocks(d)
          /\ DidOf(d, k) \in KnownDids
          /\ ds[n].at = d.start[k]
          /\ ds[n].did = DidOf(d, k)
          /\ ds[n].words = BlockAt(d, d.start[k])
    /\ \A k \in Blocks(d) :
          d.start[k] < top /\ DidOf(d, k) \in KnownDids
            => \E n \in 1 .. Len(ds) : ds[n].at = d.start[k]
    /\ \A m, n \in 1 .. Len(ds) : m < n => ds[m].at < ds[n].at

\* A did that occurs once has index 0; one that occurs more often is numbered
\* 1, 2, ... in register order: suns_model_get_did_index().
IsNumbered(ds) ==
    \A n \in 1 .. Len(ds) :
       LET same    == {m \in 1 .. Len(ds) : ds[m].did = ds[n].did}
           earlier == {m \in same : m < n}
       IN  /\ (ds[n].index = 0) <=> (same = {n})
           /\ earlier = {} => ds[n].index \in {0, 1}
           /\ \A p \in earlier :
                 (\A m \in earlier : m <= p) => ds[n].index = ds[p].index + 1

IsScanOf(out, d) ==
    /\ HoldsBlocksBelow(out, d, d.start[Len(d.start)])
    /\ IsNumbered(out)

-----------------------------------------------------------------------------

Init ==
    /\ dev \in Devices
    /\ outcome = "scanning"
    /\ output = <<>>

Deliver ==
    /\ outcome = "scanning"
    /\ WellFormed(dev)
    /\ outcome' = "success"
    /\ IsScanOf(output', dev)
    /\ UNCHANGED dev

Fail ==
    /\ outcome = "scanning"
    /\ outcome' = "failure"
    /\ UNCHANGED <<dev, output>>

Next == Deliver \/ Fail

Spec == Init /\ [][Next]_vars
=============================================================================

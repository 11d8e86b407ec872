----------------------------- MODULE ReadDevice -----------------------------
(***************************************************************************)
(* The SunSpec client: suns_app_read_device() with the functions it calls, *)
(* and the part of main() that prints the device or fails.                 *)
(*                                                                         *)
(* One action is one modbus_read_registers() call with the code that runs  *)
(* up to the next call.  Every call may fail (timeout, broken frame, lost  *)
(* connection); an address the device does not have never succeeds.        *)
(* Variables carry the names of the C locals.                              *)
(***************************************************************************)
EXTENDS SunspecDevice

CONSTANTS
    Devices,    \* the devices the client may be pointed at
    KnownDids,  \* dids of the loaded models (sps->did_list)
    Retries,    \* app->retries
    MaxRead,    \* app->max_modbus_read
    RegsSize    \* elements of regs[]; 1024 in the source

\* The -l option is taken to be at least one register, the did list holds no
\* 0 (no model has it) and every device is one the buffers are made for.
ASSUME ConstantsAssumption ==
    /\ Retries \in Nat
    /\ MaxRead \in Nat \ {0}
    /\ RegsSize \in Nat
    /\ KnownDids \subseteq Word \ {0}
    /\ \A d \in Devices : IsDevice(d, RegsSize)

NULL  == -1
Unset == -1     \* an element of regs[] nothing has been read into

\* Contents of regs[].
Register  == Unset .. MaxWord
Registers == [0 .. RegsSize - 1 -> Register]

VARIABLES
    dev,            \* the device on the line; never changes
    pc,             \* "search", "header", "body", "checks", "returned", "exited"
    i,              \* which of search_registers[] is tried
    retries,        \* attempts made at the current read
    base_register,  \* index of the register the signature was found at, or NULL
    offset,         \* offset of the current block from base_register
    model_count,    \* headers read
    did,            \* did of the current block if a model is known for it, or NULL
    len,            \* length register of the current block
    reg_offset,     \* registers of the current block read so far
    regs,           \* the register buffer, reused for every read
    datasets,       \* device->datasets
    found_common_model, found_common_model_first, found_end_marker,
    rc,             \* return code of suns_app_read_device()
    printed,        \* datasets handed to suns_device_output()
    status,         \* "running", then main()'s exit: "success" or "failure"
    gave_up         \* history: some read ran out of attempts

localVars == <<did, len, reg_offset>>
foundVars == <<found_common_model, found_common_model_first, found_end_marker>>
exitVars  == <<printed, status>>
vars == <<dev, pc, i, retries, base_register, offset, model_count, localVars,
          regs, datasets, foundVars, rc, exitVars, gave_up>>

-----------------------------------------------------------------------------
\* suns_model_get_did_index() and suns_device_add_dataset()

\* A suns_dataset_t.  The source keeps the decoded values; here words are the
\* registers they are decoded from, and at is the offset they were read from.
Dataset ==
    [did : KnownDids, index : Nat, at : Nat,
     words : Seq(Word)]

\* Slip: only the tail of the list is looked at.
LastWithDid_TailOnly(ds, d) ==
    IF ds # <<>> /\ ds[Len(ds)].did = d THEN Len(ds) ELSE 0

\* Position of the last dataset with this did, 0 if there is none.  The
\* shortcut for the tail of the list finds the same dataset as the search.
LastWithDid(ds, d) ==
    LET same == {n \in 1 .. Len(ds) : ds[n].did = d}
    IN  IF ds # <<>> /\ ds[Len(ds)].did = d THEN Len(ds)
        ELSE IF same = {} THEN 0
        ELSE CHOOSE n \in same : \A m \in same : m <= n

\* Slip: the dataset goes to the head of the list.
AddDataset_AtHead(ds, new) == <<new>> \o ds

\* The datasets after the new one is numbered and added; numbering the second
\* of a did also gives index 1 to the first.
\* (device->common, which suns_device_add_dataset() points at each dataset of
\* did 1, is the last of them: a function of the list, so it is not kept.)
AddDataset(ds, new) ==
    LET last == LastWithDid(ds, new.did)
    IN  IF last = 0
        THEN Append(ds, [new EXCEPT !.index = 0])
        ELSE IF ds[last].index = 0
        THEN Append([ds EXCEPT ![last].index = 1], [new EXCEPT !.index = 2])
        ELSE Append(ds, [new EXCEPT !.index = ds[last].index + 1])

\* Slip: the header's two registers are not counted in the length.
Decode_NoHeader(o, buf) ==
    [did |-> buf[0], index |-> 0, at |-> o,
     words |-> [j \in 1 .. buf[1] |-> buf[j - 1]]]

\* suns_decode_data() on what was read: the did and the length come from the
\* buffer, not from the header read before it.
Decode(o, buf) ==
    [did |-> buf[0], index |-> 0, at |-> o,
     words |-> [j \in 1 .. buf[1] + 2 |-> buf[j - 1]]]

-----------------------------------------------------------------------------

Init ==
    /\ dev \in Devices
    /\ pc = "search"
    /\ i = 1
    /\ retries = 0
    /\ base_register = NULL
    /\ offset = 0
    /\ model_count = 0
    /\ did = NULL /\ len = 0 /\ reg_offset = 0
    /\ regs = [j \in 0 .. RegsSize - 1 |-> Unset]
    /\ datasets = <<>>
    /\ found_common_model = FALSE
    /\ found_common_model_first = FALSE
    /\ found_end_marker = FALSE
    /\ rc = 0
    /\ printed = <<>>
    /\ status = "running"
    /\ gave_up = FALSE

-----------------------------------------------------------------------------
\* Looking for the signature

\* Slip: the last search register is never tried.
TryNextRegister_OneShort ==
    /\ IF i < 3
       THEN i' = i + 1 /\ retries' = 0 /\ UNCHANGED <<pc, rc>>
       ELSE pc' = "returned" /\ rc' = -1 /\ UNCHANGED <<i, retries>>
    /\ UNCHANGED <<dev, base_register, offset, model_count, localVars,
                   datasets, foundVars, exitVars>>

\* No signature here: on to the next search register, or return -1.
TryNextRegister ==
    /\ IF i < 4
       THEN i' = i + 1 /\ retries' = 0 /\ UNCHANGED <<pc, rc>>
       ELSE pc' = "returned" /\ rc' = -1 /\ UNCHANGED <<i, retries>>
    /\ UNCHANGED <<dev, base_register, offset, model_count, localVars,
                   datasets, foundVars, exitVars>>

\* The slave answers the read; the two words may be the signature or not.
SearchRead ==
    /\ pc = "search"
    /\ retries < Retries
    /\ dev.window[i] # <<>>
    /\ regs' = [regs EXCEPT ![0] = dev.window[i][1], ![1] = dev.window[i][2]]
    /\ IF dev.window[i] = Signature
       THEN /\ base_register' = i
            /\ offset' = 2
            /\ pc' = "header"
            /\ retries' = 0
            /\ UNCHANGED <<dev, i, model_count, localVars, datasets,
                           foundVars, rc, exitVars>>
       ELSE TryNextRegister
    /\ UNCHANGED gave_up

\* EMBXILADD: the slave is there but not this address, so no retry.
SearchIllegal ==
    /\ pc = "search"
    /\ retries < Retries
    /\ dev.window[i] = <<>>
    /\ TryNextRegister
    /\ UNCHANGED <<regs, gave_up>>

SearchGiveUp ==
    /\ pc = "search"
    /\ retries >= Retries
    /\ TryNextRegister
    /\ gave_up' = TRUE
    /\ UNCHANGED regs

-----------------------------------------------------------------------------
\* Any read may fail; outside the search a refused address is retried too.

\* Slip: failed attempts are not counted.
ReadFails_NotCounted ==
    /\ pc \in {"search", "header", "body"}
    /\ retries < Retries
    /\ UNCHANGED vars

ReadFails ==
    /\ pc \in {"search", "header", "body"}
    /\ retries < Retries
    /\ retries' = retries + 1
    /\ UNCHANGED <<dev, pc, i, base_register, offset, model_count, localVars,
                   regs, datasets, foundVars, rc, exitVars, gave_up>>

GiveUp ==
    /\ pc \in {"header", "body"}
    /\ retries >= Retries
    /\ rc' = -1
    /\ pc' = "checks"
    /\ gave_up' = TRUE
    /\ UNCHANGED <<dev, i, retries, base_register, offset, model_count,
                   localVars, regs, datasets, foundVars, exitVars>>

-----------------------------------------------------------------------------
\* Reading one data block: its header first, then all of it in chunks

HeaderArrives ==
    /\ pc = "header"
    /\ retries < Retries
    /\ Readable(dev, offset, 2)
    /\ regs' = [regs EXCEPT ![0] = dev.mem[offset], ![1] = dev.mem[offset + 1]]
    /\ model_count' = model_count + 1
    /\ UNCHANGED <<dev, i, base_register, offset, datasets, exitVars, gave_up>>

ReadEndMarker ==
    /\ HeaderArrives
    /\ IsEndMarker(Header(dev, offset))
    /\ found_end_marker' = TRUE
    /\ rc' = 0
    /\ pc' = "checks"
    /\ UNCHANGED <<retries, localVars, found_common_model,
                   found_common_model_first>>

\* 0x0000 where a did or an end marker should be.
ReadZeroDid ==
    /\ HeaderArrives
    /\ Header(dev, offset).did = 0
    /\ rc' = -1
    /\ pc' = "checks"
    /\ UNCHANGED <<retries, localVars, foundVars>>

ReadHeader ==
    /\ HeaderArrives
    /\ LET h == Header(dev, offset)
       IN  /\ ~IsEndMarker(h)
           /\ h.did # 0
           /\ len' = h.len
           /\ did' = IF h.did \in KnownDids THEN h.did ELSE NULL
    /\ found_common_model' = (found_common_model \/ did' = 1)
    /\ found_common_model_first' =
          (found_common_model_first \/ (did' = 1 /\ model_count' = 1))
    /\ reg_offset' = 0
    /\ retries' = 0
    /\ pc' = "body"
    /\ UNCHANGED <<found_end_marker, rc>>

\* Slip: the last chunk is as long as the others.
ReadLen_NoMin == MaxRead

\* One chunk of suns_app_read_registers().
ReadLen ==
    IF len + 2 - reg_offset < MaxRead THEN len + 2 - reg_offset ELSE MaxRead

ChunkArrives ==
    /\ pc = "body"
    /\ retries < Retries
    /\ Readable(dev, offset + reg_offset, ReadLen)
    /\ regs' = [j \in DOMAIN regs |->
                  IF j \in reg_offset .. reg_offset + ReadLen - 1
                  THEN dev.mem[offset + j] ELSE regs[j]]
    /\ retries' = 0
    /\ reg_offset' = reg_offset + ReadLen
    /\ UNCHANGED <<dev, i, base_register, model_count, did, len, foundVars,
                   rc, exitVars, gave_up>>

ReadChunk ==
    /\ ChunkArrives
    /\ reg_offset' < len + 2
    /\ UNCHANGED <<pc, offset, datasets>>

\* The last chunk: decode the block if its model is known, then move on.
ReadLastChunk ==
    /\ ChunkArrives
    /\ reg_offset' >= len + 2
    /\ datasets' = IF did # NULL THEN AddDataset(datasets, Decode(offset, regs'))
                                 ELSE datasets
    /\ offset' = offset + len + 2
    /\ pc' = "header"

-----------------------------------------------------------------------------
\* Leaving the loop, and main()

\* Slip: a common model anywhere will do.
FinalChecks_AnyPlace ==
    /\ pc = "checks"
    /\ rc' = IF ~found_common_model \/ ~found_end_marker THEN -1 ELSE rc
    /\ pc' = "returned"
    /\ UNCHANGED <<dev, i, retries, base_register, offset, model_count,
                   localVars, regs, datasets, foundVars, exitVars, gave_up>>

FinalChecks ==
    /\ pc = "checks"
    /\ rc' = IF \/ ~found_common_model
                \/ found_common_model /\ ~found_common_model_first
                \/ ~found_end_marker
             THEN -1 ELSE rc
    /\ pc' = "returned"
    /\ UNCHANGED <<dev, i, retries, base_register, offset, model_count,
                   localVars, regs, datasets, foundVars, exitVars, gave_up>>

Exit ==
    /\ pc = "returned"
    /\ pc' = "exited"
    /\ IF rc < 0
       THEN status' = "failure" /\ UNCHANGED printed
       ELSE status' = "success" /\ printed' = datasets
    /\ UNCHANGED <<dev, i, retries, base_register, offset, model_count,
                   localVars, regs, datasets, foundVars, rc, gave_up>>

\* The process is gone.
Terminated == pc = "exited" /\ UNCHANGED vars

Next ==
    \/ SearchRead \/ SearchIllegal \/ SearchGiveUp
    \/ ReadFails \/ GiveUp
    \/ ReadEndMarker \/ ReadZeroDid \/ ReadHeader
    \/ ReadChunk \/ ReadLastChunk
    \/ FinalChecks \/ Exit
    \/ Terminated

Spec == Init /\ [][Next]_vars

\* Every call of modbus_read_registers() returns: libmodbus gives up waiting
\* after the response timeout that suns_init_modbus() sets.
FairSpec == Spec /\ WF_vars(Next)

-----------------------------------------------------------------------------
Scan == INSTANCE DeviceScan WITH
          outcome <- IF status = "running" THEN "scanning" ELSE status,
          output  <- printed

\* Every variable stays in its type; the chunks of a block, of any length and
\* any -l, end with the block, so that none is asked for from behind it.  (dev
\* is chosen by Init and never assigned.)
TypeOK ==
    /\ pc \in {"search", "header", "body", "checks", "returned", "exited"}
    /\ i \in Windows
    /\ retries \in 0 .. Retries
    /\ base_register \in Windows \union {NULL}
    /\ offset \in Nat
    /\ model_count \in Nat
    /\ did \in KnownDids \union {NULL}
    /\ len \in Word
    /\ reg_offset \in 0 .. len + 2
    /\ regs \in Registers
    /\ datasets \in Seq(Dataset)
    /\ found_common_model \in BOOLEAN
    /\ found_common_model_first \in BOOLEAN
    /\ found_end_marker \in BOOLEAN
    /\ rc \in {-1, 0}
    /\ status \in {"running", "success", "failure"}
    /\ gave_up \in BOOLEAN

\* However the reads are chunked, retried and interrupted, the datasets hold
\* exactly the known blocks below the current offset, each once, in register
\* order, with every word as the device has it and none left over in regs[]
\* from an earlier read: suns_app_read_device() reuses one buffer for all.
DatasetsFaithful == Scan!HoldsBlocksBelow(datasets, dev, offset)

\* The (did, index) pairs identify the datasets of a device, also while it is
\* being read: suns_model_get_did_index() numbers repeats from 1 and renumbers
\* the first of them behind the caller's back.
DatasetsNumbered == Scan!IsNumbered(datasets)

\* A device that satisfies the client's own rules is read successfully unless
\* some read ran out of attempts: no spurious failure from the checks.
FailureHasCause ==
    status = "failure" /\ Scan!WellFormed(dev) => gave_up

\* A dataset once attached is never lost, moved or changed, except that the
\* first of a repeated did gets its index 1.
DatasetsOnlyGrow ==
    [][/\ Len(datasets') >= Len(datasets)
       /\ \A n \in 1 .. Len(datasets) :
             /\ datasets'[n] = [datasets[n] EXCEPT !.index = datasets'[n].index]
             /\ datasets'[n].index # datasets[n].index
                  => datasets[n].index = 0 /\ datasets'[n].index = 1
      ]_vars

\* The program implements DeviceScan: it prints the whole device or nothing.
AllOrNothing == Scan!Spec

\* Reading a device ends, whatever the device answers.
Terminates == <>(pc = "exited")
-----------------------------------------------------------------------------
(***************************************************************************)
(* The inductive invariant: what holds between two reads, from which the   *)
(* properties above follow.  ReadDeviceProofs shows that every step keeps  *)
(* it.                                                                     *)
(***************************************************************************)

FirstIsCommon(d) ==
    /\ 1 \in KnownDids
    /\ Readable(d, d.start[1], 2)
    /\ Scan!DidOf(d, 1) = 1

\* Nothing is read before the signature is found, and a register before i
\* that answers the signature was passed over only by giving up on it.
SearchInv ==
    /\ pc = "search" =>
          /\ offset = 0 /\ model_count = 0 /\ base_register = NULL
          /\ datasets = <<>>
    /\ \A w \in 1 .. i - 1 : dev.window[w] = Signature => gave_up
    /\ pc \in {"header", "body", "checks"} \/ found_end_marker =>
          base_register # NULL /\ dev.window[base_register] = Signature

\* offset is where the header number model_count + 1 is read, then, in the
\* body, where block number model_count starts; the registers read so far of
\* the block are in regs[].
PositionInv ==
    /\ pc = "header" =>
          /\ model_count < Len(dev.start)
          /\ offset = dev.start[model_count + 1]
    /\ pc = "body" =>
          /\ model_count \in 1 .. Len(dev.start)
          /\ offset = dev.start[model_count]
          /\ Readable(dev, offset, 2)
          /\ ~IsEndMarker(Header(dev, offset))
          /\ Header(dev, offset).did # 0
          /\ len = Header(dev, offset).len
          /\ did = IF Header(dev, offset).did \in KnownDids
                   THEN Header(dev, offset).did ELSE NULL
          /\ reg_offset < len + 2
          /\ \A j \in 0 .. reg_offset - 1 :
                offset + j \in DOMAIN dev.mem /\ regs[j] = dev.mem[offset + j]

\* What the three found_ flags stand for.
FoundInv ==
    /\ found_common_model_first => found_common_model
    /\ found_common_model_first <=> model_count >= 1 /\ FirstIsCommon(dev)
    /\ found_end_marker =>
          /\ pc \notin {"search", "header", "body"}
          /\ offset = dev.start[Len(dev.start)]
          /\ Readable(dev, offset, 2)
          /\ IsEndMarker(Header(dev, offset))

\* How the flags, the return code and main()'s exit hang together.
VerdictInv ==
    /\ pc = "checks" => (rc = 0 <=> found_end_marker)
    /\ pc \in {"returned", "exited"} /\ rc = 0 =>
          found_common_model_first /\ found_end_marker
    /\ (pc = "exited") <=> (status # "running")
    /\ status = "success" => rc = 0 /\ printed = datasets
    /\ status # "success" => printed = <<>>
    /\ status = "failure" => rc = -1

\* Reading a well-formed device fails only through reads that were given up.
CauseInv ==
    Scan!WellFormed(dev) /\ ~gave_up =>
       /\ pc = "checks" => found_common_model_first /\ found_end_marker
       /\ pc \in {"returned", "exited"} => rc = 0

\* The inductive invariant of suns_app_read_device(): where the loop stands,
\* what its flags mean and what has been collected.
IInv ==
    /\ TypeOK
    /\ SearchInv
    /\ PositionInv
    /\ FoundInv
    /\ VerdictInv
    /\ CauseInv
    /\ DatasetsFaithful
    /\ DatasetsNumbered
=============================================================================

----------------------------- MODULE BlockDecode -----------------------------
(***************************************************************************)
(* From the registers of one data block to the values of its points:       *)
(* suns_model_fill_offsets(), which main() calls once for every model      *)
(* loaded, then suns_decode_data() with suns_decode_dp_block() and         *)
(* suns_resolve_scale_factors().                                           *)
(*                                                                         *)
(* One action is one turn of a loop.  A value is kept as the place its     *)
(* bytes are taken from, which is what the layout code decides; what the   *)
(* bytes mean matters only for scale factors, which are implemented or     *)
(* not.  Warnings and the length checks that only lead to one are left out.*)
(***************************************************************************)
EXTENDS SunsTypes, Sequences

CONSTANTS
    Models,     \* the data models that may be loaded
    MaxLen      \* bound on a block's length register

-----------------------------------------------------------------------------
\* uint16_t, the type of suns_model_t's len and base_len.
Words  == 65536
Uint16 == 0 .. Words - 1

\* A model is a sequence of datapoint blocks; a datapoint (suns_dp_t) has the
\* length of a string in bytes, the offset the model file gives it, 0 if none,
\* and the name of its scale factor, "" if none.
Points == [name : STRING, type : Types, len : Nat, offset : Nat, sf : STRING]
Blocks == [repeating : BOOLEAN, dps : Seq(Points)]

IsModel(m) ==
    /\ m \in Seq(Blocks) /\ m # <<>>
    /\ \A b \in 1 .. Len(m) : m[b].dps # <<>>

\* No model has a repeating block of no registers; the decoder divides by its
\* length without a check.
ASSUME ModelsAssumption ==
    /\ MaxLen \in Nat
    /\ \A m \in Models :
          /\ IsModel(m)
          /\ \A b \in 1 .. Len(m) :
                m[b].repeating =>
                   \E p \in 1 .. Len(m[b].dps) :
                      Registers(m[b].dps[p]) > 0 \/ m[b].dps[p].offset > 0

VARIABLES
    model,          \* suns_model_t: the blocks as the model file gives them
    offset,         \* dp->offset, by block and point
    block_len,      \* dp_block->len, in registers
    base_len,       \* m->base_len: registers before the repeating block
    len,            \* m->len: registers with one repetition
    pc,             \* "fill", "loaded", "block", "points", "resolve", "decoded"
    b, p,           \* list cursors: block and point
    dp_block_offset,\* suns_model_fill_offsets(): offset in the current block
    did_len,        \* length register of the data block to decode
    byte_offset,    \* suns_decode_data(): bytes taken by the blocks before b
    limit,          \* suns_decode_dp_block(): its argument len
    len_multiple,   \* suns_decode_dp_block(): repetitions to decode
    repeat_index,   \* suns_decode_dp_block(): the one being decoded
    taken,          \* suns_decode_dp_block(): its byte_offset
    values,         \* data->values
    v               \* list cursor of suns_resolve_scale_factors()

layoutVars == <<model, offset, block_len, base_len, len, dp_block_offset>>
blockVars  == <<limit, len_multiple, repeat_index, taken>>
vars == <<layoutVars, blockVars, pc, b, p, did_len, byte_offset, values, v>>

Dp    == model[b].dps[p]
Dps   == model[b].dps

Init ==
    /\ model \in Models
    /\ offset = [bb \in 1 .. Len(model) |->
                   [pp \in 1 .. Len(model[bb].dps) |-> model[bb].dps[pp].offset]]
    /\ block_len = [bb \in 1 .. Len(model) |-> 0]
    /\ base_len = 0 /\ len = 0
    /\ pc = "fill" /\ b = 1 /\ p = 1 /\ dp_block_offset = 0
    /\ did_len = 0 /\ byte_offset = 0
    /\ limit = 0 /\ len_multiple = 0 /\ repeat_index = 1 /\ taken = 0
    /\ values = <<>> /\ v = 1

-----------------------------------------------------------------------------
\* suns_model_fill_offsets()

\* The next point lies where the model file says, else behind the one before.
FillPoint ==
    /\ pc = "fill"
    /\ p <= Len(Dps)
    /\ LET at == IF offset[b][p] > 0 THEN offset[b][p] ELSE dp_block_offset
       IN  /\ offset' = [offset EXCEPT ![b][p] = at]
           /\ dp_block_offset' = at + Registers(Dp)
    /\ p' = p + 1
    /\ UNCHANGED <<model, block_len, base_len, len, blockVars, pc, b, did_len,
                   byte_offset, values, v>>

\* model->len and base_len are uint16_t.
FillBlock ==
    /\ pc = "fill"
    /\ p > Len(Dps)
    /\ block_len' = [block_len EXCEPT ![b] = dp_block_offset]
    /\ len' = (len + dp_block_offset) % Words
    /\ base_len' = IF model[b].repeating THEN base_len
                   ELSE (base_len + dp_block_offset) % Words
    /\ dp_block_offset' = 0
    /\ p' = 1
    /\ IF b < Len(model) THEN b' = b + 1 /\ pc' = pc
                         ELSE b' = 1 /\ pc' = "loaded"
    /\ UNCHANGED <<model, offset, blockVars, did_len, byte_offset, values, v>>

-----------------------------------------------------------------------------
\* suns_decode_data() and suns_decode_dp_block()

\* A data block of any length arrives.
DecodeData ==
    /\ pc = "loaded"
    /\ did_len' \in 0 .. MaxLen
    /\ pc' = "block"
    /\ UNCHANGED <<layoutVars, blockVars, b, p, byte_offset, values, v>>

\* Slip: the block header is subtracted from what is left, too.
EnterBlock_HeaderTwice ==
    /\ pc = "block"
    /\ limit' = did_len * 2 - byte_offset - 4
    /\ len_multiple' = IF model[b].repeating
                       THEN (limit' \div block_len[b]) \div 2 ELSE 1
    /\ repeat_index' = 1
    /\ taken' = 0
    /\ p' = 1
    /\ pc' = "points"
    /\ UNCHANGED <<layoutVars, b, did_len, byte_offset, values, v>>

\* Slip: bytes divided by registers.
EnterBlock_MixedUnits ==
    /\ pc = "block"
    /\ limit' = did_len * 2 - byte_offset
    /\ len_multiple' = IF model[b].repeating THEN limit' \div block_len[b] ELSE 1
    /\ repeat_index' = 1
    /\ taken' = 0
    /\ p' = 1
    /\ pc' = "points"
    /\ UNCHANGED <<layoutVars, b, did_len, byte_offset, values, v>>

EnterBlock ==
    /\ pc = "block"
    /\ limit' = did_len * 2 - byte_offset
    /\ len_multiple' = IF model[b].repeating
                       THEN (limit' \div block_len[b]) \div 2 ELSE 1
    /\ repeat_index' = 1
    /\ taken' = 0
    /\ p' = 1
    /\ pc' = "points"
    /\ UNCHANGED <<layoutVars, b, did_len, byte_offset, values, v>>

\* A value whose scale factor is not resolved has sf = Unresolved; one that
\* refers to a scale factor the device does not implement has sf = Zero;
\* otherwise sf is the position of the scale factor in values.
Unresolved == -1
Zero       == 0

\* Slip: the end of the data is not looked at.
DecodePoint_Unchecked ==
    /\ pc = "points"
    /\ repeat_index <= len_multiple
    /\ p <= Len(Dps)
    /\ \E implemented \in IF Dp.type = "sunssf" THEN BOOLEAN ELSE {TRUE} :
          values' = Append(values,
             [block |-> b, point |-> p, index |-> repeat_index,
              at |-> byte_offset + taken, implemented |-> implemented,
              sf |-> Unresolved])
    /\ taken' = taken + PairSize(Dp)
    /\ p' = p + 1
    /\ UNCHANGED <<layoutVars, limit, len_multiple, repeat_index, pc, b,
                   did_len, byte_offset, v>>

\* The point fits into what is left: decode it.  Only for a scale factor does
\* it matter whether the device implements it.
DecodePoint ==
    /\ pc = "points"
    /\ repeat_index <= len_multiple
    /\ p <= Len(Dps)
    /\ taken + PairSize(Dp) <= limit
    /\ \E implemented \in IF Dp.type = "sunssf" THEN BOOLEAN ELSE {TRUE} :
          values' = Append(values,
             [block |-> b, point |-> p, index |-> repeat_index,
              at |-> byte_offset + taken, implemented |-> implemented,
              sf |-> Unresolved])
    /\ taken' = taken + PairSize(Dp)
    /\ p' = p + 1
    /\ UNCHANGED <<layoutVars, limit, len_multiple, repeat_index, pc, b,
                   did_len, byte_offset, v>>

NextRepetition ==
    /\ pc = "points"
    /\ repeat_index <= len_multiple
    /\ p > Len(Dps)
    /\ repeat_index' = repeat_index + 1
    /\ p' = 1
    /\ UNCHANGED <<layoutVars, limit, len_multiple, taken, pc, b, did_len,
                   byte_offset, values, v>>

\* Slip: = for +=.
ReturnFromBlock_Assigned ==
    /\ byte_offset' = taken
    /\ IF byte_offset' >= did_len * 2 + 4 THEN pc' = "decoded" /\ b' = b
       ELSE IF b < Len(model) THEN pc' = "block" /\ b' = b + 1
       ELSE pc' = "resolve" /\ b' = b
    /\ UNCHANGED <<layoutVars, blockVars, p, did_len, values, v>>

\* suns_decode_dp_block() returns: on to the next block, or, after an overrun,
\* out with what there is.
ReturnFromBlock ==
    /\ byte_offset' = byte_offset + taken
    /\ IF byte_offset' >= did_len * 2 + 4 THEN pc' = "decoded" /\ b' = b
       ELSE IF b < Len(model) THEN pc' = "block" /\ b' = b + 1
       ELSE pc' = "resolve" /\ b' = b
    /\ UNCHANGED <<layoutVars, blockVars, p, did_len, values, v>>

\* The device data ends before the point does.
PointMissing ==
    /\ pc = "points"
    /\ repeat_index <= len_multiple
    /\ p <= Len(Dps)
    /\ taken + PairSize(Dp) > limit
    /\ ReturnFromBlock

BlockDone ==
    /\ pc = "points"
    /\ repeat_index > len_multiple
    /\ ReturnFromBlock

-----------------------------------------------------------------------------
\* suns_resolve_scale_factors()

DpOf(val) == model[val.block].dps[val.point]

\* suns_search_value_list(): the first value of that name.
WithName(name) ==
    {n \in 1 .. Len(values) :
        /\ DpOf(values[n]).name = name
        /\ \A k \in 1 .. n - 1 : DpOf(values[k]).name # name}

NeedsScaleFactor(val) ==
    /\ IsNumeric(DpOf(val).type)
    /\ DpOf(val).sf # ""
    /\ WithName(DpOf(val).sf) # {}

ResolveStep == pc = "resolve" /\ v <= Len(values)

\* Slip: a scale factor that is not implemented is used all the same.
Resolve_Unchecked ==
    /\ ResolveStep
    /\ NeedsScaleFactor(values[v])
    /\ \E found \in WithName(DpOf(values[v]).sf) :
          /\ DpOf(values[found]).type = "sunssf"
          /\ values' = [values EXCEPT ![v].sf = found]
    /\ v' = v + 1
    /\ UNCHANGED <<layoutVars, blockVars, pc, b, p, did_len, byte_offset>>

Resolve ==
    /\ ResolveStep
    /\ NeedsScaleFactor(values[v])
    /\ \E found \in WithName(DpOf(values[v]).sf) :
          /\ DpOf(values[found]).type = "sunssf"
          /\ values' = [values EXCEPT ![v].sf =
                          IF values[found].implemented THEN found ELSE Zero]
    /\ v' = v + 1
    /\ UNCHANGED <<layoutVars, blockVars, pc, b, p, did_len, byte_offset>>

\* The subscript names a point that is no scale factor: give up.
ResolveBails ==
    /\ ResolveStep
    /\ NeedsScaleFactor(values[v])
    /\ \E found \in WithName(DpOf(values[v]).sf) :
          DpOf(values[found]).type # "sunssf"
    /\ pc' = "decoded"
    /\ UNCHANGED <<layoutVars, blockVars, b, p, did_len, byte_offset, values, v>>

\* Slip: the cursor stays where it is.
ResolvePasses_Stuck ==
    /\ ResolveStep
    /\ ~NeedsScaleFactor(values[v])
    /\ UNCHANGED vars

ResolvePasses ==
    /\ ResolveStep
    /\ ~NeedsScaleFactor(values[v])
    /\ v' = v + 1
    /\ UNCHANGED <<layoutVars, blockVars, pc, b, p, did_len, byte_offset, values>>

Resolved ==
    /\ pc = "resolve"
    /\ v > Len(values)
    /\ pc' = "decoded"
    /\ UNCHANGED <<layoutVars, blockVars, b, p, did_len, byte_offset, values, v>>

\* The dataset is returned.
Finished == pc = "decoded" /\ UNCHANGED vars

Next ==
    \/ FillPoint \/ FillBlock
    \/ DecodeData \/ EnterBlock
    \/ DecodePoint \/ NextRepetition \/ PointMissing \/ BlockDone
    \/ Resolve \/ ResolveBails \/ ResolvePasses \/ Resolved
    \/ Finished

Spec     == Init /\ [][Next]_vars
FairSpec == Spec /\ WF_vars(Next)

-----------------------------------------------------------------------------
TypeOK ==
    /\ \A bb \in 1 .. Len(model) :
          /\ block_len[bb] \in Nat
          /\ \A pp \in 1 .. Len(model[bb].dps) : offset[bb][pp] \in Nat
    /\ base_len \in Uint16 /\ len \in Uint16
    /\ pc \in {"fill", "loaded", "block", "points", "resolve", "decoded"}
    /\ b \in 1 .. Len(model)
    /\ p \in Nat \ {0} /\ (pc \in {"fill", "points"} => p <= Len(Dps) + 1)
    /\ dp_block_offset \in Nat
    /\ did_len \in 0 .. MaxLen
    /\ byte_offset \in Nat /\ limit \in Nat /\ taken \in Nat
    /\ len_multiple \in Nat /\ repeat_index \in 1 .. len_multiple + 1
    /\ \A n \in 1 .. Len(values) :
          /\ values[n].block \in 1 .. Len(model)
          /\ values[n].point \in 1 .. Len(model[values[n].block].dps)
          /\ values[n].index \in Nat \ {0}
          /\ values[n].sf \in Unresolved .. Len(values)
    /\ v \in 1 .. Len(values) + 1

-----------------------------------------------------------------------------
\* Where the layout puts things

\* Register of the data block at which block bb of the model begins.
BlockStart(bb) ==
    LET start[k \in 1 .. Len(model)] ==
          IF k = 1 THEN 0 ELSE start[k - 1] + block_len[k - 1]
    IN  start[bb]

\* The byte at which the offsets filled in place a value.
Place(val) ==
    2 * (BlockStart(val.block) + (val.index - 1) * block_len[val.block]
         + offset[val.block][val.point])

\* The points follow each other without gaps, strings fill their registers,
\* nothing comes after a repeating block, and the lengths fit their 16 bits.
Regular ==
    /\ \A bb \in 1 .. Len(model) :
          LET dps == model[bb].dps
          IN  /\ offset[bb][1] = 0
              /\ \A pp \in 1 .. Len(dps) - 1 :
                    offset[bb][pp + 1] = offset[bb][pp] + Registers(dps[pp])
              /\ \A pp \in 1 .. Len(dps) :
                    dps[pp].type = "string" => dps[pp].len % 2 = 0
              /\ model[bb].repeating => bb = Len(model)
    /\ BlockStart(Len(model)) + block_len[Len(model)] < Words

Decoding == pc \notin {"fill", "loaded"}

InPlace == Decoding => \A n \in 1 .. Len(values) : values[n].at = Place(values[n])

Repeats == model[Len(model)].repeating

\* The README's "number of records = (length - fixed length) / variable
\* section length"; a device too short for the fixed part has none.
Records ==
    IF did_len < base_len THEN 0 ELSE (did_len - base_len) \div (len - base_len)

\* Values in the repeating block, when decoding is done, are those of Records
\* complete records.
RecordsDecoded ==
    pc \in {"resolve", "decoded"} /\ Repeats =>
       LET recorded == {n \in 1 .. Len(values) : values[n].block = Len(model)}
       IN  /\ \A n \in recorded : values[n].index <= Records
           /\ \A k \in 1 .. Records : \A pp \in 1 .. Len(model[Len(model)].dps) :
                 \E n \in recorded : values[n].index = k /\ values[n].point = pp

-----------------------------------------------------------------------------
\* Properties

\* For a regular model and a device that has its fixed part, the decoder, which
\* counts bytes and never looks at dp->offset, takes every point of every
\* record from where suns_model_fill_offsets() places it, in registers.
DecodedInPlace == Regular /\ did_len >= base_len => InPlace

\* Under the same conditions the repeating block yields all complete records
\* and no part of another, whatever registers are left over at the end.
CompleteRecords == Regular /\ did_len >= base_len => RecordsDecoded

\* No value is taken from beyond the device's data, so that the overrun that
\* suns_decode_data() checks for after each block never happens, however short
\* the device's block is compared with the model.
WithinBlock ==
    /\ byte_offset + (IF pc = "points" THEN taken ELSE 0) <= 2 * did_len
    /\ \A n \in 1 .. Len(values) :
          values[n].at + PairSize(DpOf(values[n])) <= 2 * did_len

\* The values partition what has been decoded: across repetitions, truncated
\* blocks and block borders each begins where the one before ends.
EveryByteOnce ==
    \A n \in 1 .. Len(values) :
       values[n].at = IF n = 1 THEN 0
                      ELSE values[n - 1].at + PairSize(DpOf(values[n - 1]))

\* A resolved scale factor is an implemented sunssf of the name the point
\* gives, or 0 in place of one that is not implemented; and after a resolution
\* that ran to its end no numeric value lacks a scale factor the data has.
ScaledByName ==
    \A n \in 1 .. Len(values) :
       LET named == WithName(DpOf(values[n]).sf)
       IN  /\ values[n].sf > 0 =>
                 /\ values[n].sf \in named
                 /\ DpOf(values[values[n].sf]).type = "sunssf"
                 /\ values[values[n].sf].implemented
           /\ values[n].sf = Zero => \E f \in named : ~values[f].implemented
           /\ n < v /\ NeedsScaleFactor(values[n]) => values[n].sf # Unresolved

\* Decoding ends for every model and every length.
Decodes == <>(pc = "decoded")

-----------------------------------------------------------------------------
\* What the repository says of the decoder and the decoder does not do

\* uint32 is a numeric type, and models/smdx/smdx_00401.xml gives uint32 points
\* a scale factor (sf="DCAhr_SF").
UnsignedScaled ==
    pc = "decoded" /\ v > Len(values) =>
       \A n \in 1 .. Len(values) :
          DpOf(values[n]).type \in {"uint16", "uint32"} /\ DpOf(values[n]).sf # ""
             /\ WithName(DpOf(values[n]).sf) # {} => values[n].sf # Unresolved
=============================================================================

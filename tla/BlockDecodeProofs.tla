-------------------------- MODULE BlockDecodeProofs --------------------------
(***************************************************************************)
(* What holds of BlockDecode for all models and all lengths.  The          *)
(* argument: a block of the model is decoded within what is left of the    *)
(* data, each value where the one before ends; no scale factor is looked   *)
(* at before all values are there; and resolving changes nothing but sf,   *)
(* so that a name keeps finding the same value.                            *)
(***************************************************************************)
EXTENDS BlockDecode, LeastElement, SequenceTheorems

Values == [block : Nat \ {0}, point : Nat \ {0}, index : Nat \ {0},
           at : Nat, implemented : BOOLEAN, sf : Int]

\* Point pp of block bb makes the block longer than nothing.
Counts(bb, pp) == Registers(model[bb].dps[pp]) > 0 \/ model[bb].dps[pp].offset > 0

LayoutTypes ==
    /\ model \in Models
    /\ block_len \in [1 .. Len(model) -> Nat]
    /\ offset \in [1 .. Len(model) -> Seq(Nat)]
    /\ \A bb \in 1 .. Len(model) : Len(offset[bb]) = Len(model[bb].dps)
    /\ base_len \in Uint16 /\ len \in Uint16
    /\ dp_block_offset \in Nat

\* The layout is filled in up to the cursor; behind it the offsets are those of
\* the model file.
Untouched ==
    \A bb \in 1 .. Len(model) : \A pp \in 1 .. Len(model[bb].dps) :
       bb > b \/ (bb = b /\ pp >= p) => offset[bb][pp] = model[bb].dps[pp].offset

CountedSoFar == \A pp \in 1 .. p - 1 : Counts(b, pp) => dp_block_offset > 0

\* No division by zero: a repeating block has registers, once it is filled in.
Divisible ==
    \A bb \in 1 .. Len(model) :
       (pc = "fill" => bb < b) /\ model[bb].repeating => block_len[bb] > 0

LayoutInv ==
    /\ LayoutTypes
    /\ pc = "fill" => Untouched /\ CountedSoFar
    /\ Divisible

CursorInv ==
    /\ pc \in {"fill", "loaded", "block", "points", "resolve", "decoded"}
    /\ b \in 1 .. Len(model)
    /\ p \in Nat \ {0}
    /\ pc \in {"fill", "points"} => p <= Len(model[b].dps) + 1
    /\ did_len \in 0 .. MaxLen
    /\ limit \in Nat /\ taken \in Nat
    /\ len_multiple \in Nat /\ repeat_index \in 1 .. len_multiple + 1

\* The end of the last value.
End == IF values = <<>> THEN 0
       ELSE values[Len(values)].at + PairSize(DpOf(values[Len(values)]))

\* What is decoded lies within the data of the device.
BytesInv ==
    /\ byte_offset \in Nat /\ byte_offset <= 2 * did_len
    /\ pc \in {"fill", "loaded"} => byte_offset = 0 /\ values = <<>>
    /\ pc = "points" => limit = 2 * did_len - byte_offset /\ taken <= limit
    /\ pc \in {"block", "points"} =>
          End = byte_offset + (IF pc = "points" THEN taken ELSE 0)

ValuesInv ==
    /\ values \in Seq(Values)
    /\ \A n \in 1 .. Len(values) :
          /\ values[n].block \in 1 .. Len(model)
          /\ values[n].point \in 1 .. Len(model[values[n].block].dps)
          /\ values[n].sf \in -1 .. Len(values)
          /\ values[n].at + PairSize(DpOf(values[n])) <= 2 * did_len

\* Scale factors are looked for once all values are decoded.
ResolveInv ==
    /\ v \in 1 .. Len(values) + 1
    /\ pc \notin {"resolve", "decoded"} =>
          v = 1 /\ \A n \in 1 .. Len(values) : values[n].sf = -1

IInv == LayoutInv /\ CursorInv /\ BytesInv /\ ValuesInv /\ ResolveInv
           /\ EveryByteOnce /\ ScaledByName

-----------------------------------------------------------------------------
\* Models and the room their points take

LEMMA Wraps == \A n \in Nat : n % Words \in Uint16
<1>1. \A m \in Nat \ {0} : \A n \in Nat : n % m \in 0 .. m - 1
  OBVIOUS
<1>2. Words \in Nat \ {0}
  BY DEF Words
<1> QED
  BY <1>1, <1>2 DEF Uint16

LEMMA Uint16Facts == 0 \in Uint16 /\ Uint16 \subseteq Nat
<1>1. Words \in Nat \ {0}
  BY DEF Words
<1> QED
  BY <1>1 DEF Uint16

LEMMA PointRoom ==
    ASSUME NEW dp \in Points
    PROVE  PairSize(dp) \in Nat /\ Registers(dp) \in Nat
<1>1. dp.len \in Nat
  BY DEF Points
<1>2. TypeSize(dp.type) \in {0, 2, 4, 8}
  BY DEF TypeSize
<1>3. PairSize(dp) \in Nat
  BY <1>1, <1>2 DEF PairSize
<1>4. (dp.len + 1) \div 2 \in Nat
  BY <1>1
<1>5. TypeSize(dp.type) \div 2 \in Nat
  BY <1>2
<1> QED
  BY <1>3, <1>4, <1>5 DEF Registers

LEMMA ModelFacts ==
    ASSUME model \in Models
    PROVE  /\ Len(model) \in Nat \ {0}
           /\ \A bb \in 1 .. Len(model) :
                /\ Len(model[bb].dps) \in Nat \ {0}
                /\ model[bb].repeating \in BOOLEAN
                /\ \A pp \in 1 .. Len(model[bb].dps) : model[bb].dps[pp] \in Points
                /\ model[bb].repeating => \E pp \in 1 .. Len(model[bb].dps) : Counts(bb, pp)
<1>1. model \in Seq(Blocks) /\ model # <<>>
  BY ModelsAssumption DEF IsModel
<1>2. Len(model) \in Nat \ {0}
  BY <1>1
<1>3. ASSUME NEW bb \in 1 .. Len(model)
      PROVE  /\ Len(model[bb].dps) \in Nat \ {0}
             /\ model[bb].repeating \in BOOLEAN
             /\ \A pp \in 1 .. Len(model[bb].dps) : model[bb].dps[pp] \in Points
             /\ model[bb].repeating => \E pp \in 1 .. Len(model[bb].dps) : Counts(bb, pp)
  <2>1. model[bb] \in Blocks
    BY <1>1, ElementOfSeq
  <2>2. model[bb].dps \in Seq(Points) /\ model[bb].repeating \in BOOLEAN
    BY <2>1 DEF Blocks
  <2>3. model[bb].dps # <<>>
    BY ModelsAssumption DEF IsModel
  <2>4. Len(model[bb].dps) \in Nat \ {0}
    BY <2>2, <2>3
  <2>5. \A pp \in 1 .. Len(model[bb].dps) : model[bb].dps[pp] \in Points
    BY <2>2, ElementOfSeq
  <2>6. model[bb].repeating => \E pp \in 1 .. Len(model[bb].dps) : Counts(bb, pp)
    BY ModelsAssumption DEF Counts
  <2> QED
    BY <2>2, <2>4, <2>5, <2>6
<1> QED
  BY <1>2, <1>3

\* The current point.
LEMMA DpFacts ==
    ASSUME model \in Models, b \in 1 .. Len(model), p \in 1 .. Len(Dps)
    PROVE  /\ Dp \in Points /\ Dp.offset \in Nat
           /\ PairSize(Dp) \in Nat /\ Registers(Dp) \in Nat
<1>1. Dp \in Points
  BY ModelFacts DEF Dp, Dps
<1>2. Dp.offset \in Nat
  BY <1>1 DEF Points
<1> QED
  BY <1>1, <1>2, PointRoom

-----------------------------------------------------------------------------
\* Values

\* The fields of a value.
LEMMA ValueFields ==
    ASSUME values \in Seq(Values), NEW n \in 1 .. Len(values)
    PROVE  /\ values[n] \in Values
           /\ values[n].block \in Nat /\ values[n].point \in Nat
           /\ values[n].index \in Nat \ {0} /\ values[n].at \in Nat
           /\ values[n].implemented \in BOOLEAN /\ values[n].sf \in Int
<1>1. values[n] \in Values
  BY ElementOfSeq
<1> QED
  BY <1>1 DEF Values

\* What a name finds depends on the points of the values only.
LEMMA SamePoints ==
    ASSUME model' = model, Len(values') = Len(values),
           \A n \in 1 .. Len(values) : /\ values'[n].block = values[n].block
                                       /\ values'[n].point = values[n].point
    PROVE  /\ \A n \in 1 .. Len(values) : DpOf(values[n])' = DpOf(values[n])
           /\ \A name : WithName(name)' = WithName(name)
<1>1. \A n \in 1 .. Len(values) : DpOf(values[n])' = DpOf(values[n])
  BY DEF DpOf
<1>2. ASSUME NEW name
      PROVE  WithName(name)' = WithName(name)
  BY <1>1 DEF WithName
<1> QED
  BY <1>1, <1>2

\* A step that leaves the values and the model alone.
LEMMA ValuesUnchanged ==
    ASSUME IInv, model' = model, values' = values
    PROVE  /\ EveryByteOnce'
           /\ End' = End
           /\ v' = v => ScaledByName'
           /\ did_len' = did_len \/ values = <<>> => ValuesInv'
           /\ v' = v /\ (pc \in {"resolve", "decoded"} => pc' \in {"resolve", "decoded"})
                 => ResolveInv'
<1>1. \A n : DpOf(values[n])' = DpOf(values[n])
  BY DEF DpOf
<1>2. \A name : WithName(name)' = WithName(name)
  BY <1>1 DEF WithName
<1>3. EveryByteOnce'
  BY <1>1 DEF IInv, EveryByteOnce
<1>4. End' = End
  BY <1>1 DEF End
<1>5. v' = v => ScaledByName'
  <2>1. \A n : NeedsScaleFactor(values[n])' <=> NeedsScaleFactor(values[n])
    BY <1>1, <1>2 DEF NeedsScaleFactor
  <2> QED
    BY <1>1, <1>2, <2>1 DEF IInv, ScaledByName
<1>6. ValuesInv
  BY DEF IInv
<1>7. ASSUME did_len' = did_len
      PROVE  ValuesInv'
  BY <1>1, <1>6, <1>7 DEF ValuesInv
<1>8. ASSUME values = <<>>
      PROVE  ValuesInv'
  <2>1. \A n \in 1 .. Len(values') : FALSE
    BY <1>8
  <2> QED
    BY <1>6, <2>1 DEF ValuesInv
<1>9. v' = v /\ (pc \in {"resolve", "decoded"} => pc' \in {"resolve", "decoded"})
         => ResolveInv'
  BY DEF IInv, ResolveInv
<1> QED
  BY <1>3, <1>4, <1>5, <1>7, <1>8, <1>9

\* The state before a step.
LEMMA StateFacts ==
    ASSUME IInv
    PROVE  /\ model \in Models /\ Len(model) \in Nat \ {0} /\ b \in 1 .. Len(model)
           /\ Len(Dps) \in Nat \ {0} /\ p \in Nat \ {0}
           /\ pc \in {"fill", "points"} => p <= Len(Dps) + 1
           /\ did_len \in Nat /\ byte_offset \in Nat /\ byte_offset <= 2 * did_len
           /\ limit \in Nat /\ taken \in Nat
           /\ len_multiple \in Nat /\ repeat_index \in Nat \ {0}
           /\ repeat_index <= len_multiple + 1
<1>1. model \in Models
  BY DEF IInv, LayoutInv, LayoutTypes
<1>2. CursorInv
  BY DEF IInv
<1>3. Len(model) \in Nat \ {0} /\ b \in 1 .. Len(model) /\ Len(Dps) \in Nat \ {0}
  BY <1>1, <1>2, ModelFacts DEF CursorInv, Dps
<1>4. p \in Nat \ {0} /\ (pc \in {"fill", "points"} => p <= Len(Dps) + 1)
  BY <1>2 DEF CursorInv, Dps
<1>5. did_len \in Nat
  BY <1>2, ModelsAssumption DEF CursorInv
<1>6. byte_offset \in Nat /\ byte_offset <= 2 * did_len
  BY DEF IInv, BytesInv
<1>7. /\ limit \in Nat /\ taken \in Nat
      /\ len_multiple \in Nat /\ repeat_index \in 1 .. len_multiple + 1
  BY <1>2 DEF CursorInv
<1>8. repeat_index \in Nat \ {0} /\ repeat_index <= len_multiple + 1
  BY <1>7
<1> QED
  BY <1>1, <1>3, <1>4, <1>5, <1>6, <1>7, <1>8

\* A step of the decoder that leaves the layout alone.
LEMMA LayoutUnchanged ==
    ASSUME IInv, UNCHANGED layoutVars, pc # "fill", pc' # "fill"
    PROVE  LayoutInv'
<1>1. /\ model' = model /\ offset' = offset /\ block_len' = block_len
      /\ base_len' = base_len /\ len' = len /\ dp_block_offset' = dp_block_offset
  BY DEF layoutVars
<1>2. LayoutTypes /\ Divisible
  BY DEF IInv, LayoutInv
<1>3. LayoutTypes'
  BY <1>1, <1>2 DEF LayoutTypes
<1>4. Divisible'
  BY <1>1, <1>2 DEF Divisible
<1> QED
  BY <1>3, <1>4 DEF LayoutInv

-----------------------------------------------------------------------------
\* Steps

LEMMA InitIInv == Init => IInv
<1> SUFFICES ASSUME Init PROVE IInv
  OBVIOUS
<1>1. /\ model \in Models /\ pc = "fill" /\ b = 1 /\ p = 1 /\ dp_block_offset = 0
      /\ did_len = 0 /\ byte_offset = 0 /\ values = <<>> /\ v = 1
  BY DEF Init
<1>2. /\ Len(model) \in Nat \ {0}
      /\ \A bb \in 1 .. Len(model) :
            /\ Len(model[bb].dps) \in Nat \ {0}
            /\ \A pp \in 1 .. Len(model[bb].dps) : model[bb].dps[pp] \in Points
  BY <1>1, ModelFacts
<1>3. ASSUME NEW bb \in 1 .. Len(model)
      PROVE  /\ offset[bb] \in Seq(Nat) /\ Len(offset[bb]) = Len(model[bb].dps)
             /\ \A pp \in 1 .. Len(model[bb].dps) :
                   offset[bb][pp] = model[bb].dps[pp].offset
  <2>1. offset[bb] = [pp \in 1 .. Len(model[bb].dps) |-> model[bb].dps[pp].offset]
    BY DEF Init
  <2>2. \A pp \in 1 .. Len(model[bb].dps) : model[bb].dps[pp].offset \in Nat
    BY <1>2 DEF Points
  <2>3. Len(model[bb].dps) \in Nat
    BY <1>2
  <2> QED
    BY <2>1, <2>2, <2>3
<1>4. offset \in [1 .. Len(model) -> Seq(Nat)]
  BY <1>3 DEF Init
<1>5. block_len \in [1 .. Len(model) -> Nat]
  BY DEF Init
<1>6. LayoutInv
  <2>1. LayoutTypes
    BY <1>1, <1>3, <1>4, <1>5, Uint16Facts DEF LayoutTypes, Init
  <2>2. Untouched
    BY <1>3 DEF Untouched
  <2>3. CountedSoFar /\ Divisible
    BY <1>1, <1>2 DEF CountedSoFar, Divisible
  <2> QED
    BY <2>1, <2>2, <2>3 DEF LayoutInv
<1>7. CursorInv
  BY <1>1, <1>2, ModelsAssumption DEF CursorInv, Init
<1>8. BytesInv
  BY <1>1 DEF BytesInv
<1>9. ValuesInv /\ ResolveInv /\ EveryByteOnce /\ ScaledByName
  BY <1>1 DEF ValuesInv, ResolveInv, EveryByteOnce, ScaledByName
<1> QED
  BY <1>6, <1>7, <1>8, <1>9 DEF IInv

LEMMA FillPointStep ==
    ASSUME IInv, FillPoint
    PROVE  IInv'
<1> DEFINE at == IF offset[b][p] > 0 THEN offset[b][p] ELSE dp_block_offset
<1>1. /\ pc = "fill" /\ p <= Len(Dps) /\ p' = p + 1
      /\ offset' = [offset EXCEPT ![b][p] = at]
      /\ dp_block_offset' = at + Registers(Dp)
      /\ UNCHANGED <<model, block_len, base_len, len, blockVars, pc, b, did_len,
                     byte_offset, values, v>>
  BY DEF FillPoint
<1>2. /\ b \in 1 .. Len(model) /\ p \in 1 .. Len(Dps)
      /\ Len(Dps) \in Nat /\ Len(model) \in Nat
  BY <1>1, StateFacts
<1>3. /\ Dp \in Points /\ Dp.offset \in Nat /\ Registers(Dp) \in Nat
  BY <1>2, DpFacts DEF IInv, LayoutInv, LayoutTypes
<1>4. /\ offset \in [1 .. Len(model) -> Seq(Nat)]
      /\ offset[b] \in Seq(Nat) /\ Len(offset[b]) = Len(Dps)
      /\ offset[b][p] = Dp.offset
      /\ dp_block_offset \in Nat
  <2>1. LayoutTypes /\ Untouched
    BY <1>1 DEF IInv, LayoutInv
  <2>2. /\ offset \in [1 .. Len(model) -> Seq(Nat)] /\ dp_block_offset \in Nat
        /\ Len(offset[b]) = Len(Dps)
    BY <1>2, <2>1 DEF LayoutTypes, Dps
  <2>3. offset[b][p] = Dp.offset
    BY <1>2, <2>1 DEF Untouched, Dp, Dps
  <2> QED
    BY <1>2, <2>2, <2>3
<1>5. at \in Nat /\ at >= 0 /\ (Dp.offset > 0 => at > 0)
      /\ (dp_block_offset > 0 => at > 0)
  BY <1>3, <1>4
<1> HIDE DEF at
<1>6. offset' = [offset EXCEPT ![b] = [offset[b] EXCEPT ![p] = at]]
  BY <1>1, <1>2, <1>4
<1>7. /\ [offset[b] EXCEPT ![p] = at] \in Seq(Nat)
      /\ Len([offset[b] EXCEPT ![p] = at]) = Len(Dps)
      /\ \A pp \in 1 .. Len(Dps) :
            pp # p => [offset[b] EXCEPT ![p] = at][pp] = offset[b][pp]
  BY <1>2, <1>4, <1>5, ExceptSeq
<1>8. /\ offset' \in [1 .. Len(model) -> Seq(Nat)]
      /\ \A bb \in 1 .. Len(model) : bb # b => offset'[bb] = offset[bb]
      /\ Len(offset'[b]) = Len(Dps)
      /\ \A pp \in 1 .. Len(Dps) : pp # p => offset'[b][pp] = offset[b][pp]
  BY <1>2, <1>4, <1>6, <1>7
<1>9. dp_block_offset' \in Nat
  BY <1>1, <1>3, <1>5
<1>10. ASSUME NEW pp \in 1 .. p, Counts(b, pp)
       PROVE  dp_block_offset' > 0
  <2>1. CASE pp = p
    <3>1. Registers(Dp) > 0 \/ Dp.offset > 0
      BY <1>10, <2>1 DEF Counts, Dp
    <3> QED
      BY <3>1, <1>1, <1>3, <1>5
  <2>2. CASE pp # p
    <3>1. pp \in 1 .. p - 1
      BY <2>2, <1>2
    <3>2. dp_block_offset > 0
      BY <3>1, <1>1, <1>10 DEF IInv, LayoutInv, CountedSoFar
    <3> QED
      BY <3>2, <1>1, <1>3, <1>5
  <2> QED
    BY <2>1, <2>2
<1>11. ASSUME NEW bb \in 1 .. Len(model), NEW pp \in 1 .. Len(model[bb].dps),
              bb > b \/ (bb = b /\ pp >= p')
       PROVE  offset'[bb][pp] = model[bb].dps[pp].offset
  <2>1. offset[bb][pp] = model[bb].dps[pp].offset
    <3>1. bb > b \/ (bb = b /\ pp >= p)
      BY <1>11, <1>1, <1>2
    <3> QED
      BY <3>1, <1>1 DEF IInv, LayoutInv, Untouched
  <2>2. CASE bb = b
    <3>1. pp # p /\ pp \in 1 .. Len(Dps)
      BY <1>1, <1>2, <1>11, <2>2 DEF Dps
    <3> QED
      BY <3>1, <2>1, <2>2, <1>8
  <2>3. CASE bb # b
    BY <2>1, <2>3, <1>8
  <2> QED
    BY <2>2, <2>3
<1>12. LayoutTypes'
  <2>1. \A bb \in 1 .. Len(model) : Len(offset'[bb]) = Len(model[bb].dps)
    BY <1>8 DEF IInv, LayoutInv, LayoutTypes, Dps
  <2> QED
    BY <1>1, <1>8, <1>9, <2>1 DEF IInv, LayoutInv, LayoutTypes
<1>13. CountedSoFar'
  <2>1. p' - 1 = p
    BY <1>1, <1>2
  <2> QED
    BY <1>1, <1>10, <2>1 DEF CountedSoFar, Counts
<1>14. LayoutInv'
  <2>1. Untouched'
    BY <1>1, <1>11 DEF Untouched
  <2>2. Divisible'
    BY <1>1 DEF IInv, LayoutInv, Divisible
  <2> QED
    BY <1>12, <1>13, <2>1, <2>2 DEF LayoutInv
<1>15. CursorInv'
  <2>1. p' \in Nat \ {0} /\ p' <= Len(model[b].dps) + 1
    BY <1>1, <1>2 DEF Dps
  <2>2. CursorInv
    BY DEF IInv
  <2> QED
    BY <1>1, <2>1, <2>2 DEF CursorInv, blockVars
<1>16. BytesInv'
  BY <1>1, ValuesUnchanged DEF IInv, BytesInv, blockVars
<1> QED
  BY <1>1, <1>14, <1>15, <1>16, ValuesUnchanged DEF IInv

LEMMA FillBlockStep ==
    ASSUME IInv, FillBlock
    PROVE  IInv'
<1>1. /\ pc = "fill" /\ p > Len(Dps) /\ p' = 1
      /\ block_len' = [block_len EXCEPT ![b] = dp_block_offset]
      /\ len' = (len + dp_block_offset) % Words
      /\ base_len' = IF model[b].repeating THEN base_len
                     ELSE (base_len + dp_block_offset) % Words
      /\ dp_block_offset' = 0
      /\ IF b < Len(model) THEN b' = b + 1 /\ pc' = "fill" ELSE b' = 1 /\ pc' = "loaded"
      /\ UNCHANGED <<model, offset, blockVars, did_len, byte_offset, values, v>>
  BY DEF FillBlock
<1>2. /\ b \in 1 .. Len(model) /\ Len(model) \in Nat \ {0}
      /\ Len(Dps) \in Nat \ {0} /\ p = Len(Dps) + 1
      /\ dp_block_offset \in Nat /\ base_len \in Nat /\ len \in Nat
      /\ block_len \in [1 .. Len(model) -> Nat]
  <2>1. LayoutTypes
    BY DEF IInv, LayoutInv
  <2>2. /\ dp_block_offset \in Nat /\ base_len \in Nat /\ len \in Nat
        /\ block_len \in [1 .. Len(model) -> Nat]
    BY <2>1, Uint16Facts DEF LayoutTypes
  <2>3. /\ b \in 1 .. Len(model) /\ Len(model) \in Nat \ {0}
        /\ Len(Dps) \in Nat \ {0} /\ p \in Nat
    BY StateFacts
  <2>4. p > Len(Dps) /\ p <= Len(Dps) + 1
    BY <1>1, StateFacts
  <2>5. p = Len(Dps) + 1
    BY <2>3, <2>4
  <2> QED
    BY <2>2, <2>3, <2>5
<1>3. /\ block_len' \in [1 .. Len(model) -> Nat]
      /\ block_len'[b] = dp_block_offset
      /\ \A bb \in 1 .. Len(model) : bb # b => block_len'[bb] = block_len[bb]
  BY <1>1, <1>2
<1>4. base_len' \in Uint16 /\ len' \in Uint16
  <2>1. (len + dp_block_offset) \in Nat /\ (base_len + dp_block_offset) \in Nat
    BY <1>2
  <2>2. base_len \in Uint16
    BY DEF IInv, LayoutInv, LayoutTypes
  <2> QED
    BY <1>1, <2>1, <2>2, Wraps
<1>5. model[b].repeating => block_len'[b] > 0
  <2> SUFFICES ASSUME model[b].repeating PROVE dp_block_offset > 0
    BY <1>3
  <2>1. PICK pp \in 1 .. Len(Dps) : Counts(b, pp)
    BY <1>2, ModelFacts DEF IInv, LayoutInv, LayoutTypes, Dps
  <2>2. pp \in 1 .. p - 1
    BY <1>2
  <2> QED
    BY <1>1, <2>1, <2>2 DEF IInv, LayoutInv, CountedSoFar
<1>6. ASSUME NEW bb \in 1 .. Len(model), pc' = "fill" => bb < b', model[bb].repeating
      PROVE  block_len'[bb] > 0
  <2>1. CASE bb = b
    BY <2>1, <1>5, <1>6
  <2>2. CASE bb # b
    <3>1. bb < b
      BY <1>1, <1>2, <1>6, <2>2
    <3>2. block_len[bb] > 0
      BY <3>1, <1>6 DEF IInv, LayoutInv, Divisible
    <3> QED
      BY <3>2, <2>2, <1>3
  <2> QED
    BY <2>1, <2>2
<1>7. ASSUME NEW bb \in 1 .. Len(model), bb > b, NEW pp \in 1 .. Len(model[bb].dps)
      PROVE  offset[bb][pp] = model[bb].dps[pp].offset
  BY <1>1, <1>7 DEF IInv, LayoutInv, Untouched
<1>8. LayoutInv'
  <2>1. LayoutTypes'
    BY <1>1, <1>3, <1>4 DEF IInv, LayoutInv, LayoutTypes
  <2>2. pc' = "fill" => Untouched'
    <3> SUFFICES ASSUME pc' = "fill" PROVE Untouched'
      OBVIOUS
    <3>1. b' = b + 1
      BY <1>1
    <3>2. ASSUME NEW bb \in 1 .. Len(model), bb > b' \/ bb = b'
          PROVE  bb > b
      BY <1>2, <3>1, <3>2
    <3> QED
      BY <1>1, <1>7, <3>2 DEF Untouched
  <2>3. CountedSoFar'
    BY <1>1 DEF CountedSoFar
  <2>4. Divisible'
    BY <1>1, <1>6 DEF Divisible
  <2> QED
    BY <2>1, <2>2, <2>3, <2>4 DEF LayoutInv
<1>9. CursorInv'
  <2>1. b' \in 1 .. Len(model)
    BY <1>1, <1>2
  <2>2. Len(model[b'].dps) \in Nat
    BY <2>1, ModelFacts DEF IInv, LayoutInv, LayoutTypes
  <2> QED
    BY <2>1, <2>2, <1>1 DEF IInv, CursorInv, blockVars
<1>10. BytesInv'
  BY <1>1 DEF IInv, BytesInv, blockVars
<1>11. pc \notin {"resolve", "decoded"}
  BY <1>1
<1> QED
  BY <1>1, <1>8, <1>9, <1>10, <1>11, ValuesUnchanged DEF IInv

LEMMA DecodeDataStep ==
    ASSUME IInv, DecodeData
    PROVE  IInv'
<1>1. /\ pc = "loaded" /\ pc' = "block" /\ did_len' \in 0 .. MaxLen
      /\ UNCHANGED <<layoutVars, blockVars, b, p, byte_offset, values, v>>
      /\ model' = model
  BY DEF DecodeData, layoutVars
<1>2. values = <<>> /\ byte_offset = 0 /\ values' = <<>> /\ byte_offset' = 0
  BY <1>1 DEF IInv, BytesInv
<1>3. CursorInv'
  BY <1>1 DEF IInv, CursorInv, blockVars
<1>4. BytesInv'
  <2>1. did_len' \in Nat
    BY <1>1, ModelsAssumption
  <2>2. 0 <= 2 * did_len'
    <3>1. \A n \in Nat : 0 <= 2 * n
      OBVIOUS
    <3> QED
      BY <2>1, <3>1
  <2>3. End' = 0
    BY <1>2 DEF End
  <2>4. pc' = "block"
    BY <1>1
  <2> QED
    BY <1>2, <2>2, <2>3, <2>4 DEF BytesInv
<1> QED
  BY <1>1, <1>2, <1>3, <1>4, ValuesUnchanged, LayoutUnchanged DEF IInv

LEMMA EnterBlockStep ==
    ASSUME IInv, EnterBlock
    PROVE  IInv'
<1>1. /\ pc = "block" /\ pc' = "points" /\ limit' = did_len * 2 - byte_offset
      /\ len_multiple' = IF model[b].repeating
                         THEN (limit' \div block_len[b]) \div 2 ELSE 1
      /\ repeat_index' = 1 /\ taken' = 0 /\ p' = 1
      /\ UNCHANGED <<layoutVars, b, did_len, byte_offset, values, v>>
      /\ model' = model
  BY DEF EnterBlock, layoutVars
<1>2. /\ did_len \in Nat /\ byte_offset \in Nat /\ byte_offset <= 2 * did_len
  BY StateFacts
<1>3. limit' \in Nat /\ limit' = 2 * did_len - byte_offset
  BY <1>1, <1>2
<1>4. b \in 1 .. Len(model) /\ Len(Dps) \in Nat
  BY StateFacts
<1>5. len_multiple' \in Nat
  <2>1. CASE model[b].repeating
    <3>1. block_len[b] \in Nat /\ block_len[b] > 0
      BY <1>1, <1>4, <2>1 DEF IInv, LayoutInv, LayoutTypes, Divisible
    <3>2. limit' \div block_len[b] \in Nat
      BY <1>3, <3>1
    <3>3. (limit' \div block_len[b]) \div 2 \in Nat
      BY <3>2
    <3> QED
      BY <3>3, <2>1, <1>1
  <2>2. CASE ~model[b].repeating
    BY <2>2, <1>1
  <2> QED
    BY <2>1, <2>2
<1>6. CursorInv'
  BY <1>1, <1>3, <1>4, <1>5 DEF IInv, CursorInv, Dps
<1>7. BytesInv'
  BY <1>1, <1>2, <1>3, ValuesUnchanged DEF IInv, BytesInv
<1> QED
  BY <1>1, <1>6, <1>7, ValuesUnchanged, LayoutUnchanged DEF IInv

LEMMA NextRepetitionStep ==
    ASSUME IInv, NextRepetition
    PROVE  IInv'
<1>1. /\ pc = "points" /\ pc' = "points" /\ repeat_index <= len_multiple
      /\ repeat_index' = repeat_index + 1 /\ p' = 1
      /\ UNCHANGED <<layoutVars, limit, len_multiple, taken, b, did_len,
                     byte_offset, values, v>>
      /\ model' = model
  BY DEF NextRepetition, layoutVars
<1>2. CursorInv'
  <2>1. repeat_index + 1 \in 1 .. len_multiple + 1
    <3>1. repeat_index \in Nat \ {0} /\ len_multiple \in Nat
      BY StateFacts
    <3> QED
      BY <1>1, <3>1
  <2>2. p' \in Nat \ {0} /\ p' <= Len(model[b].dps) + 1
    <3>1. Len(model[b].dps) \in Nat \ {0}
      BY StateFacts DEF Dps
    <3>2. 1 <= Len(model[b].dps) + 1
      BY <3>1
    <3> QED
      BY <1>1, <3>2
  <2>3. CursorInv
    BY DEF IInv
  <2> QED
    BY <1>1, <2>1, <2>2, <2>3 DEF CursorInv
<1>3. BytesInv'
  BY <1>1, ValuesUnchanged DEF IInv, BytesInv
<1> QED
  BY <1>1, <1>2, <1>3, ValuesUnchanged, LayoutUnchanged DEF IInv

\* A block is left, whether its data ran out or all its repetitions are done.
LEMMA ReturnFromBlockStep ==
    ASSUME IInv, pc = "points", ReturnFromBlock
    PROVE  IInv'
<1>1. /\ byte_offset' = byte_offset + taken
      /\ IF byte_offset' >= did_len * 2 + 4 THEN pc' = "decoded" /\ b' = b
         ELSE IF b < Len(model) THEN pc' = "block" /\ b' = b + 1
         ELSE pc' = "resolve" /\ b' = b
      /\ UNCHANGED <<layoutVars, blockVars, p, did_len, values, v>>
      /\ model' = model /\ did_len' = did_len /\ values' = values /\ v' = v
  BY DEF ReturnFromBlock, layoutVars
<1>2. pc' \in {"block", "resolve", "decoded"}
  BY <1>1
<1>3. b' \in 1 .. Len(model)
  <2>1. b \in 1 .. Len(model) /\ Len(model) \in Nat
    BY StateFacts
  <2>2. b' = b \/ (b' = b + 1 /\ b < Len(model))
    BY <1>1
  <2> QED
    BY <2>1, <2>2
<1>4. CursorInv'
  BY <1>1, <1>2, <1>3 DEF IInv, CursorInv, blockVars
<1>5. limit = 2 * did_len - byte_offset /\ taken <= limit /\ End = byte_offset + taken
  BY DEF IInv, BytesInv
<1>6. byte_offset' \in Nat /\ byte_offset' <= 2 * did_len'
  <2>1. did_len \in Nat /\ byte_offset \in Nat /\ taken \in Nat
    BY StateFacts
  <2>2. byte_offset + taken \in Nat /\ byte_offset + taken <= 2 * did_len
    BY <1>5, <2>1
  <2> QED
    BY <1>1, <2>2
<1>7. End' = byte_offset'
  BY <1>1, <1>5, ValuesUnchanged
<1>8. BytesInv'
  <2>1. pc' \notin {"fill", "loaded", "points"}
    BY <1>2
  <2>2. byte_offset' + 0 = byte_offset'
    <3>1. \A n \in Nat : n + 0 = n
      OBVIOUS
    <3> QED
      BY <1>6, <3>1
  <2> QED
    BY <1>6, <1>7, <2>1, <2>2 DEF BytesInv
<1> QED
  BY <1>1, <1>2, <1>4, <1>8, ValuesUnchanged, LayoutUnchanged DEF IInv

\* A value is decoded where the one before ends, within the data.
LEMMA DecodePointStep ==
    ASSUME IInv, DecodePoint
    PROVE  IInv'
<1>1. /\ pc = "points" /\ pc' = "points" /\ p <= Len(Dps)
      /\ taken + PairSize(Dp) <= limit
      /\ taken' = taken + PairSize(Dp) /\ p' = p + 1
      /\ UNCHANGED <<layoutVars, limit, len_multiple, repeat_index, b,
                     did_len, byte_offset, v>>
      /\ model' = model
  BY DEF DecodePoint, layoutVars
<1>2. PICK implemented \in BOOLEAN :
         values' = Append(values,
            [block |-> b, point |-> p, index |-> repeat_index,
             at |-> byte_offset + taken, implemented |-> implemented,
             sf |-> -1])
  BY DEF DecodePoint, Unresolved
<1> DEFINE value == [block |-> b, point |-> p, index |-> repeat_index,
                     at |-> byte_offset + taken, implemented |-> implemented,
                     sf |-> -1]
<1>3. /\ p \in 1 .. Len(Dps) /\ Len(Dps) \in Nat
      /\ b \in 1 .. Len(model) /\ Len(model) \in Nat
  <2>1. /\ p \in Nat \ {0} /\ Len(Dps) \in Nat
        /\ b \in 1 .. Len(model) /\ Len(model) \in Nat
    BY StateFacts
  <2>2. p <= Len(Dps)
    BY <1>1
  <2> QED
    BY <2>1, <2>2
<1>4. PairSize(Dp) \in Nat
  <2>1. model \in Models
    BY StateFacts
  <2> QED
    BY <1>3, <2>1, DpFacts
<1>5. byte_offset + taken \in Nat
  BY StateFacts
<1>6. value \in Values
  BY <1>3, <1>5, StateFacts DEF Values
<1>7. /\ value.block = b /\ value.point = p /\ value.at = byte_offset + taken
      /\ value.sf = -1
  OBVIOUS
<1>8. values' = Append(values, value)
  BY <1>2
<1> HIDE DEF value
<1>9. values \in Seq(Values) /\ Len(values) \in Nat
  BY LenProperties DEF IInv, ValuesInv
<1>10. /\ values' \in Seq(Values) /\ Len(values') = Len(values) + 1 /\ values' # <<>>
       /\ \A n \in 1 .. Len(values) : values'[n] = values[n]
       /\ values'[Len(values) + 1] = value
  BY <1>6, <1>8, <1>9, AppendProperties
<1>11. /\ \A n \in 1 .. Len(values) : DpOf(values[n])' = DpOf(values[n])
       /\ \A n : n = Len(values) + 1 => DpOf(values[n])' = Dp
  <2>1. \A n \in 1 .. Len(values) : DpOf(values[n])' = DpOf(values[n])
    BY <1>1, <1>10 DEF DpOf
  <2>2. ASSUME NEW n, n = Len(values) + 1
        PROVE  DpOf(values[n])' = Dp
    <3>1. values'[n] = value
      BY <1>10, <2>2
    <3> QED
      BY <3>1, <1>1, <1>7 DEF DpOf, Dp
  <2> QED
    BY <2>1, <2>2
<1>12. limit = 2 * did_len - byte_offset /\ End = byte_offset + taken
  BY <1>1 DEF IInv, BytesInv
<1>13. \A n \in 1 .. Len(values') : n \in 1 .. Len(values) \/ n = Len(values) + 1
  BY <1>9, <1>10
<1>14. End' = byte_offset + taken'
  <2>1. PICK last : last = Len(values) + 1
    OBVIOUS
  <2>2. last = Len(values') /\ values'[last].at = byte_offset + taken
    BY <1>7, <1>10, <2>1
  <2>3. DpOf(values[last])' = Dp
    BY <1>11, <2>1
  <2>4. End' = byte_offset + taken + PairSize(Dp)
    BY <1>10, <2>2, <2>3 DEF End
  <2>5. byte_offset \in Nat /\ taken \in Nat
    BY StateFacts
  <2> QED
    BY <1>1, <1>4, <2>4, <2>5
<1>15. BytesInv'
  <2>1. taken' <= limit
    BY <1>1
  <2> QED
    BY <1>1, <1>12, <1>14, <2>1, StateFacts DEF BytesInv
<1>16. CursorInv'
  <2>1. taken + PairSize(Dp) \in Nat
    <3>1. taken \in Nat
      BY StateFacts
    <3> QED
      BY <1>4, <3>1
  <2>2. p + 1 \in Nat \ {0} /\ p + 1 <= Len(model[b].dps) + 1
    BY <1>3 DEF Dps
  <2>3. CursorInv
    BY DEF IInv
  <2> QED
    BY <1>1, <2>1, <2>2, <2>3 DEF CursorInv
<1>17. ValuesInv'
  <2>1. ASSUME NEW n \in 1 .. Len(values)
        PROVE  /\ values'[n].block \in 1 .. Len(model)
               /\ values'[n].point \in 1 .. Len(model[values'[n].block].dps)
               /\ values'[n].sf \in -1 .. Len(values')
               /\ values'[n].at + PairSize(DpOf(values[n])') <= 2 * did_len
    <3>1. /\ values[n].block \in 1 .. Len(model)
          /\ values[n].point \in 1 .. Len(model[values[n].block].dps)
          /\ values[n].sf \in -1 .. Len(values)
          /\ values[n].at + PairSize(DpOf(values[n])) <= 2 * did_len
      BY DEF IInv, ValuesInv
    <3>2. values[n].sf \in -1 .. Len(values) + 1
      BY <1>9, <3>1
    <3> QED
      BY <3>1, <3>2, <1>10, <1>11
  <2>2. /\ value.block \in 1 .. Len(model)
        /\ value.point \in 1 .. Len(model[value.block].dps)
        /\ value.sf \in -1 .. Len(values')
    BY <1>3, <1>7, <1>9, <1>10 DEF Dps
  <2>3. value.at + PairSize(Dp) <= 2 * did_len
    <3>1. did_len \in Nat /\ byte_offset \in Nat /\ taken \in Nat
      BY StateFacts
    <3>2. byte_offset + taken + PairSize(Dp) <= 2 * did_len
      BY <3>1, <1>1, <1>4, <1>12
    <3> QED
      BY <3>2, <1>7
  <2>4. ASSUME NEW n \in 1 .. Len(values')
        PROVE  /\ values'[n].block \in 1 .. Len(model)
               /\ values'[n].point \in 1 .. Len(model[values'[n].block].dps)
               /\ values'[n].sf \in -1 .. Len(values')
               /\ values'[n].at + PairSize(DpOf(values[n])') <= 2 * did_len
    <3>1. CASE n \in 1 .. Len(values)
      BY <3>1, <2>1
    <3>2. CASE n = Len(values) + 1
      BY <3>2, <2>2, <2>3, <1>10, <1>11
    <3> QED
      BY <3>1, <3>2, <1>13
  <2> QED
    BY <1>1, <1>10, <2>4 DEF ValuesInv, PairSize
<1>18. EveryByteOnce'
  <2>1. ASSUME NEW n \in 1 .. Len(values')
        PROVE  values'[n].at = IF n = 1 THEN 0
                     ELSE values'[n - 1].at + PairSize(DpOf(values[n - 1])')
    <3>1. CASE n \in 1 .. Len(values)
      <4>1. values[n].at = IF n = 1 THEN 0
                           ELSE values[n - 1].at + PairSize(DpOf(values[n - 1]))
        BY <3>1 DEF IInv, EveryByteOnce
      <4>2. n # 1 => n - 1 \in 1 .. Len(values)
        BY <3>1, <1>9
      <4> QED
        BY <3>1, <4>1, <4>2, <1>10, <1>11
    <3>2. CASE n = Len(values) + 1
      <4>1. values'[n].at = End
        BY <3>2, <1>7, <1>10, <1>12
      <4>2. CASE values = <<>>
        BY <3>2, <4>1, <4>2 DEF End
      <4>3. CASE values # <<>>
        <5>1. n # 1 /\ n - 1 = Len(values) /\ Len(values) \in 1 .. Len(values)
          BY <3>2, <4>3, <1>9
        <5>2. End = values[Len(values)].at + PairSize(DpOf(values[Len(values)]))
          BY <4>3 DEF End
        <5> QED
          BY <4>1, <5>1, <5>2, <1>10, <1>11
      <4> QED
        BY <4>2, <4>3
    <3> QED
      BY <3>1, <3>2, <1>13
  <2> QED
    BY <2>1 DEF EveryByteOnce
<1>19. v = 1 /\ \A n \in 1 .. Len(values') : values'[n].sf = -1
  <2>1. v = 1 /\ \A n \in 1 .. Len(values) : values[n].sf = -1
    BY <1>1 DEF IInv, ResolveInv
  <2> QED
    BY <2>1, <1>7, <1>10, <1>13
<1>20. ResolveInv'
  <2>1. v' = 1
    BY <1>1, <1>19
  <2>2. v' \in 1 .. Len(values') + 1
    BY <2>1, <1>9, <1>10
  <2> QED
    BY <2>1, <2>2, <1>19 DEF ResolveInv
<1>21. ScaledByName'
  <2>1. \A n \in 1 .. Len(values') : ~(n < v')
    BY <1>1, <1>9, <1>10, <1>19
  <2>2. \A n \in 1 .. Len(values') : ~(values'[n].sf > 0) /\ values'[n].sf # 0
    BY <1>19
  <2> QED
    BY <2>1, <2>2 DEF ScaledByName, Zero
<1> QED
  BY <1>1, <1>15, <1>16, <1>17, <1>18, <1>20, <1>21, LayoutUnchanged DEF IInv

LEMMA Stutter ==
    ASSUME IInv, UNCHANGED vars
    PROVE  IInv'
<1>1. /\ UNCHANGED layoutVars /\ UNCHANGED blockVars
      /\ pc' = pc /\ b' = b /\ p' = p /\ did_len' = did_len
      /\ byte_offset' = byte_offset /\ values' = values /\ v' = v
  BY DEF vars
<1>2. /\ model' = model /\ offset' = offset /\ block_len' = block_len
      /\ base_len' = base_len /\ len' = len /\ dp_block_offset' = dp_block_offset
  BY <1>1 DEF layoutVars
<1>3. LayoutInv'
  BY <1>1, <1>2 DEF IInv, LayoutInv, LayoutTypes, Untouched, CountedSoFar,
                    Divisible, Counts
<1>4. CursorInv'
  BY <1>1, <1>2 DEF IInv, CursorInv, blockVars
<1>5. BytesInv'
  BY <1>1, <1>2, ValuesUnchanged DEF IInv, BytesInv, blockVars
<1> QED
  BY <1>1, <1>2, <1>3, <1>4, <1>5, ValuesUnchanged DEF IInv

LEMMA PointMissingStep ==
    ASSUME IInv, PointMissing
    PROVE  IInv'
  BY ReturnFromBlockStep DEF PointMissing

LEMMA BlockDoneStep ==
    ASSUME IInv, BlockDone
    PROVE  IInv'
  BY ReturnFromBlockStep DEF BlockDone

\* Nothing but the values, the cursor v and pc changes while scale factors are
\* looked for.
LEMMA ResolvingKeeps ==
    ASSUME IInv, pc = "resolve", pc' \in {"resolve", "decoded"},
           UNCHANGED <<layoutVars, blockVars, b, p, did_len, byte_offset>>
    PROVE  LayoutInv' /\ CursorInv' /\ BytesInv'
<1>1. UNCHANGED layoutVars /\ model' = model
  BY DEF layoutVars
<1>2. LayoutInv'
  BY <1>1, LayoutUnchanged
<1>3. CursorInv'
  BY <1>1 DEF IInv, CursorInv, blockVars
<1>4. BytesInv'
  BY DEF IInv, BytesInv
<1> QED
  BY <1>2, <1>3, <1>4

LEMMA ResolvePassesStep ==
    ASSUME IInv, ResolvePasses
    PROVE  IInv'
<1>1. /\ pc = "resolve" /\ pc' = "resolve" /\ v <= Len(values) /\ v' = v + 1
      /\ ~NeedsScaleFactor(values[v])
      /\ UNCHANGED <<layoutVars, blockVars, b, p, did_len, byte_offset>>
      /\ model' = model /\ values' = values /\ did_len' = did_len
  BY DEF ResolvePasses, ResolveStep, layoutVars
<1>2. v \in Nat \ {0} /\ Len(values) \in Nat
  BY LenProperties DEF IInv, ResolveInv, ValuesInv
<1>3. \A n : /\ DpOf(values[n])' = DpOf(values[n])
             /\ NeedsScaleFactor(values[n])' <=> NeedsScaleFactor(values[n])
  <2>1. \A n : DpOf(values[n])' = DpOf(values[n])
    BY <1>1 DEF DpOf
  <2>2. \A name : WithName(name)' = WithName(name)
    BY <1>1, <2>1 DEF WithName
  <2> QED
    BY <2>1, <2>2 DEF NeedsScaleFactor
<1>4. \A name : WithName(name)' = WithName(name)
  BY <1>1, <1>3 DEF WithName
<1>5. ResolveInv'
  BY <1>1, <1>2 DEF ResolveInv
<1>6. ScaledByName'
  <2>1. ASSUME NEW n \in 1 .. Len(values), n < v', NeedsScaleFactor(values[n])
        PROVE  values[n].sf # Unresolved
    <3>1. n # v
      BY <1>1, <2>1
    <3>2. n < v
      BY <3>1, <1>1, <1>2, <2>1
    <3> QED
      BY <3>2, <2>1 DEF IInv, ScaledByName
  <2> QED
    BY <2>1, <1>1, <1>3, <1>4 DEF IInv, ScaledByName
<1> QED
  BY <1>1, <1>5, <1>6, ResolvingKeeps, ValuesUnchanged DEF IInv

LEMMA ResolveEnds ==
    ASSUME IInv, pc = "resolve", pc' = "decoded",
           UNCHANGED <<layoutVars, blockVars, b, p, did_len, byte_offset, values, v>>
    PROVE  IInv'
<1>1. model' = model /\ values' = values /\ v' = v /\ did_len' = did_len
  BY DEF layoutVars
<1> QED
  BY <1>1, ResolvingKeeps, ValuesUnchanged DEF IInv

LEMMA ResolveBailsStep ==
    ASSUME IInv, ResolveBails
    PROVE  IInv'
  BY ResolveEnds DEF ResolveBails, ResolveStep

LEMMA ResolvedStep ==
    ASSUME IInv, Resolved
    PROVE  IInv'
  BY ResolveEnds DEF Resolved

\* The value found keeps its name and its being implemented, also when it is
\* its own scale factor.
LEMMA ResolveValueStep ==
    ASSUME IInv, Resolve
    PROVE  IInv'
<1>1. /\ pc = "resolve" /\ pc' = "resolve" /\ v <= Len(values) /\ v' = v + 1
      /\ NeedsScaleFactor(values[v])
      /\ UNCHANGED <<layoutVars, blockVars, b, p, did_len, byte_offset>>
      /\ model' = model /\ did_len' = did_len
  BY DEF Resolve, ResolveStep, layoutVars
<1>2. PICK found \in WithName(DpOf(values[v]).sf) :
         /\ DpOf(values[found]).type = "sunssf"
         /\ values' = [values EXCEPT ![v].sf =
                         IF values[found].implemented THEN found ELSE Zero]
  BY DEF Resolve
<1>3. ValuesInv /\ ResolveInv /\ ScaledByName /\ EveryByteOnce
  BY DEF IInv
<1>4. /\ values \in Seq(Values) /\ Len(values) \in Nat
      /\ v \in 1 .. Len(values)
  BY <1>1, <1>3, LenProperties DEF ValuesInv, ResolveInv
<1>5. found \in 1 .. Len(values)
  BY <1>2 DEF WithName
<1> DEFINE factor == IF values[found].implemented THEN found ELSE Zero
           value == [values[v] EXCEPT !.sf = factor]
<1>6. factor \in 0 .. Len(values) /\ factor \in Int
  BY <1>4, <1>5 DEF Zero
<1>7. values[v] \in Values
  BY <1>4, ElementOfSeq
<1>8. /\ value \in Values /\ value.sf = factor
      /\ value.block = values[v].block /\ value.point = values[v].point
      /\ value.at = values[v].at /\ value.implemented = values[v].implemented
  <2> HIDE DEF factor
  <2> QED
    BY <1>6, <1>7 DEF Values
<1>9. values' = [values EXCEPT ![v] = value]
  BY <1>2, <1>4
<1> HIDE DEF value
<1>10. /\ values' \in Seq(Values) /\ Len(values') = Len(values)
       /\ \A n \in 1 .. Len(values) : n # v => values'[n] = values[n]
       /\ values'[v] = value
  BY <1>4, <1>8, <1>9, ExceptSeq
<1>11. \A n \in 1 .. Len(values) :
          /\ values'[n].block = values[n].block /\ values'[n].point = values[n].point
          /\ values'[n].at = values[n].at
          /\ values'[n].implemented = values[n].implemented
          /\ values'[n].sf = IF n = v THEN factor ELSE values[n].sf
  <2> HIDE DEF factor
  <2> QED
    BY <1>8, <1>10
<1>12. /\ \A n \in 1 .. Len(values) : DpOf(values[n])' = DpOf(values[n])
       /\ \A name : WithName(name)' = WithName(name)
  BY <1>1, <1>10, <1>11, SamePoints
<1>13. \A n \in 1 .. Len(values) :
          NeedsScaleFactor(values[n])' <=> NeedsScaleFactor(values[n])
  BY <1>12 DEF NeedsScaleFactor
<1>14. ValuesInv'
  <2> HIDE DEF factor
  <2>1. factor \in -1 .. Len(values)
    BY <1>4, <1>6
  <2> QED
    BY <1>1, <1>3, <1>10, <1>11, <1>12, <2>1 DEF ValuesInv
<1>15. ResolveInv'
  BY <1>1, <1>4, <1>10 DEF ResolveInv
<1>16. EveryByteOnce'
  <2> HIDE DEF factor
  <2>1. ASSUME NEW n \in 1 .. Len(values)
        PROVE  values'[n].at = IF n = 1 THEN 0
                     ELSE values'[n - 1].at + PairSize(DpOf(values[n - 1])')
    <3>1. values[n].at = IF n = 1 THEN 0
                         ELSE values[n - 1].at + PairSize(DpOf(values[n - 1]))
      BY <1>3 DEF EveryByteOnce
    <3>2. n # 1 => n - 1 \in 1 .. Len(values)
      BY <1>4
    <3> QED
      BY <3>1, <3>2, <1>11, <1>12
  <2> QED
    BY <2>1, <1>10 DEF EveryByteOnce
<1>17. ASSUME NEW n \in 1 .. Len(values)
       PROVE  /\ values'[n].sf > 0 =>
                    /\ values'[n].sf \in WithName(DpOf(values[n]).sf)
                    /\ DpOf(values[values'[n].sf]).type = "sunssf"
                    /\ values[values'[n].sf].implemented
              /\ values'[n].sf = Zero =>
                    \E f \in WithName(DpOf(values[n]).sf) : ~values[f].implemented
              /\ n < v' /\ NeedsScaleFactor(values[n]) => values'[n].sf # Unresolved
  <2>1. CASE n = v
    <3>1. values'[n].sf = factor
      BY <2>1, <1>11
    <3>2. CASE values[found].implemented
      <4>1. factor = found /\ factor > 0
        BY <3>2, <1>5
      <4> QED
        BY <2>1, <3>1, <3>2, <4>1, <1>2 DEF Zero, Unresolved
    <3>3. CASE ~values[found].implemented
      <4>1. factor = 0
        BY <3>3 DEF Zero
      <4> QED
        BY <2>1, <3>1, <3>3, <4>1, <1>2 DEF Zero, Unresolved
    <3> QED
      BY <3>2, <3>3
  <2>2. CASE n # v
    <3>1. values'[n].sf = values[n].sf
      BY <2>2, <1>11
    <3>2. n < v' => n < v
      BY <2>2, <1>1, <1>4
    <3> QED
      BY <3>1, <3>2, <1>3 DEF ScaledByName
  <2> QED
    BY <2>1, <2>2
<1>18. ScaledByName'
  <2> HIDE DEF factor
  <2>1. ASSUME NEW n \in 1 .. Len(values), values'[n].sf > 0
        PROVE  /\ values'[n].sf \in WithName(DpOf(values[n]).sf)'
               /\ DpOf(values[values[n].sf])'.type = "sunssf"
               /\ values'[values'[n].sf].implemented
    <3>1. /\ values'[n].sf \in WithName(DpOf(values[n]).sf)
          /\ DpOf(values[values'[n].sf]).type = "sunssf"
          /\ values[values'[n].sf].implemented
      BY <1>17, <2>1
    <3>2. values'[n].sf \in 1 .. Len(values)
      BY <3>1 DEF WithName
    <3>3. DpOf(values[values[n].sf])' = DpOf(values[values'[n].sf])
      BY <3>2, <1>1, <1>11 DEF DpOf
    <3> QED
      BY <3>1, <3>2, <3>3, <1>11, <1>12
  <2>2. ASSUME NEW n \in 1 .. Len(values), values'[n].sf = Zero
        PROVE  \E f \in WithName(DpOf(values[n]).sf)' : ~values'[f].implemented
    <3>1. PICK f \in WithName(DpOf(values[n]).sf) : ~values[f].implemented
      BY <1>17, <2>2
    <3>2. f \in 1 .. Len(values)
      BY <3>1 DEF WithName
    <3> QED
      BY <3>1, <3>2, <1>11, <1>12
  <2>3. ASSUME NEW n \in 1 .. Len(values), n < v', NeedsScaleFactor(values[n])'
        PROVE  values'[n].sf # Unresolved
    BY <1>13, <1>17, <2>3
  <2> QED
    BY <1>10, <2>1, <2>2, <2>3 DEF ScaledByName, Zero, Unresolved
<1> QED
  BY <1>1, <1>14, <1>15, <1>16, <1>18, ResolvingKeeps DEF IInv

-----------------------------------------------------------------------------
\* Theorems

\* Every action of the decoder preserves the invariant.
LEMMA NextIInv ==
    ASSUME IInv, [Next]_vars
    PROVE  IInv'
<1>1. CASE Next
  <2>1. CASE FillPoint
    BY <2>1, FillPointStep
  <2>2. CASE FillBlock
    BY <2>2, FillBlockStep
  <2>3. CASE DecodeData
    BY <2>3, DecodeDataStep
  <2>4. CASE EnterBlock
    BY <2>4, EnterBlockStep
  <2>5. CASE DecodePoint
    BY <2>5, DecodePointStep
  <2>6. CASE NextRepetition
    BY <2>6, NextRepetitionStep
  <2>7. CASE PointMissing
    BY <2>7, PointMissingStep
  <2>8. CASE BlockDone
    BY <2>8, BlockDoneStep
  <2>9. CASE Resolve
    BY <2>9, ResolveValueStep
  <2>10. CASE ResolveBails
    BY <2>10, ResolveBailsStep
  <2>11. CASE ResolvePasses
    BY <2>11, ResolvePassesStep
  <2>12. CASE Resolved
    BY <2>12, ResolvedStep
  <2>13. CASE Finished
    BY <2>13, Stutter DEF Finished
  <2> QED
    BY <1>1, <2>1, <2>2, <2>3, <2>4, <2>5, <2>6, <2>7, <2>8, <2>9, <2>10, <2>11,
       <2>12, <2>13 DEF Next
<1>2. CASE UNCHANGED vars
  BY <1>2, Stutter
<1> QED
  BY <1>1, <1>2

THEOREM Inductive == Spec => []IInv
<1>1. Init => IInv
  BY InitIInv
<1>2. IInv /\ [Next]_vars => IInv'
  BY NextIInv
<1> QED
  BY <1>1, <1>2, PTL DEF Spec

\* The types hold for all models; the divisor of the decoder included, which
\* IInv keeps above 0 for every block that repeats.
THEOREM TypeCorrect == Spec => []TypeOK
<1>1. IInv => TypeOK
  <2> SUFFICES ASSUME IInv PROVE TypeOK
    OBVIOUS
  <2>1. LayoutTypes /\ CursorInv /\ ValuesInv /\ ResolveInv
    BY DEF IInv, LayoutInv
  <2>2. ASSUME NEW bb \in 1 .. Len(model)
        PROVE  /\ block_len[bb] \in Nat
               /\ \A pp \in 1 .. Len(model[bb].dps) : offset[bb][pp] \in Nat
    <3>1. block_len[bb] \in Nat /\ offset[bb] \in Seq(Nat)
          /\ Len(offset[bb]) = Len(model[bb].dps)
      BY <2>1 DEF LayoutTypes
    <3> QED
      BY <3>1, ElementOfSeq
  <2>3. \A n \in 1 .. Len(values) : values[n].index \in Nat \ {0}
    BY <2>1, ValueFields DEF ValuesInv
  <2>4. \A n \in 1 .. Len(values) :
          /\ values[n].block \in 1 .. Len(model)
          /\ values[n].point \in 1 .. Len(model[values[n].block].dps)
          /\ values[n].index \in Nat \ {0}
          /\ values[n].sf \in Unresolved .. Len(values)
    BY <2>1, <2>3 DEF ValuesInv, Unresolved
  <2>5. v \in 1 .. Len(values) + 1
    BY <2>1 DEF ResolveInv
  <2>6. byte_offset \in Nat
    BY StateFacts
  <2>7. /\ base_len \in Uint16 /\ len \in Uint16
        /\ dp_block_offset \in Nat
    BY <2>1 DEF LayoutTypes
  <2>8. /\ pc \in {"fill", "loaded", "block", "points", "resolve", "decoded"}
        /\ b \in 1 .. Len(model)
        /\ p \in Nat \ {0} /\ (pc \in {"fill", "points"} => p <= Len(Dps) + 1)
        /\ did_len \in 0 .. MaxLen /\ limit \in Nat /\ taken \in Nat
        /\ len_multiple \in Nat /\ repeat_index \in 1 .. len_multiple + 1
    BY <2>1 DEF CursorInv, Dps
  <2> QED
    BY <2>2, <2>4, <2>5, <2>6, <2>7, <2>8 DEF TypeOK
<1> QED
  BY <1>1, Inductive, PTL

\* However short the device's block and however long the model, nothing is
\* taken from behind the data: the overrun suns_decode_data() checks for after
\* every block cannot happen.
THEOREM NeverBeyondTheBlock == Spec => []WithinBlock
<1>1. IInv => WithinBlock
  <2> SUFFICES ASSUME IInv PROVE WithinBlock
    OBVIOUS
  <2>1. byte_offset <= 2 * did_len
    BY StateFacts
  <2>2. pc = "points" => byte_offset + taken <= 2 * did_len
    <3>1. pc = "points" => limit = 2 * did_len - byte_offset /\ taken <= limit
      BY DEF IInv, BytesInv
    <3>2. did_len \in Nat /\ byte_offset \in Nat /\ taken \in Nat
      BY StateFacts
    <3> QED
      BY <3>1, <3>2
  <2>3. byte_offset + 0 = byte_offset
    BY StateFacts
  <2>4. \A n \in 1 .. Len(values) :
          values[n].at + PairSize(DpOf(values[n])) <= 2 * did_len
    BY DEF IInv, ValuesInv
  <2> QED
    BY <2>1, <2>2, <2>3, <2>4 DEF WithinBlock
<1> QED
  BY <1>1, Inductive, PTL

\* For every model the values partition the bytes that have been decoded.
THEOREM NoByteTwice == Spec => []EveryByteOnce
<1>1. IInv => EveryByteOnce
  BY DEF IInv
<1> QED
  BY <1>1, Inductive, PTL

\* For every model and every choice of scale factors the device implements, a
\* value is scaled by the first value of the name its point gives.
THEOREM ScaledCorrectly == Spec => []ScaledByName
<1>1. IInv => ScaledByName
  BY DEF IInv
<1> QED
  BY <1>1, Inductive, PTL

-----------------------------------------------------------------------------
(* Where BlockDecode takes values from, for all models and lengths.  The   *)
(* layout counts registers and keeps offsets, the decoder counts bytes and *)
(* never looks at them.  The argument that the two agree: a length filled  *)
(* in is the place behind the last point; for a regular model the place    *)
(* behind a point is the offset of the next, so that byte_offset + taken   *)
(* stays twice the register the layout gives the cursor; and no block is   *)
(* cut short, for the fixed part fits and records are counted by division. *)

L == Len(model)

\* The register behind point pp of block bb.
Behind(bb, pp) == offset[bb][pp] + Registers(model[bb].dps[pp])

LengthFilled(bb) == block_len[bb] = Behind(bb, Len(model[bb].dps))

OnlyLastRepeats == \A bb \in 1 .. L : model[bb].repeating => bb = L

\* All registers of a model whose repeating block occurs once.
Whole == BlockStart(L) + block_len[L]

\* The lengths are those of the layout, as far as it is filled in.
FilledInv ==
    /\ pc = "fill" =>
          /\ \A bb \in 1 .. b - 1 : LengthFilled(bb)
          /\ p > 1 => dp_block_offset = Behind(b, p - 1)
          /\ OnlyLastRepeats /\ BlockStart(b) < Words =>
                base_len = BlockStart(b) /\ len = BlockStart(b)
    /\ pc # "fill" =>
          /\ \A bb \in 1 .. L : LengthFilled(bb)
          /\ OnlyLastRepeats /\ Whole < Words =>
                len = Whole /\ base_len = IF Repeats THEN BlockStart(L) ELSE Whole
    /\ pc = "loaded" => b = 1

\* The register of block bb at which point pp begins, or the block ends.
Pos(bb, pp) == IF pp <= Len(model[bb].dps) THEN offset[bb][pp] ELSE block_len[bb]

\* The decoder is where the layout is.
CursorPlace ==
    /\ pc \in {"block", "points"} => byte_offset = 2 * BlockStart(b)
    /\ pc = "points" =>
          /\ len_multiple = IF model[b].repeating THEN Records ELSE 1
          /\ taken = 2 * ((repeat_index - 1) * block_len[b] + Pos(b, p))
          /\ repeat_index = len_multiple + 1 => p = 1

\* The values of the current block are those before the cursor.
RecordsInv ==
    /\ \A n \in 1 .. Len(values) :
          values[n].block <= b /\ (pc = "block" => values[n].block < b)
    /\ pc = "points" =>
          /\ \A n \in 1 .. Len(values) : values[n].block = b =>
                \/ values[n].index < repeat_index
                \/ values[n].index = repeat_index /\ values[n].point < p
          /\ \A k \in 1 .. repeat_index : \A pp \in 1 .. Len(Dps) :
                k < repeat_index \/ pp < p =>
                   \E n \in 1 .. Len(values) :
                      values[n].block = b /\ values[n].index = k /\ values[n].point = pp

\* A regular model and a device that has its fixed part.
Fits == Regular /\ did_len >= base_len

PlaceInv == FilledInv /\ (Fits => CursorPlace /\ RecordsInv /\ InPlace /\ RecordsDecoded)

-----------------------------------------------------------------------------
\* Arithmetic

LEMMA DivBounds ==
    \A x \in Nat, y \in Nat \ {0} :
       (x \div y) \in Nat /\ (x \div y) * y <= x /\ x < (x \div y) * y + y
  OBVIOUS

\* Bytes or registers: the number of repetitions is the same.
LEMMA HalfQuotient ==
    \A x \in Nat, y \in Nat \ {0} : ((2 * x) \div y) \div 2 = x \div y
  OBVIOUS

\* One repetition more.
LEMMA NextMultiple == \A r \in Nat \ {0}, y \in Nat : r * y = (r - 1) * y + y
  OBVIOUS

LEMMA ProductNat == \A x, y \in Nat : x * y \in Nat
  OBVIOUS

LEMMA MultipleFits == \A r, q, y \in Nat : r <= q => r * y <= q * y
  OBVIOUS

\* What fits 16 bits is kept.
LEMMA FitsWord == \A n \in Nat : n < Words => n % Words = n
<1>1. \A m \in Nat \ {0} : \A n \in Nat : n < m => n % m = n
  OBVIOUS
<1>2. Words \in Nat \ {0}
  BY DEF Words
<1> QED
  BY <1>1, <1>2

-----------------------------------------------------------------------------
\* Where blocks begin

\* The places of N things of the given sizes, one behind the other.
Places(size, N) ==
    CHOOSE place : place = [k \in 1 .. N |-> IF k = 1 THEN 0
                                             ELSE place[k - 1] + size[k - 1]]

LEMMA PlacesAddUp ==
    ASSUME NEW N \in Nat \ {0}, NEW size \in [1 .. N -> Nat]
    PROVE  /\ Places(size, N)[1] = 0
           /\ \A k \in 1 .. N : Places(size, N)[k] \in Nat
           /\ \A k \in 1 .. N - 1 :
                 Places(size, N)[k + 1] = Places(size, N)[k] + size[k]
<1> DEFINE F(g) == [k \in 1 .. N |-> IF k = 1 THEN 0 ELSE g[k - 1] + size[k - 1]]
           step == [k \in 1 .. N |-> [x \in Nat |-> x + size[k]]]
           start == CHOOSE g : g = F(g)
<1>1. \A k \in 1 .. N - 1 : \A x \in Nat : step[k][x] \in Nat
  <2> TAKE k \in 1 .. N - 1
  <2>1. k \in 1 .. N /\ size[k] \in Nat
    OBVIOUS
  <2> QED
    BY <2>1
<1>2. PICK f \in [0 .. N - 1 -> Nat] : Follows(f, 0, step, N - 1)
  <2> DEFINE S == Nat
             base == 0
             M == N - 1
  <2> HIDE DEF step
  <2>1. base \in S /\ M \in Nat /\ \A k \in 1 .. M : \A x \in S : step[k][x] \in S
    BY <1>1
  <2> HIDE DEF base, M, S
  <2>2. \E f \in [0 .. M -> S] : Follows(f, base, step, M)
    BY <2>1, Recursion
  <2> QED
    BY <2>2 DEF base, M, S
<1>3. f[0] = 0 /\ \A k \in 1 .. N - 1 : f[k] = f[k - 1] + size[k]
  <2>1. f[0] = 0 /\ \A k \in 1 .. N - 1 : f[k] = step[k][f[k - 1]]
    BY <1>2 DEF Follows
  <2>2. ASSUME NEW k \in 1 .. N - 1
        PROVE  step[k][f[k - 1]] = f[k - 1] + size[k]
    <3>1. k \in 1 .. N /\ f[k - 1] \in Nat
      OBVIOUS
    <3> QED
      BY <3>1
  <2> QED
    BY <2>1, <2>2
<1> HIDE DEF step
<1> DEFINE g == [k \in 1 .. N |-> f[k - 1]]
<1>4. g = F(g)
  <2>1. ASSUME NEW k \in 1 .. N
        PROVE  g[k] = IF k = 1 THEN 0 ELSE g[k - 1] + size[k - 1]
    <3>1. CASE k = 1
      BY <3>1, <1>3
    <3>2. CASE k # 1
      <4>1. k - 1 \in 1 .. N - 1 /\ k - 1 \in 1 .. N
        BY <3>2
      <4>2. f[k - 1] = f[k - 2] + size[k - 1]
        BY <4>1, <1>3
      <4> QED
        BY <3>2, <4>1, <4>2
    <3> QED
      BY <3>1, <3>2
  <2> QED
    BY <2>1
<1>5. start = F(start)
  <2> HIDE DEF F
  <2> QED
    BY <1>4
<1>6. Places(size, N) = start
  BY DEF Places
<1> HIDE DEF start, g
<1>7. start[1] = 0 /\ \A k \in 1 .. N - 1 : start[k + 1] = start[k] + size[k]
  BY <1>5
<1>8. \A k \in 1 .. N : start[k] \in Nat
  <2> DEFINE T == {k \in 1 .. N : start[k] \notin Nat}
  <2> SUFFICES ASSUME T # {} PROVE FALSE
    OBVIOUS
  <2>1. T \in SUBSET Nat
    OBVIOUS
  <2>2. PICK k \in T : \A m \in T : k <= m
    <3> HIDE DEF T
    <3> QED
      BY <2>1, NatLeast
  <2>3. k # 1
    BY <1>7
  <2>4. k - 1 \in 1 .. N - 1 /\ k - 1 \notin T
    BY <2>2, <2>3
  <2>5. start[k - 1] \in Nat /\ size[k - 1] \in Nat /\ k - 1 \in 1 .. N - 1
    BY <2>4
  <2>6. start[k] = start[k - 1] + size[k - 1]
    <3>1. (k - 1) + 1 = k
      BY <2>2
    <3> QED
      BY <1>7, <2>5, <3>1
  <2> QED
    BY <2>5, <2>6
<1> QED
  BY <1>6, <1>7, <1>8

LEMMA StartIsPlace ==
    /\ \A k : BlockStart(k) = Places(block_len, L)[k]
    /\ \A k : BlockStart(k)' = Places(block_len', L')[k]
  BY DEF BlockStart, Places, L

\* BlockStart adds up the lengths before a block.
LEMMA StartFacts ==
    ASSUME model \in Models, block_len \in [1 .. L -> Nat]
    PROVE  /\ BlockStart(1) = 0
           /\ \A k \in 1 .. L : BlockStart(k) \in Nat
           /\ \A k \in 1 .. L - 1 : BlockStart(k + 1) = BlockStart(k) + block_len[k]
<1>1. L \in Nat \ {0}
  BY ModelFacts DEF L
<1> QED
  BY <1>1, PlacesAddUp, StartIsPlace

\* Filling in a length moves the blocks behind it only.
LEMMA StartsKept ==
    ASSUME model \in Models, NEW bb \in 1 .. L, NEW size \in Nat,
           block_len \in [1 .. L -> Nat],
           model' = model, block_len' = [block_len EXCEPT ![bb] = size]
    PROVE  /\ \A k \in 1 .. bb : BlockStart(k)' = BlockStart(k)
           /\ bb < L => BlockStart(bb + 1)' = BlockStart(bb) + size
<1>1. L \in Nat \ {0} /\ L' = L
  BY ModelFacts DEF L
<1> DEFINE old == Places(block_len, L)
           new == Places(block_len', L)
<1>2. block_len' \in [1 .. L -> Nat]
  OBVIOUS
<1>3. /\ old[1] = 0 /\ new[1] = 0
      /\ \A k \in 1 .. L - 1 : /\ old[k + 1] = old[k] + block_len[k]
                               /\ new[k + 1] = new[k] + block_len'[k]
  <2>1. old[1] = 0 /\ \A k \in 1 .. L - 1 : old[k + 1] = old[k] + block_len[k]
    BY <1>1, PlacesAddUp
  <2>2. new[1] = 0 /\ \A k \in 1 .. L - 1 : new[k + 1] = new[k] + block_len'[k]
    BY <1>1, <1>2, PlacesAddUp
  <2> QED
    BY <2>1, <2>2
<1> HIDE DEF old, new
<1>4. \A k \in 1 .. bb : new[k] = old[k]
  <2> DEFINE T == {k \in 1 .. bb : new[k] # old[k]}
  <2> SUFFICES ASSUME T # {} PROVE FALSE
    OBVIOUS
  <2>1. T \in SUBSET Nat
    OBVIOUS
  <2>2. PICK k \in T : \A m \in T : k <= m
    <3> HIDE DEF T
    <3> QED
      BY <2>1, NatLeast
  <2>3. k # 1 /\ k \in 1 .. bb
    BY <1>3
  <2>4. k - 1 \in 1 .. L - 1 /\ k - 1 # bb /\ k - 1 \notin T /\ k - 1 \in 1 .. bb
    BY <1>1, <2>2, <2>3
  <2>5. (k - 1) + 1 = k
    BY <2>3
  <2>6. block_len'[k - 1] = block_len[k - 1] /\ new[k - 1] = old[k - 1]
    BY <1>1, <2>4
  <2>7. new[k] = old[k]
    BY <1>3, <2>4, <2>5, <2>6
  <2> QED
    BY <2>7
<1>5. bb < L => new[bb + 1] = old[bb] + size
  <2> SUFFICES ASSUME bb < L PROVE new[bb + 1] = old[bb] + size
    OBVIOUS
  <2>1. bb \in 1 .. L - 1 /\ bb \in 1 .. bb
    BY <1>1
  <2> QED
    BY <1>3, <1>4, <2>1
<1> QED
  BY <1>1, <1>4, <1>5, StartIsPlace DEF old, new

-----------------------------------------------------------------------------
\* The layout as it is filled in

LEMMA LFacts ==
    ASSUME IInv
    PROVE  /\ L \in Nat \ {0} /\ b \in 1 .. L
           /\ block_len \in [1 .. L -> Nat]
           /\ \A bb \in 1 .. L : /\ BlockStart(bb) \in Nat
                                 /\ Len(model[bb].dps) \in Nat \ {0}
                                 /\ model[bb].repeating \in BOOLEAN
<1>1. LayoutTypes /\ CursorInv
  BY DEF IInv, LayoutInv
<1>2. model \in Models /\ block_len \in [1 .. L -> Nat] /\ b \in 1 .. L
  BY <1>1 DEF LayoutTypes, CursorInv, L
<1> QED
  BY <1>2, ModelFacts, StartFacts DEF L

LEMMA OffsetTypes ==
    ASSUME IInv, NEW bb \in 1 .. L, NEW pp \in 1 .. Len(model[bb].dps)
    PROVE  /\ offset[bb][pp] \in Nat /\ offset[bb] \in Seq(Nat)
           /\ Len(offset[bb]) = Len(model[bb].dps)
           /\ Registers(model[bb].dps[pp]) \in Nat /\ PairSize(model[bb].dps[pp]) \in Nat
           /\ model[bb].dps[pp] \in Points
<1>1. LayoutTypes
  BY DEF IInv, LayoutInv
<1>2. model \in Models /\ offset[bb] \in Seq(Nat) /\ Len(offset[bb]) = Len(model[bb].dps)
  BY <1>1 DEF LayoutTypes, L
<1>3. model[bb].dps[pp] \in Points /\ Len(model[bb].dps) \in Nat
  BY <1>2, ModelFacts DEF L
<1>4. offset[bb][pp] \in Nat
  BY <1>2, <1>3, ElementOfSeq
<1> QED
  BY <1>2, <1>3, <1>4, PointRoom

LEMMA FillPointFilled ==
    ASSUME IInv, FilledInv, FillPoint
    PROVE  FilledInv'
<1> DEFINE at == IF offset[b][p] > 0 THEN offset[b][p] ELSE dp_block_offset
<1>1. /\ pc = "fill" /\ p <= Len(Dps) /\ p' = p + 1 /\ pc' = pc
      /\ offset' = [offset EXCEPT ![b][p] = at]
      /\ dp_block_offset' = at + Registers(Dp)
      /\ model' = model /\ block_len' = block_len /\ base_len' = base_len /\ len' = len
      /\ b' = b
  BY DEF FillPoint
<1>2. b \in 1 .. L /\ p \in 1 .. Len(Dps) /\ L' = L /\ b \in Nat /\ p \in Nat \ {0}
      /\ L \in Nat
  BY <1>1, StateFacts, LFacts DEF L
<1>3. offset \in [1 .. L -> Seq(Nat)] /\ offset[b] \in Seq(Nat) /\ Len(offset[b]) = Len(Dps)
  <2>1. LayoutTypes
    BY DEF IInv, LayoutInv
  <2> QED
    BY <1>2, <2>1 DEF LayoutTypes, L, Dps
<1>4. at \in Nat
  <2>1. offset[b][p] \in Nat
    BY <1>2, <1>3, ElementOfSeq
  <2>2. dp_block_offset \in Nat
    BY DEF IInv, LayoutInv, LayoutTypes
  <2> QED
    BY <2>1, <2>2
<1> HIDE DEF at
<1>5. /\ \A bb \in 1 .. L : bb # b => offset'[bb] = offset[bb]
      /\ offset'[b][p] = at
  <2>1. offset' = [offset EXCEPT ![b] = [offset[b] EXCEPT ![p] = at]]
    BY <1>1, <1>2, <1>3
  <2>2. [offset[b] EXCEPT ![p] = at][p] = at
    BY <1>2, <1>3, <1>4, ExceptSeq
  <2> QED
    BY <1>2, <1>3, <2>1, <2>2
<1>6. ASSUME NEW bb \in 1 .. b - 1
      PROVE  LengthFilled(bb)'
  <2>1. bb \in 1 .. L /\ bb # b
    BY <1>2
  <2>2. LengthFilled(bb)
    BY <1>1 DEF FilledInv
  <2> QED
    BY <1>1, <1>5, <2>1, <2>2 DEF LengthFilled, Behind
<1>7. PICK pp \in 1 .. Len(Dps), bb \in 1 .. L : pp = p /\ bb = b
  BY <1>2
<1>8. dp_block_offset' = Behind(bb, pp)' /\ p' - 1 = pp
  BY <1>1, <1>2, <1>5, <1>7 DEF Behind, Dp, Dps
<1>9. BlockStart(bb)' = BlockStart(bb)
  BY <1>1, <1>2, StartIsPlace
<1>10. OnlyLastRepeats' <=> OnlyLastRepeats
  BY <1>1, <1>2 DEF OnlyLastRepeats
<1> QED
  BY <1>1, <1>2, <1>6, <1>7, <1>8, <1>9, <1>10 DEF FilledInv, Behind

LEMMA FillBlockFilled ==
    ASSUME IInv, FilledInv, FillBlock
    PROVE  FilledInv'
<1>1. /\ pc = "fill" /\ p > Len(Dps)
      /\ block_len' = [block_len EXCEPT ![b] = dp_block_offset]
      /\ len' = (len + dp_block_offset) % Words
      /\ base_len' = IF model[b].repeating THEN base_len
                     ELSE (base_len + dp_block_offset) % Words
      /\ p' = 1 /\ model' = model /\ offset' = offset
      /\ b < L => b' = b + 1 /\ pc' = "fill"
      /\ ~(b < L) => b' = 1 /\ pc' = "loaded"
  BY DEF FillBlock, L
<1>2. /\ L \in Nat \ {0} /\ L' = L /\ b \in 1 .. L /\ b \in Nat
      /\ block_len \in [1 .. L -> Nat]
      /\ BlockStart(b) \in Nat
  BY <1>1, LFacts DEF L
<1>3. p = Len(Dps) + 1 /\ Len(Dps) \in Nat \ {0}
  BY <1>1, StateFacts
<1>4. dp_block_offset \in Nat
  BY DEF IInv, LayoutInv, LayoutTypes
<1>5. \A bb \in 1 .. b - 1 : LengthFilled(bb)
  BY <1>1 DEF FilledInv
<1>6. dp_block_offset = Behind(b, Len(Dps))
  <2>1. p > 1 /\ p - 1 = Len(Dps)
    BY <1>3
  <2> QED
    BY <1>1, <2>1 DEF FilledInv
<1>7. \A bb \in 1 .. b : LengthFilled(bb)'
  <2> TAKE bb \in 1 .. b
  <2>1. CASE bb = b
    <3>1. block_len'[bb] = dp_block_offset
      BY <1>1, <1>2, <2>1
    <3> QED
      BY <1>1, <1>6, <2>1, <3>1 DEF LengthFilled, Behind, Dps
  <2>2. CASE bb # b
    <3>1. bb \in 1 .. b - 1
      BY <1>2, <2>2
    <3>2. block_len'[bb] = block_len[bb]
      BY <1>1, <1>2, <2>2
    <3> QED
      BY <1>1, <1>5, <3>1, <3>2 DEF LengthFilled, Behind
  <2> QED
    BY <2>1, <2>2
<1>8. PICK bb \in 1 .. L : bb = b
  BY <1>2
<1>9. /\ BlockStart(bb)' = BlockStart(b)
      /\ bb < L => BlockStart(bb + 1)' = BlockStart(b) + dp_block_offset
  <2>1. model \in Models
    BY StateFacts
  <2>2. block_len' = [block_len EXCEPT ![bb] = dp_block_offset] /\ bb \in 1 .. bb
    BY <1>1, <1>8
  <2>3. /\ BlockStart(bb)' = BlockStart(bb)
        /\ bb < L => BlockStart(bb + 1)' = BlockStart(bb) + dp_block_offset
    BY <1>1, <1>2, <1>4, <2>1, <2>2, StartsKept
  <2> QED
    BY <1>8, <2>3
<1>10. OnlyLastRepeats' <=> OnlyLastRepeats
  BY <1>1, <1>2 DEF OnlyLastRepeats
<1>11. ASSUME OnlyLastRepeats, BlockStart(b) + dp_block_offset < Words
       PROVE  /\ len' = BlockStart(b) + dp_block_offset
              /\ base_len' = IF model[b].repeating THEN BlockStart(b)
                             ELSE BlockStart(b) + dp_block_offset
  <2>1. \A w \in Nat : BlockStart(b) + dp_block_offset < w => BlockStart(b) < w
    BY <1>2, <1>4
  <2>2. BlockStart(b) < Words
    BY <1>11, <2>1 DEF Words
  <2>3. base_len = BlockStart(b) /\ len = BlockStart(b)
    BY <1>1, <1>11, <2>2 DEF FilledInv
  <2>4. BlockStart(b) + dp_block_offset \in Nat
    BY <1>2, <1>4
  <2>5. (BlockStart(b) + dp_block_offset) % Words = BlockStart(b) + dp_block_offset
    BY <1>11, <2>4, FitsWord
  <2> QED
    BY <1>1, <2>3, <2>5
<1>12. CASE b < L
  <2>1. b' = bb + 1 /\ pc' = "fill" /\ b' - 1 = b /\ bb < L
    BY <1>1, <1>2, <1>8, <1>12
  <2>2. OnlyLastRepeats => ~model[b].repeating
    BY <1>2, <1>12 DEF OnlyLastRepeats
  <2>3. OnlyLastRepeats /\ BlockStart(bb + 1)' < Words =>
           base_len' = BlockStart(bb + 1)' /\ len' = BlockStart(bb + 1)'
    BY <1>9, <1>11, <2>1, <2>2
  <2>4. \A k : k = bb + 1 => BlockStart(k)' = BlockStart(bb + 1)'
    OBVIOUS
  <2>5. ~(p' > 1)
    BY <1>1
  <2>6. OnlyLastRepeats' /\ BlockStart(b)' < Words =>
           base_len' = BlockStart(b)' /\ len' = BlockStart(b)'
    BY <1>10, <2>1, <2>3, StartIsPlace
  <2> QED
    BY <1>7, <2>1, <2>5, <2>6 DEF FilledInv
<1>13. CASE ~(b < L)
  <2>1. bb = L /\ pc' = "loaded" /\ b = L /\ b' = 1
    BY <1>1, <1>2, <1>8, <1>13
  <2>2. Whole' = BlockStart(b) + dp_block_offset /\ BlockStart(L)' = BlockStart(b)
    <3>1. block_len'[L] = dp_block_offset
      BY <1>1, <1>2, <2>1
    <3>2. BlockStart(L)' = BlockStart(bb)'
      BY <1>2, <2>1, StartIsPlace
    <3> QED
      BY <1>2, <1>9, <2>1, <3>1, <3>2 DEF Whole
  <2>3. Repeats' <=> model[b].repeating
    BY <1>1, <2>1 DEF Repeats, L
  <2>4. OnlyLastRepeats' /\ Whole' < Words =>
           len' = Whole' /\ base_len' = IF Repeats' THEN BlockStart(L)' ELSE Whole'
    BY <1>10, <1>11, <2>2, <2>3
  <2> QED
    BY <1>2, <1>7, <2>1, <2>4 DEF FilledInv
<1> QED
  BY <1>12, <1>13

\* The decoder leaves the layout alone.
LEMMA DecoderKeepsLayout ==
    ASSUME IInv, FilledInv, UNCHANGED layoutVars, pc # "fill", pc' # "fill",
           pc' = "loaded" => b' = 1
    PROVE  /\ FilledInv'
           /\ L' = L /\ (Repeats' <=> Repeats) /\ (Regular' <=> Regular)
           /\ \A bb : BlockStart(bb)' = BlockStart(bb)
           /\ did_len' = did_len => Records' = Records
           /\ \A bb, pp : Pos(bb, pp)' = Pos(bb, pp)
<1>1. /\ model' = model /\ offset' = offset /\ block_len' = block_len
      /\ base_len' = base_len /\ len' = len
  BY DEF layoutVars
<1>2. L' = L /\ (Repeats' <=> Repeats)
  BY <1>1 DEF L, Repeats
<1>3. \A bb : BlockStart(bb)' = BlockStart(bb)
  BY <1>1, <1>2, StartIsPlace
<1>4. Whole' = Whole
  BY <1>1, <1>2, <1>3 DEF Whole
<1>5. FilledInv'
  <2>1. /\ \A bb \in 1 .. L : LengthFilled(bb)
        /\ OnlyLastRepeats /\ Whole < Words =>
              len = Whole /\ base_len = IF Repeats THEN BlockStart(L) ELSE Whole
    BY DEF FilledInv
  <2>2. (OnlyLastRepeats' <=> OnlyLastRepeats)
    BY <1>1, <1>2 DEF OnlyLastRepeats
  <2>3. \A bb \in 1 .. L : LengthFilled(bb)'
    BY <1>1, <2>1 DEF LengthFilled, Behind
  <2>4. BlockStart(L)' = BlockStart(L)
    BY <1>2, <1>3, StartIsPlace
  <2> QED
    BY <1>1, <1>2, <1>4, <2>1, <2>2, <2>3, <2>4 DEF FilledInv
<1>6. Regular' <=> Regular
  <2>1. BlockStart(Len(model))' = BlockStart(Len(model))
    BY <1>1, <1>3, StartIsPlace DEF L
  <2> QED
    BY <1>1, <2>1 DEF Regular
<1>7. did_len' = did_len => Records' = Records
  BY <1>1 DEF Records
<1>8. \A bb, pp : Pos(bb, pp)' = Pos(bb, pp)
  BY <1>1 DEF Pos
<1> QED
  BY <1>2, <1>3, <1>5, <1>6, <1>7, <1>8

-----------------------------------------------------------------------------
\* Regular models

\* What the layout of a regular model looks like.
LEMMA RegularFacts ==
    ASSUME IInv, FilledInv, pc # "fill", Regular
    PROVE  /\ OnlyLastRepeats
           /\ len = Whole /\ base_len = IF Repeats THEN BlockStart(L) ELSE Whole
           /\ BlockStart(1) = 0
           /\ \A bb \in 1 .. L : block_len[bb] \in Nat /\ BlockStart(bb) \in Nat
           /\ \A bb \in 1 .. L - 1 : BlockStart(bb + 1) = BlockStart(bb) + block_len[bb]
           /\ \A bb \in 1 .. L : Pos(bb, 1) = 0
                                 /\ Pos(bb, Len(model[bb].dps) + 1) = block_len[bb]
           /\ \A bb \in 1 .. L : \A pp \in 1 .. Len(model[bb].dps) :
                 /\ Pos(bb, pp) = offset[bb][pp] /\ Pos(bb, pp) \in Nat
                 /\ 2 * Pos(bb, pp + 1) = 2 * Pos(bb, pp) + PairSize(model[bb].dps[pp])
                 /\ Pos(bb, pp) <= Pos(bb, pp + 1)
<1>1. /\ L \in Nat \ {0} /\ model \in Models /\ block_len \in [1 .. L -> Nat]
      /\ \A bb \in 1 .. L : Len(model[bb].dps) \in Nat \ {0}
  BY LFacts, StateFacts
<1>2. /\ BlockStart(1) = 0
      /\ \A bb \in 1 .. L : block_len[bb] \in Nat /\ BlockStart(bb) \in Nat
      /\ \A bb \in 1 .. L - 1 : BlockStart(bb + 1) = BlockStart(bb) + block_len[bb]
  BY <1>1, StartFacts
<1>3. OnlyLastRepeats /\ Whole < Words
  BY DEF Regular, OnlyLastRepeats, Whole, L
<1>4. len = Whole /\ base_len = IF Repeats THEN BlockStart(L) ELSE Whole
  BY <1>3 DEF FilledInv
<1>5. \A bb \in 1 .. L : /\ offset[bb][1] = 0
                         /\ block_len[bb] = Behind(bb, Len(model[bb].dps))
  BY DEF FilledInv, LengthFilled, Regular, L
<1>6. ASSUME NEW bb \in 1 .. L, NEW pp \in 1 .. Len(model[bb].dps)
      PROVE  /\ Pos(bb, pp) = offset[bb][pp] /\ Pos(bb, pp) \in Nat
             /\ 2 * Pos(bb, pp + 1) = 2 * Pos(bb, pp) + PairSize(model[bb].dps[pp])
             /\ Pos(bb, pp) <= Pos(bb, pp + 1)
  <2> DEFINE dp == model[bb].dps[pp]
             n == Len(model[bb].dps)
  <2>1. /\ offset[bb][pp] \in Nat /\ Registers(dp) \in Nat /\ PairSize(dp) \in Nat
        /\ dp \in Points /\ n \in Nat \ {0}
    BY <1>1, OffsetTypes
  <2>2. PairSize(dp) = 2 * Registers(dp)
    <3>1. dp.type = "string" => dp.len % 2 = 0
      BY DEF Regular, L
    <3>2. dp.len \in Nat
      BY <2>1 DEF Points
    <3>3. TypeSize(dp.type) \in {0, 2, 4, 8}
      BY DEF TypeSize
    <3>4. \A k \in Nat : k % 2 = 0 => k = 2 * ((k + 1) \div 2)
      OBVIOUS
    <3>5. \A k \in {0, 2, 4, 8} : k = 2 * (k \div 2)
      OBVIOUS
    <3> QED
      BY <3>1, <3>2, <3>3, <3>4, <3>5 DEF PairSize, Registers
  <2>3. Pos(bb, pp) = offset[bb][pp]
    BY <2>1 DEF Pos
  <2>4. Pos(bb, pp + 1) = offset[bb][pp] + Registers(dp)
    <3>1. CASE pp = n
      <4>1. ~(pp + 1 <= n)
        BY <2>1, <3>1
      <4>2. Pos(bb, pp + 1) = block_len[bb]
        BY <4>1 DEF Pos
      <4> QED
        BY <1>5, <3>1, <4>2 DEF Behind
    <3>2. CASE pp # n
      <4>1. pp + 1 <= n /\ pp \in 1 .. n - 1
        BY <2>1, <3>2
      <4>2. Pos(bb, pp + 1) = offset[bb][pp + 1]
        BY <4>1 DEF Pos
      <4> QED
        BY <4>1, <4>2 DEF Regular, L
    <3> QED
      BY <3>1, <3>2
  <2> HIDE DEF dp
  <2>5. /\ 2 * (offset[bb][pp] + Registers(dp)) = 2 * offset[bb][pp] + 2 * Registers(dp)
        /\ offset[bb][pp] <= offset[bb][pp] + Registers(dp)
    BY <2>1
  <2> QED
    BY <2>1, <2>2, <2>3, <2>4, <2>5 DEF dp
<1>7. ASSUME NEW bb \in 1 .. L
      PROVE  Pos(bb, 1) = 0 /\ Pos(bb, Len(model[bb].dps) + 1) = block_len[bb]
  <2>1. Len(model[bb].dps) \in Nat \ {0}
    BY <1>1
  <2>2. 1 <= Len(model[bb].dps) /\ ~(Len(model[bb].dps) + 1 <= Len(model[bb].dps))
    BY <2>1
  <2> QED
    BY <1>5, <2>2 DEF Pos
<1> QED
  BY <1>2, <1>3, <1>4, <1>6, <1>7

\* No point lies beyond its block.
LEMMA PosFits ==
    ASSUME IInv, FilledInv, pc # "fill", Regular,
           NEW bb \in 1 .. L, NEW pp \in 1 .. Len(model[bb].dps) + 1
    PROVE  Pos(bb, pp) \in Nat /\ Pos(bb, pp) <= block_len[bb]
<1> DEFINE n == Len(model[bb].dps)
           T == {k \in 1 .. n + 1 : ~(Pos(bb, k) \in Nat /\ Pos(bb, k) <= block_len[bb])}
<1>1. n \in Nat \ {0} /\ block_len[bb] \in Nat /\ Pos(bb, n + 1) = block_len[bb]
  BY LFacts, RegularFacts
<1>2. \A k \in 1 .. n : Pos(bb, k) \in Nat /\ Pos(bb, k) <= Pos(bb, k + 1)
  BY RegularFacts
<1> HIDE DEF n
<1>3. T = {}
  <2> SUFFICES ASSUME T # {} PROVE FALSE
    OBVIOUS
  <2>1. T \in SUBSET (0 .. n + 1) /\ n + 1 \in Nat
    BY <1>1
  <2>2. PICK k \in T : \A m \in T : m <= k
    <3> HIDE DEF T
    <3> QED
      BY <2>1, NatGreatest
  <2>3. k # n + 1
    BY <1>1
  <2>4. k \in 1 .. n /\ k + 1 \in 1 .. n + 1 /\ k + 1 \notin T
    BY <1>1, <2>2, <2>3
  <2>5. /\ Pos(bb, k) \in Nat /\ Pos(bb, k) <= Pos(bb, k + 1)
        /\ Pos(bb, k + 1) \in Nat /\ Pos(bb, k + 1) <= block_len[bb]
    BY <1>2, <2>4
  <2>6. Pos(bb, k) <= block_len[bb]
    BY <1>1, <2>5
  <2> QED
    BY <2>5, <2>6
<1> QED
  BY <1>3 DEF n

\* No block begins behind the last.
LEMMA StartsInOrder ==
    ASSUME IInv, FilledInv, pc # "fill", Regular, NEW bb \in 1 .. L
    PROVE  /\ BlockStart(bb) <= BlockStart(L)
           /\ bb < L => BlockStart(bb) + block_len[bb] <= BlockStart(L)
<1> DEFINE T == {k \in 1 .. L : ~(BlockStart(k) <= BlockStart(L))}
<1>1. /\ L \in Nat \ {0}
      /\ \A k \in 1 .. L : block_len[k] \in Nat /\ BlockStart(k) \in Nat
      /\ \A k \in 1 .. L - 1 : BlockStart(k + 1) = BlockStart(k) + block_len[k]
  BY LFacts, RegularFacts
<1>2. T = {}
  <2> SUFFICES ASSUME T # {} PROVE FALSE
    OBVIOUS
  <2>1. T \in SUBSET (0 .. L)
    BY <1>1
  <2>2. PICK k \in T : \A m \in T : m <= k
    <3> HIDE DEF T
    <3> QED
      BY <1>1, <2>1, NatGreatest
  <2>3. k # L
    BY <1>1
  <2>4. k \in 1 .. L - 1 /\ k + 1 \in 1 .. L /\ k + 1 \notin T /\ k \in 1 .. L
    BY <1>1, <2>2, <2>3
  <2>5. /\ BlockStart(k) \in Nat /\ block_len[k] \in Nat /\ BlockStart(L) \in Nat
        /\ BlockStart(k) + block_len[k] <= BlockStart(L)
    BY <1>1, <2>4
  <2>6. BlockStart(k) <= BlockStart(L)
    BY <2>5
  <2> QED
    BY <2>6
<1>3. \A k \in 1 .. L : BlockStart(k) <= BlockStart(L)
  BY <1>2
<1>4. ASSUME bb < L
      PROVE  BlockStart(bb) + block_len[bb] <= BlockStart(L)
  <2>1. bb \in 1 .. L - 1 /\ bb + 1 \in 1 .. L
    BY <1>1, <1>4
  <2> QED
    BY <1>1, <1>3, <2>1
<1> QED
  BY <1>3, <1>4

-----------------------------------------------------------------------------
\* Steps

\* Nothing is decoded yet.
LEMMA NothingInPlace ==
    ASSUME FilledInv, values = <<>>, pc \in {"fill", "loaded"}
    PROVE  PlaceInv
<1>1. \A n \in 1 .. Len(values) : FALSE
  OBVIOUS
<1>2. CursorPlace /\ RecordsInv /\ InPlace /\ RecordsDecoded
  BY <1>1 DEF CursorPlace, RecordsInv, InPlace, RecordsDecoded
<1> QED
  BY <1>2 DEF PlaceInv

LEMMA FillPlace ==
    ASSUME IInv, PlaceInv, FillPoint \/ FillBlock
    PROVE  PlaceInv'
<1>1. FilledInv
  BY DEF PlaceInv
<1>2. FilledInv'
  BY <1>1, FillPointFilled, FillBlockFilled
<1>3. values = <<>>
  BY DEF IInv, BytesInv, FillPoint, FillBlock
<1>4. values' = <<>> /\ pc' \in {"fill", "loaded"}
  BY <1>3 DEF FillPoint, FillBlock
<1>5. \A n \in 1 .. Len(values') : FALSE
  BY <1>4
<1>6. CursorPlace' /\ RecordsInv' /\ InPlace' /\ RecordsDecoded'
  BY <1>4, <1>5 DEF CursorPlace, RecordsInv, InPlace, RecordsDecoded, Decoding
<1> QED
  BY <1>2, <1>6 DEF PlaceInv

LEMMA DecodeDataPlace ==
    ASSUME IInv, PlaceInv, DecodeData
    PROVE  PlaceInv'
<1>1. /\ pc = "loaded" /\ pc' = "block" /\ b' = b /\ byte_offset' = byte_offset
      /\ values' = values /\ UNCHANGED layoutVars
  BY DEF DecodeData
<1>2. FilledInv
  BY DEF PlaceInv
<1>3. values = <<>> /\ byte_offset = 0 /\ b = 1
  BY <1>1, <1>2 DEF IInv, BytesInv, FilledInv
<1>4. /\ FilledInv' /\ \A bb : BlockStart(bb)' = BlockStart(bb)
  BY <1>1, <1>2, DecoderKeepsLayout
<1>5. BlockStart(b)' = 0
  <2>1. BlockStart(1) = 0
    <3>1. model \in Models /\ block_len \in [1 .. L -> Nat]
      BY LFacts, StateFacts
    <3> QED
      BY <3>1, StartFacts
  <2>2. BlockStart(1)' = 0
    BY <1>4, <2>1
  <2> QED
    BY <1>1, <1>3, <2>2, StartIsPlace
<1>6. \A n \in 1 .. Len(values') : FALSE
  BY <1>1, <1>3
<1>7. CursorPlace'
  BY <1>1, <1>3, <1>5 DEF CursorPlace
<1>8. RecordsInv' /\ InPlace' /\ RecordsDecoded'
  BY <1>1, <1>6 DEF RecordsInv, InPlace, RecordsDecoded
<1> QED
  BY <1>4, <1>7, <1>8 DEF PlaceInv

\* A step of the decoder: what a value's place is does not change.
LEMMA DecoderStep ==
    ASSUME IInv, PlaceInv, UNCHANGED layoutVars, did_len' = did_len,
           pc \in {"block", "points", "resolve", "decoded"},
           pc' \in {"block", "points", "resolve", "decoded"}
    PROVE  /\ FilledInv /\ FilledInv'
           /\ Fits' <=> Fits
           /\ Fits => CursorPlace /\ RecordsInv /\ InPlace /\ RecordsDecoded
           /\ \A n \in 1 .. Len(values) : Place(values[n])' =
                 2 * (BlockStart(values'[n].block)
                      + (values'[n].index - 1) * block_len[values'[n].block]
                      + offset[values'[n].block][values'[n].point])
           /\ \A bb : BlockStart(bb)' = BlockStart(bb)
           /\ \A bb, pp : Pos(bb, pp)' = Pos(bb, pp)
           /\ L' = L /\ Records' = Records /\ (Repeats' <=> Repeats)
           /\ model' = model /\ offset' = offset /\ block_len' = block_len
<1>1. FilledInv /\ (Fits => CursorPlace /\ RecordsInv /\ InPlace /\ RecordsDecoded)
  BY DEF PlaceInv
<1>2. /\ FilledInv' /\ L' = L /\ (Repeats' <=> Repeats) /\ (Regular' <=> Regular)
      /\ \A bb : BlockStart(bb)' = BlockStart(bb)
      /\ Records' = Records
      /\ \A bb, pp : Pos(bb, pp)' = Pos(bb, pp)
  BY <1>1, DecoderKeepsLayout
<1>3. model' = model /\ offset' = offset /\ block_len' = block_len /\ base_len' = base_len
  BY DEF layoutVars
<1>4. Fits' <=> Fits
  BY <1>2, <1>3 DEF Fits
<1>5. \A n : Place(values[n])' =
                 2 * (BlockStart(values'[n].block)
                      + (values'[n].index - 1) * block_len[values'[n].block]
                      + offset[values'[n].block][values'[n].point])
  <2>1. \A n : BlockStart(values[n].block)' = BlockStart(values'[n].block)
    BY <1>3, StartIsPlace DEF L
  <2> QED
    BY <1>3, <2>1 DEF Place
<1> QED
  BY <1>1, <1>2, <1>3, <1>4, <1>5

\* A block is entered where it begins, and what is left is divided by what a
\* record takes.
LEMMA EnterBlockPlace ==
    ASSUME IInv, PlaceInv, EnterBlock
    PROVE  PlaceInv'
<1>1. /\ pc = "block" /\ pc' = "points" /\ UNCHANGED layoutVars /\ did_len' = did_len
      /\ limit' = did_len * 2 - byte_offset
      /\ len_multiple' = IF model[b].repeating
                         THEN (limit' \div block_len[b]) \div 2 ELSE 1
      /\ repeat_index' = 1 /\ taken' = 0 /\ p' = 1
      /\ b' = b /\ byte_offset' = byte_offset /\ values' = values
  BY DEF EnterBlock
<1>2. /\ FilledInv /\ FilledInv' /\ (Fits' <=> Fits)
      /\ Fits => CursorPlace /\ RecordsInv /\ InPlace
      /\ \A n \in 1 .. Len(values) : Place(values[n])' =
            2 * (BlockStart(values'[n].block)
                 + (values'[n].index - 1) * block_len[values'[n].block]
                 + offset[values'[n].block][values'[n].point])
      /\ \A bb : BlockStart(bb)' = BlockStart(bb)
      /\ \A bb, pp : Pos(bb, pp)' = Pos(bb, pp)
      /\ L' = L /\ Records' = Records /\ (Repeats' <=> Repeats)
      /\ model' = model /\ offset' = offset /\ block_len' = block_len
  BY <1>1, DecoderStep
<1> SUFFICES ASSUME Fits PROVE CursorPlace' /\ RecordsInv' /\ InPlace' /\ RecordsDecoded'
  BY <1>2 DEF PlaceInv
<1>3. Regular /\ did_len >= base_len /\ did_len \in Nat /\ byte_offset = 2 * BlockStart(b)
  BY <1>1, <1>2, StateFacts DEF Fits, CursorPlace
<1>4. /\ b \in 1 .. L /\ L \in Nat \ {0} /\ BlockStart(b) \in Nat /\ block_len[b] \in Nat
      /\ OnlyLastRepeats /\ len = Whole
      /\ base_len = IF Repeats THEN BlockStart(L) ELSE Whole
      /\ Pos(b, 1) = 0
  BY <1>1, <1>2, <1>3, LFacts, RegularFacts
<1>5. ASSUME model[b].repeating
      PROVE  len_multiple' = Records
  <2>1. b = L /\ Repeats
    BY <1>4, <1>5 DEF OnlyLastRepeats, Repeats, L
  <2>2. block_len[b] \in Nat \ {0}
    <3>1. block_len[b] > 0
      BY <1>1, <1>4, <1>5 DEF IInv, LayoutInv, Divisible, L
    <3> QED
      BY <1>4, <3>1
  <2>3. /\ base_len = BlockStart(b) /\ len = BlockStart(b) + block_len[b]
    BY <1>4, <2>1 DEF Whole
  <2>4. PICK x \in Nat : x = did_len - base_len
    BY <1>3, <1>4, <2>3
  <2>5. limit' = 2 * x /\ len - base_len = block_len[b] /\ ~(did_len < base_len)
    <3>1. \A d, y, at, n \in Nat : y = d - at =>
             d * 2 - 2 * at = 2 * y /\ (at + n) - at = n /\ ~(d < at)
      OBVIOUS
    <3>2. x = did_len - BlockStart(b)
      BY <2>3, <2>4
    <3>3. /\ did_len * 2 - 2 * BlockStart(b) = 2 * x
          /\ (BlockStart(b) + block_len[b]) - BlockStart(b) = block_len[b]
          /\ ~(did_len < BlockStart(b))
      BY <1>3, <1>4, <3>1, <3>2
    <3> QED
      BY <1>1, <1>3, <2>3, <3>3
  <2>6. Records = x \div block_len[b]
    BY <2>4, <2>5 DEF Records
  <2> QED
    BY <1>1, <1>5, <2>2, <2>5, <2>6, HalfQuotient
<1>6. CursorPlace'
  <2>1. len_multiple' = IF model[b].repeating THEN Records ELSE 1
    BY <1>1, <1>5
  <2>2. taken' = 2 * ((1 - 1) * block_len[b] + Pos(b, 1))
    BY <1>1, <1>4
  <2>3. PICK bb : bb = b
    OBVIOUS
  <2>4. BlockStart(bb)' = BlockStart(b) /\ Pos(bb, 1)' = Pos(b, 1)
    BY <1>2, <2>3
  <2>5. BlockStart(b)' = BlockStart(b) /\ Pos(b, p)' = Pos(b, 1)
    BY <1>1, <2>3, <2>4, StartIsPlace DEF Pos
  <2> QED
    BY <1>1, <1>2, <1>3, <2>1, <2>2, <2>5 DEF CursorPlace
<1>7. RecordsInv'
  <2>1. \A n \in 1 .. Len(values) : values[n].block <= b /\ values[n].block < b
    BY <1>1, <1>2 DEF RecordsInv
  <2>2. \A n \in 1 .. Len(values) : values[n].block # b
    <3> TAKE n \in 1 .. Len(values)
    <3>1. values[n].block \in Nat
      BY ValueFields DEF IInv, ValuesInv
    <3> QED
      BY <2>1, <3>1, <1>4
  <2>3. \A k \in 1 .. 1 : \A pp \in Nat \ {0} : ~(k < 1 \/ pp < 1)
    OBVIOUS
  <2>4. \A pp \in 1 .. Len(Dps') : pp \in Nat \ {0}
    OBVIOUS
  <2> QED
    BY <1>1, <2>1, <2>2, <2>3, <2>4 DEF RecordsInv
<1>8. InPlace'
  BY <1>1, <1>2 DEF InPlace, Decoding, Place
<1>9. RecordsDecoded'
  BY <1>1 DEF RecordsDecoded
<1> QED
  BY <1>6, <1>7, <1>8, <1>9

\* A repetition ends where the next begins.
LEMMA NextRepetitionPlace ==
    ASSUME IInv, PlaceInv, NextRepetition
    PROVE  PlaceInv'
<1>1. /\ pc = "points" /\ pc' = "points" /\ UNCHANGED layoutVars /\ did_len' = did_len
      /\ repeat_index <= len_multiple /\ p > Len(Dps)
      /\ repeat_index' = repeat_index + 1 /\ p' = 1
      /\ len_multiple' = len_multiple /\ taken' = taken
      /\ b' = b /\ byte_offset' = byte_offset /\ values' = values
  BY DEF NextRepetition
<1>2. /\ FilledInv /\ FilledInv' /\ (Fits' <=> Fits)
      /\ Fits => CursorPlace /\ RecordsInv /\ InPlace
      /\ \A n \in 1 .. Len(values) : Place(values[n])' =
            2 * (BlockStart(values'[n].block)
                 + (values'[n].index - 1) * block_len[values'[n].block]
                 + offset[values'[n].block][values'[n].point])
      /\ \A bb : BlockStart(bb)' = BlockStart(bb)
      /\ \A bb, pp : Pos(bb, pp)' = Pos(bb, pp)
      /\ L' = L /\ Records' = Records /\ (Repeats' <=> Repeats)
      /\ model' = model /\ offset' = offset /\ block_len' = block_len
  BY <1>1, DecoderStep
<1> SUFFICES ASSUME Fits PROVE CursorPlace' /\ RecordsInv' /\ InPlace' /\ RecordsDecoded'
  BY <1>2 DEF PlaceInv
<1>3. /\ b \in 1 .. L /\ block_len[b] \in Nat /\ Pos(b, 1) = 0
      /\ Pos(b, Len(Dps) + 1) = block_len[b]
  BY <1>1, <1>2, LFacts, RegularFacts DEF Fits, Dps
<1>4. p = Len(Dps) + 1 /\ repeat_index \in Nat \ {0} /\ Len(Dps) \in Nat
  <2>1. /\ p \in Nat /\ Len(Dps) \in Nat /\ repeat_index \in Nat \ {0}
        /\ p <= Len(Dps) + 1
    BY <1>1, StateFacts
  <2> QED
    BY <1>1, <2>1
<1>5. CursorPlace'
  <2>1. taken = 2 * ((repeat_index - 1) * block_len[b] + block_len[b])
    BY <1>1, <1>2, <1>3, <1>4 DEF CursorPlace
  <2>2. repeat_index' - 1 = repeat_index
    BY <1>1, <1>4
  <2>3. repeat_index * block_len[b] + 0 = (repeat_index - 1) * block_len[b] + block_len[b]
    <3>1. \A x \in Nat : x + 0 = x
      OBVIOUS
    <3>2. repeat_index * block_len[b] \in Nat
      BY <1>3, <1>4, ProductNat
    <3> QED
      BY <1>3, <1>4, <3>1, <3>2, NextMultiple
  <2>4. taken' = 2 * ((repeat_index' - 1) * block_len[b] + Pos(b, 1))
    BY <1>1, <1>3, <2>1, <2>2, <2>3
  <2>5. PICK bb : bb = b
    OBVIOUS
  <2>6. BlockStart(bb)' = BlockStart(b) /\ Pos(bb, 1)' = Pos(b, 1)
    BY <1>2, <2>5
  <2>7. BlockStart(b)' = BlockStart(b) /\ Pos(b, p)' = Pos(b, 1)
    BY <1>1, <2>5, <2>6, StartIsPlace DEF Pos
  <2> QED
    BY <1>1, <1>2, <2>4, <2>7 DEF CursorPlace
<1>6. RecordsInv'
  <2>1. /\ \A n \in 1 .. Len(values) : values[n].block <= b
        /\ \A n \in 1 .. Len(values) : values[n].block = b =>
                \/ values[n].index < repeat_index
                \/ values[n].index = repeat_index /\ values[n].point < p
        /\ \A k \in 1 .. repeat_index : \A pp \in 1 .. Len(Dps) :
                k < repeat_index \/ pp < p =>
                   \E n \in 1 .. Len(values) :
                      values[n].block = b /\ values[n].index = k /\ values[n].point = pp
    BY <1>1, <1>2 DEF RecordsInv
  <2>2. \A n \in 1 .. Len(values) : values[n].block = b => values[n].index < repeat_index + 1
    <3> TAKE n \in 1 .. Len(values)
    <3>1. values[n].index \in Nat
      BY ValueFields DEF IInv, ValuesInv
    <3> QED
      BY <1>4, <2>1, <3>1
  <2>3. ASSUME NEW k \in 1 .. repeat_index + 1, NEW pp \in 1 .. Len(Dps),
               k < repeat_index + 1 \/ pp < 1
        PROVE  \E n \in 1 .. Len(values) :
                  values[n].block = b /\ values[n].index = k /\ values[n].point = pp
    <3>1. k \in 1 .. repeat_index /\ pp < p
      BY <1>4, <2>3
    <3> QED
      BY <2>1, <3>1
  <2>4. Dps' = Dps
    BY <1>1, <1>2 DEF Dps
  <2> QED
    BY <1>1, <2>1, <2>2, <2>3, <2>4 DEF RecordsInv
<1>7. InPlace'
  BY <1>1, <1>2 DEF InPlace, Decoding, Place
<1>8. RecordsDecoded'
  BY <1>1 DEF RecordsDecoded
<1> QED
  BY <1>5, <1>6, <1>7, <1>8

\* The point at the cursor lies where the layout says; the next follows it.
LEMMA DecodePointPlace ==
    ASSUME IInv, PlaceInv, DecodePoint
    PROVE  PlaceInv'
<1>1. /\ pc = "points" /\ pc' = "points" /\ UNCHANGED layoutVars /\ did_len' = did_len
      /\ repeat_index <= len_multiple /\ p <= Len(Dps)
      /\ repeat_index' = repeat_index /\ p' = p + 1
      /\ len_multiple' = len_multiple /\ taken' = taken + PairSize(Dp)
      /\ b' = b /\ byte_offset' = byte_offset
  BY DEF DecodePoint
<1>2. /\ FilledInv /\ FilledInv' /\ (Fits' <=> Fits)
      /\ Fits => CursorPlace /\ RecordsInv /\ InPlace
      /\ \A n \in 1 .. Len(values) : Place(values[n])' =
            2 * (BlockStart(values'[n].block)
                 + (values'[n].index - 1) * block_len[values'[n].block]
                 + offset[values'[n].block][values'[n].point])
      /\ \A bb : BlockStart(bb)' = BlockStart(bb)
      /\ \A bb, pp : Pos(bb, pp)' = Pos(bb, pp)
      /\ L' = L /\ Records' = Records /\ (Repeats' <=> Repeats)
      /\ model' = model /\ offset' = offset /\ block_len' = block_len
  BY <1>1, DecoderStep
<1> SUFFICES ASSUME Fits PROVE CursorPlace' /\ RecordsInv' /\ InPlace' /\ RecordsDecoded'
  BY <1>2 DEF PlaceInv
<1>3. /\ b \in 1 .. L /\ p \in 1 .. Len(Dps) /\ p \in Nat \ {0}
      /\ repeat_index \in Nat \ {0} /\ len_multiple \in Nat
      /\ byte_offset \in Nat /\ taken \in Nat
      /\ BlockStart(b) \in Nat /\ block_len[b] \in Nat
  <2>1. /\ p \in Nat \ {0} /\ Len(Dps) \in Nat
        /\ repeat_index \in Nat \ {0} /\ len_multiple \in Nat
        /\ byte_offset \in Nat /\ taken \in Nat
    BY StateFacts
  <2>2. b \in 1 .. L
    BY LFacts
  <2>3. BlockStart(b) \in Nat /\ block_len[b] \in Nat
    BY <1>1, <1>2, <2>2, RegularFacts DEF Fits
  <2> QED
    BY <1>1, <2>1, <2>2, <2>3
<1>4. /\ Pos(b, p) = offset[b][p] /\ Pos(b, p) \in Nat /\ Pos(b, p + 1) \in Nat
      /\ 2 * Pos(b, p + 1) = 2 * Pos(b, p) + PairSize(Dp)
      /\ PairSize(Dp) \in Nat
  <2>1. p \in 1 .. Len(model[b].dps) /\ p + 1 \in 1 .. Len(model[b].dps) + 1
    BY <1>3 DEF Dps
  <2> QED
    BY <1>1, <1>2, <1>3, <2>1, RegularFacts, PosFits, OffsetTypes DEF Fits, Dp, Dps
<1>5. /\ byte_offset = 2 * BlockStart(b)
      /\ taken = 2 * ((repeat_index - 1) * block_len[b] + Pos(b, p))
      /\ len_multiple = IF model[b].repeating THEN Records ELSE 1
  BY <1>1, <1>2 DEF CursorPlace
<1>6. PICK implemented \in BOOLEAN : values' = Append(values,
             [block |-> b, point |-> p, index |-> repeat_index,
              at |-> byte_offset + taken, implemented |-> implemented,
              sf |-> Unresolved])
  BY DEF DecodePoint
<1> DEFINE new == [block |-> b, point |-> p, index |-> repeat_index,
              at |-> byte_offset + taken, implemented |-> implemented,
              sf |-> Unresolved]
<1>7. /\ new.block = b /\ new.point = p /\ new.index = repeat_index
      /\ new.at = byte_offset + taken
  OBVIOUS
<1> HIDE DEF new
<1>8. /\ values \in Seq(Values) /\ Len(values) \in Nat
      /\ Len(values') = Len(values) + 1
      /\ \A n \in 1 .. Len(values) : values'[n] = values[n]
      /\ values'[Len(values) + 1] = new
  <2>1. values \in Seq(Values)
    BY DEF IInv, ValuesInv
  <2>2. values' = Append(values, new)
    BY <1>6 DEF new
  <2> QED
    BY <2>1, <2>2
<1> DEFINE before == (repeat_index - 1) * block_len[b]
<1>9. before \in Nat
  <2>1. repeat_index - 1 \in Nat
    BY <1>3
  <2> QED
    BY <1>3, <2>1, ProductNat
<1>10. taken = 2 * (before + Pos(b, p))
  BY <1>5
<1> HIDE DEF before
<1>11. PICK m \in 1 .. b, k \in 1 .. p + 1 : m = b /\ k = p + 1
  BY <1>3
<1>12. CursorPlace'
  <2>1. taken' = 2 * ((repeat_index - 1) * block_len[b] + Pos(b, p + 1))
    <3>1. \A x, y, z, w \in Nat : 2 * z = 2 * y + w => 2 * (x + y) + w = 2 * (x + z)
      OBVIOUS
    <3>2. 2 * (before + Pos(b, p)) + PairSize(Dp) = 2 * (before + Pos(b, p + 1))
      BY <1>4, <1>9, <3>1
    <3>3. taken' = 2 * (before + Pos(b, p + 1))
      BY <1>1, <1>10, <3>2
    <3> QED
      BY <3>3 DEF before
  <2>2. BlockStart(m)' = BlockStart(b) /\ Pos(m, k)' = Pos(b, p + 1)
    BY <1>2, <1>11
  <2>3. BlockStart(b)' = BlockStart(b) /\ Pos(b, p)' = Pos(b, p + 1)
    BY <1>1, <1>11, <2>2, StartIsPlace DEF Pos
  <2>4. repeat_index' # len_multiple' + 1
    BY <1>1, <1>3
  <2> QED
    BY <1>1, <1>2, <1>5, <2>1, <2>3, <2>4 DEF CursorPlace
<1>13. InPlace'
  <2>1. \A n \in 1 .. Len(values) : values[n].at = Place(values[n])
    BY <1>1, <1>2 DEF InPlace, Decoding
  <2>2. ASSUME NEW n \in 1 .. Len(values) + 1
        PROVE  values'[n].at = 2 * (BlockStart(values'[n].block)
                 + (values'[n].index - 1) * block_len[values'[n].block]
                 + offset[values'[n].block][values'[n].point])
    <3>1. CASE n \in 1 .. Len(values)
      BY <2>1, <3>1, <1>8 DEF Place
    <3>2. CASE n = Len(values) + 1
      <4>1. byte_offset + taken = 2 * (BlockStart(b)
                 + (repeat_index - 1) * block_len[b] + offset[b][p])
        <5>1. \A x, y, z \in Nat : 2 * x + 2 * (y + z) = 2 * (x + y + z)
          OBVIOUS
        <5>0. BlockStart(b) \in Nat /\ Pos(b, p) \in Nat
          BY <1>3, <1>4
        <5>2. 2 * BlockStart(b) + 2 * (before + Pos(b, p))
                 = 2 * (BlockStart(b) + before + Pos(b, p))
          BY <1>9, <5>0, <5>1
        <5>3. byte_offset + taken = 2 * (BlockStart(b) + before + offset[b][p])
          BY <1>4, <1>5, <1>10, <5>2
        <5> QED
          BY <5>3 DEF before
      <4> QED
        BY <1>7, <1>8, <3>2, <4>1
    <3> QED
      BY <1>8, <3>1, <3>2
  <2>3. \A n : BlockStart(values[n].block)' = BlockStart(values'[n].block)
    BY <1>2, StartIsPlace
  <2>4. \A n \in 1 .. Len(values') : values'[n].at = Place(values[n])'
    BY <1>2, <1>8, <2>2, <2>3 DEF Place
  <2> QED
    BY <2>4 DEF InPlace
<1>14. RecordsInv'
  <2>1. /\ \A n \in 1 .. Len(values) : values[n].block <= b
        /\ \A n \in 1 .. Len(values) : values[n].block = b =>
                \/ values[n].index < repeat_index
                \/ values[n].index = repeat_index /\ values[n].point < p
        /\ \A i \in 1 .. repeat_index : \A pp \in 1 .. Len(Dps) :
                i < repeat_index \/ pp < p =>
                   \E n \in 1 .. Len(values) :
                      values[n].block = b /\ values[n].index = i /\ values[n].point = pp
    BY <1>1, <1>2 DEF RecordsInv
  <2>2. ASSUME NEW n \in 1 .. Len(values')
        PROVE  /\ values'[n].block <= b
               /\ values'[n].block = b =>
                    \/ values'[n].index < repeat_index
                    \/ values'[n].index = repeat_index /\ values'[n].point < p + 1
    <3>1. CASE n \in 1 .. Len(values)
      <4>1. values[n].point \in Nat /\ values'[n] = values[n]
        BY <1>8, <3>1, ValueFields
      <4>2. values[n].point < p => values[n].point < p + 1
        BY <1>3, <4>1
      <4> QED
        BY <2>1, <3>1, <4>1, <4>2
    <3>2. CASE n = Len(values) + 1
      <4>1. b <= b /\ p < p + 1
        BY <1>3
      <4> QED
        BY <1>7, <1>8, <3>2, <4>1
    <3> QED
      BY <1>8, <3>1, <3>2
  <2>3. ASSUME NEW i \in 1 .. repeat_index, NEW pp \in 1 .. Len(Dps),
               i < repeat_index \/ pp < p + 1
        PROVE  \E n \in 1 .. Len(values') :
                  values'[n].block = b /\ values'[n].index = i /\ values'[n].point = pp
    <3>1. CASE i < repeat_index \/ pp < p
      <4>1. PICK n \in 1 .. Len(values) :
                   values[n].block = b /\ values[n].index = i /\ values[n].point = pp
        BY <2>1, <3>1
      <4>2. n \in 1 .. Len(values') /\ values'[n] = values[n]
        BY <1>8
      <4> QED
        BY <4>1, <4>2
    <3>2. CASE ~(i < repeat_index \/ pp < p)
      <4>1. i = repeat_index /\ pp = p
        BY <1>3, <2>3, <3>2
      <4>2. Len(values) + 1 \in 1 .. Len(values')
        BY <1>8
      <4> QED
        BY <1>7, <1>8, <4>1, <4>2
    <3> QED
      BY <3>1, <3>2
  <2>4. Dps' = Dps
    BY <1>1, <1>2 DEF Dps
  <2> QED
    BY <1>1, <2>2, <2>3, <2>4 DEF RecordsInv
<1>15. RecordsDecoded'
  BY <1>1 DEF RecordsDecoded
<1> QED
  BY <1>12, <1>13, <1>14, <1>15

\* No point of a block that is decoded lies beyond the data.
LEMMA NothingMissing ==
    ASSUME IInv, PlaceInv, Fits, pc = "points",
           repeat_index <= len_multiple, p <= Len(Dps)
    PROVE  taken + PairSize(Dp) <= limit
<1>1. FilledInv /\ CursorPlace /\ Regular /\ did_len >= base_len
  BY DEF PlaceInv, Fits
<1>2. /\ p \in Nat \ {0} /\ Len(Dps) \in Nat /\ did_len \in Nat
      /\ repeat_index \in Nat \ {0} /\ len_multiple \in Nat
  BY StateFacts
<1>3. /\ b \in 1 .. L /\ L \in Nat \ {0} /\ BlockStart(b) \in Nat /\ BlockStart(L) \in Nat
      /\ block_len[b] \in Nat /\ block_len[L] \in Nat
  BY <1>1, LFacts, RegularFacts
<1>4. /\ OnlyLastRepeats /\ len = Whole
      /\ base_len = IF Repeats THEN BlockStart(L) ELSE Whole
  BY <1>1, RegularFacts
<1>5. p \in 1 .. Len(model[b].dps) /\ p + 1 \in 1 .. Len(model[b].dps) + 1
  BY <1>2 DEF Dps
<1>6. /\ Pos(b, p) \in Nat /\ Pos(b, p + 1) \in Nat /\ PairSize(Dp) \in Nat
      /\ 2 * Pos(b, p + 1) = 2 * Pos(b, p) + PairSize(Dp)
      /\ Pos(b, p + 1) <= block_len[b]
  BY <1>1, <1>3, <1>5, RegularFacts, PosFits, OffsetTypes DEF Dp, Dps
<1>7. /\ limit = 2 * did_len - byte_offset /\ byte_offset = 2 * BlockStart(b)
      /\ taken = 2 * ((repeat_index - 1) * block_len[b] + Pos(b, p))
      /\ len_multiple = IF model[b].repeating THEN Records ELSE 1
  BY <1>1 DEF CursorPlace, IInv, BytesInv
<1> DEFINE before == (repeat_index - 1) * block_len[b]
           all == len_multiple * block_len[b]
<1>8. before \in Nat /\ all \in Nat
  <2>1. repeat_index - 1 \in Nat
    BY <1>2
  <2> QED
    BY <1>2, <1>3, <2>1, ProductNat
<1>9. before + block_len[b] <= all
  <2>1. repeat_index * block_len[b] = before + block_len[b]
    BY <1>2, <1>3, NextMultiple
  <2>2. repeat_index * block_len[b] <= all
    BY <1>2, <1>3, MultipleFits
  <2> QED
    BY <2>1, <2>2
<1>10. taken = 2 * (before + Pos(b, p))
  BY <1>7
<1> HIDE DEF before, all
<1>11. BlockStart(b) + all <= did_len
  <2>1. CASE model[b].repeating
    <3>1. b = L /\ Repeats
      BY <1>3, <1>4, <2>1 DEF OnlyLastRepeats, Repeats, L
    <3>2. block_len[b] \in Nat \ {0}
      <4>1. block_len[b] > 0
        BY <1>3, <2>1 DEF IInv, LayoutInv, Divisible, L
      <4> QED
        BY <1>3, <4>1
    <3>3. base_len = BlockStart(b) /\ len = BlockStart(b) + block_len[b]
      BY <1>4, <3>1 DEF Whole
    <3>4. PICK x \in Nat : x = did_len - BlockStart(b)
      BY <1>1, <1>2, <1>3, <3>3
    <3>5. \A d, y, at, n \in Nat : y = d - at =>
             (at + n) - at = n /\ ~(d < at) /\ (n <= y => at + n <= d)
      OBVIOUS
    <3>6. /\ (BlockStart(b) + block_len[b]) - BlockStart(b) = block_len[b]
          /\ ~(did_len < BlockStart(b))
          /\ all <= x => BlockStart(b) + all <= did_len
      BY <1>2, <1>3, <1>8, <3>4, <3>5
    <3>7. Records = x \div block_len[b]
      BY <3>3, <3>4, <3>6 DEF Records
    <3>8. all <= x
      BY <1>7, <2>1, <3>2, <3>4, <3>7, DivBounds DEF all
    <3> QED
      BY <3>6, <3>8
  <2>2. CASE ~model[b].repeating
    <3>1. all = block_len[b]
      <4>1. \A y \in Nat : 1 * y = y
        OBVIOUS
      <4> QED
        BY <1>3, <1>7, <2>2, <4>1 DEF all
    <3>2. BlockStart(b) + block_len[b] <= base_len
      <4>1. CASE b = L
        <5>1. ~Repeats
          BY <2>2, <4>1 DEF Repeats, L
        <5>2. base_len = BlockStart(b) + block_len[b]
          BY <1>4, <4>1, <5>1 DEF Whole
        <5>3. \A x, y \in Nat : x + y <= x + y
          OBVIOUS
        <5> QED
          BY <1>3, <5>2, <5>3
      <4>2. CASE b # L
        <5>1. b < L
          BY <1>3, <4>2
        <5>2. BlockStart(b) + block_len[b] <= BlockStart(L)
          BY <1>1, <1>3, <5>1, StartsInOrder
        <5>3. base_len = BlockStart(L) \/ base_len = BlockStart(L) + block_len[L]
          BY <1>4 DEF Whole
        <5>4. \A x, y, z, w \in Nat : x + y <= z => x + y <= z + w
          OBVIOUS
        <5> QED
          BY <1>3, <5>2, <5>3, <5>4
      <4> QED
        BY <4>1, <4>2
    <3>3. base_len \in Nat
      BY <1>3, <1>4 DEF Whole
    <3>4. \A x, y, z, w \in Nat : x + y <= z /\ w >= z => x + y <= w
      OBVIOUS
    <3> QED
      BY <1>1, <1>2, <1>3, <3>1, <3>2, <3>3, <3>4
  <2> QED
    BY <2>1, <2>2
<1>12. \A at, prev, a, q, r, n, t, w, d \in Nat :
          prev + n <= a /\ at + a <= d /\ t <= n /\ 2 * t = 2 * q + w
             => 2 * (prev + q) + w <= 2 * d - 2 * at
  OBVIOUS
<1>13. 2 * (before + Pos(b, p)) + PairSize(Dp) <= 2 * did_len - 2 * BlockStart(b)
  BY <1>2, <1>3, <1>6, <1>8, <1>9, <1>11, <1>12
<1> QED
  BY <1>7, <1>10, <1>13

LEMMA PointMissingPlace ==
    ASSUME IInv, PlaceInv, PointMissing
    PROVE  PlaceInv'
<1>1. /\ pc = "points" /\ repeat_index <= len_multiple /\ p <= Len(Dps)
      /\ taken + PairSize(Dp) > limit /\ UNCHANGED layoutVars /\ did_len' = did_len
      /\ pc' \in {"decoded", "block", "resolve"}
  BY DEF PointMissing, ReturnFromBlock
<1>2. FilledInv' /\ (Fits' <=> Fits)
  BY <1>1, DecoderStep
<1>3. ASSUME Fits PROVE FALSE
  <2>1. taken + PairSize(Dp) <= limit
    BY <1>1, <1>3, NothingMissing
  <2>2. taken \in Nat /\ limit \in Nat /\ PairSize(Dp) \in Nat
    <3>1. b \in 1 .. Len(model) /\ p \in Nat \ {0} /\ model \in Models
          /\ taken \in Nat /\ limit \in Nat /\ Len(Dps) \in Nat
      BY StateFacts
    <3>2. p \in 1 .. Len(Dps)
      BY <1>1, <3>1
    <3> QED
      BY <3>1, <3>2, DpFacts
  <2> QED
    BY <1>1, <2>1, <2>2
<1> QED
  BY <1>2, <1>3 DEF PlaceInv

\* A block ends where the next begins, and the last with its records.
LEMMA BlockDonePlace ==
    ASSUME IInv, PlaceInv, BlockDone
    PROVE  PlaceInv'
<1>1. /\ pc = "points" /\ repeat_index > len_multiple
      /\ UNCHANGED layoutVars /\ did_len' = did_len /\ values' = values
      /\ byte_offset' = byte_offset + taken
      /\ pc' \in {"decoded", "block", "resolve"}
      /\ IF byte_offset' >= did_len * 2 + 4 THEN pc' = "decoded" /\ b' = b
         ELSE IF b < L THEN pc' = "block" /\ b' = b + 1
         ELSE pc' = "resolve" /\ b' = b
  BY DEF BlockDone, ReturnFromBlock, L
<1>2. /\ FilledInv /\ FilledInv' /\ (Fits' <=> Fits)
      /\ Fits => CursorPlace /\ RecordsInv /\ InPlace
      /\ \A n \in 1 .. Len(values) : Place(values[n])' =
            2 * (BlockStart(values'[n].block)
                 + (values'[n].index - 1) * block_len[values'[n].block]
                 + offset[values'[n].block][values'[n].point])
      /\ \A bb : BlockStart(bb)' = BlockStart(bb)
      /\ L' = L /\ Records' = Records /\ (Repeats' <=> Repeats)
      /\ model' = model /\ offset' = offset /\ block_len' = block_len
  BY <1>1, DecoderStep
<1> SUFFICES ASSUME Fits PROVE CursorPlace' /\ RecordsInv' /\ InPlace' /\ RecordsDecoded'
  BY <1>2 DEF PlaceInv
<1>3. /\ repeat_index \in Nat \ {0} /\ len_multiple \in Nat
      /\ repeat_index = len_multiple + 1
      /\ byte_offset \in Nat /\ taken \in Nat /\ limit \in Nat /\ did_len \in Nat
  <2>1. /\ repeat_index \in Nat \ {0} /\ len_multiple \in Nat
        /\ repeat_index <= len_multiple + 1
        /\ byte_offset \in Nat /\ taken \in Nat /\ limit \in Nat /\ did_len \in Nat
    BY StateFacts
  <2>2. repeat_index = len_multiple + 1
    BY <1>1, <2>1
  <2> QED
    BY <2>1, <2>2
<1>4. /\ b \in 1 .. L /\ L \in Nat \ {0}
      /\ BlockStart(b) \in Nat /\ block_len[b] \in Nat
      /\ OnlyLastRepeats /\ Pos(b, 1) = 0
      /\ b \in 1 .. L - 1 => BlockStart(b + 1) = BlockStart(b) + block_len[b]
  BY <1>1, <1>2, LFacts, RegularFacts DEF Fits
<1>5. /\ byte_offset = 2 * BlockStart(b) /\ p = 1
      /\ taken = 2 * ((repeat_index - 1) * block_len[b] + Pos(b, p))
      /\ len_multiple = IF model[b].repeating THEN Records ELSE 1
  BY <1>1, <1>2, <1>3 DEF CursorPlace
<1>6. ~(byte_offset' >= did_len * 2 + 4)
  <2>1. limit = 2 * did_len - byte_offset /\ taken <= limit
    BY <1>1 DEF IInv, BytesInv
  <2>2. \A d, at, t, l \in Nat : l = 2 * d - at /\ t <= l => ~(at + t >= d * 2 + 4)
    OBVIOUS
  <2>3. ~(byte_offset + taken >= did_len * 2 + 4)
    BY <1>3, <2>1, <2>2
  <2> QED
    BY <1>1, <2>3
<1>7. /\ \A n \in 1 .. Len(values) : values[n].block <= b
      /\ \A n \in 1 .. Len(values) : values[n].block = b =>
              \/ values[n].index < repeat_index
              \/ values[n].index = repeat_index /\ values[n].point < p
      /\ \A k \in 1 .. repeat_index : \A pp \in 1 .. Len(Dps) :
              k < repeat_index \/ pp < p =>
                 \E n \in 1 .. Len(values) :
                    values[n].block = b /\ values[n].index = k /\ values[n].point = pp
  BY <1>1, <1>2 DEF RecordsInv
<1>8. \A n \in 1 .. Len(values) : /\ values[n].block \in Nat /\ values[n].index \in Nat
                                  /\ values[n].point \in Nat \ {0}
  <2> TAKE n \in 1 .. Len(values)
  <2>1. values \in Seq(Values)
    BY DEF IInv, ValuesInv
  <2>2. values[n] \in Values
    BY <2>1, ElementOfSeq
  <2> QED
    BY <2>2 DEF Values
<1>9. InPlace'
  BY <1>1, <1>2 DEF InPlace, Decoding, Place
<1>10. CASE b < L
  <2>1. pc' = "block" /\ b' = b + 1
    BY <1>1, <1>6, <1>10
  <2>2. byte_offset + taken = 2 * (BlockStart(b) + block_len[b])
    <3>1. ~model[b].repeating
      BY <1>4, <1>10 DEF OnlyLastRepeats
    <3>2. repeat_index - 1 = 1
      BY <1>3, <1>5, <3>1
    <3>3. \A x, y \in Nat : 2 * x + 2 * (1 * y + 0) = 2 * (x + y)
      OBVIOUS
    <3>4. taken = 2 * (1 * block_len[b] + 0)
      BY <1>4, <1>5, <3>2
    <3> QED
      BY <1>4, <1>5, <3>3, <3>4
  <2>3. PICK m \in 1 .. L : m = b + 1
    BY <1>4, <1>10
  <2>4. BlockStart(m) = BlockStart(b) + block_len[b]
    BY <1>4, <1>10, <2>3
  <2>5. BlockStart(b)' = BlockStart(m)
    <3>1. BlockStart(m)' = BlockStart(m)
      BY <1>2
    <3> QED
      BY <2>1, <2>3, <3>1, StartIsPlace
  <2>6. CursorPlace'
    BY <1>1, <2>1, <2>2, <2>4, <2>5 DEF CursorPlace
  <2>7. RecordsInv'
    <3>1. \A n \in 1 .. Len(values) : values[n].block <= b + 1 /\ values[n].block < b + 1
      BY <1>4, <1>7, <1>8
    <3> QED
      BY <1>1, <2>1, <3>1 DEF RecordsInv
  <2>8. RecordsDecoded'
    BY <2>1 DEF RecordsDecoded
  <2> QED
    BY <1>9, <2>6, <2>7, <2>8
<1>11. CASE ~(b < L)
  <2>1. pc' = "resolve" /\ b' = b /\ b = L
    BY <1>1, <1>4, <1>6, <1>11
  <2>2. CursorPlace'
    BY <2>1 DEF CursorPlace
  <2>3. RecordsInv'
    BY <1>1, <1>7, <2>1 DEF RecordsInv
  <2>4. RecordsDecoded'
    <3> SUFFICES ASSUME Repeats
                 PROVE  /\ \A n \in 1 .. Len(values) :
                              values[n].block = L => values[n].index <= Records
                        /\ \A k \in 1 .. Records : \A pp \in 1 .. Len(model[L].dps) :
                              \E n \in 1 .. Len(values) : /\ values[n].block = L
                                                          /\ values[n].index = k
                                                          /\ values[n].point = pp
      BY <1>1, <1>2 DEF RecordsDecoded, L
    <3>1. len_multiple = Records
      BY <1>5, <2>1 DEF Repeats, L
    <3>2. ASSUME NEW n \in 1 .. Len(values), values[n].block = L
          PROVE  values[n].index <= Records
      <4>1. ~(values[n].point < p)
        BY <1>5, <1>8
      <4>2. values[n].index < repeat_index
        BY <1>7, <2>1, <3>2, <4>1
      <4> QED
        BY <1>3, <1>8, <3>1, <4>2
    <3>3. ASSUME NEW k \in 1 .. Records, NEW pp \in 1 .. Len(model[L].dps)
          PROVE  \E n \in 1 .. Len(values) : /\ values[n].block = L
                                             /\ values[n].index = k /\ values[n].point = pp
      <4>1. k \in 1 .. repeat_index /\ k < repeat_index
        BY <1>3, <3>1
      <4> QED
        BY <1>7, <2>1, <4>1 DEF Dps
    <3> QED
      BY <3>2, <3>3
  <2> QED
    BY <1>9, <2>2, <2>3, <2>4
<1> QED
  BY <1>10, <1>11

\* Resolving a scale factor moves no value.
LEMMA ResolvingPlace ==
    ASSUME IInv, PlaceInv, pc \in {"resolve", "decoded"}, pc' \in {"resolve", "decoded"},
           UNCHANGED layoutVars, did_len' = did_len, b' = b,
           Len(values') = Len(values),
           \A n \in 1 .. Len(values) :
              /\ values'[n].block = values[n].block /\ values'[n].point = values[n].point
              /\ values'[n].index = values[n].index /\ values'[n].at = values[n].at
    PROVE  PlaceInv'
<1>1. /\ FilledInv' /\ (Fits' <=> Fits)
      /\ Fits => CursorPlace /\ RecordsInv /\ InPlace /\ RecordsDecoded
      /\ \A n \in 1 .. Len(values) : Place(values[n])' =
            2 * (BlockStart(values'[n].block)
                 + (values'[n].index - 1) * block_len[values'[n].block]
                 + offset[values'[n].block][values'[n].point])
      /\ Records' = Records /\ (Repeats' <=> Repeats) /\ model' = model
  BY DecoderStep
<1> SUFFICES ASSUME Fits PROVE CursorPlace' /\ RecordsInv' /\ InPlace' /\ RecordsDecoded'
  BY <1>1 DEF PlaceInv
<1>2. CursorPlace'
  BY DEF CursorPlace
<1>3. RecordsInv'
  BY <1>1 DEF RecordsInv
<1>4. InPlace'
  <2>1. \A n \in 1 .. Len(values) : values[n].at = Place(values[n])
    BY <1>1 DEF InPlace, Decoding
  <2>2. \A n \in 1 .. Len(values) : values'[n].at = Place(values[n])'
    BY <1>1, <2>1 DEF Place
  <2> QED
    BY <2>2 DEF InPlace
<1>5. RecordsDecoded'
  <2> SUFFICES ASSUME Repeats
               PROVE  /\ \A n \in 1 .. Len(values) :
                            values'[n].block = L => values'[n].index <= Records
                      /\ \A k \in 1 .. Records : \A pp \in 1 .. Len(model[L].dps) :
                            \E n \in 1 .. Len(values) : /\ values'[n].block = L
                                                        /\ values'[n].index = k
                                                        /\ values'[n].point = pp
    BY <1>1 DEF RecordsDecoded, L
  <2>1. /\ \A n \in 1 .. Len(values) : values[n].block = L => values[n].index <= Records
        /\ \A k \in 1 .. Records : \A pp \in 1 .. Len(model[L].dps) :
              \E n \in 1 .. Len(values) : /\ values[n].block = L
                                          /\ values[n].index = k
                                          /\ values[n].point = pp
    BY <1>1 DEF RecordsDecoded, L
  <2>2. ASSUME NEW n \in 1 .. Len(values), values'[n].block = L
        PROVE  values'[n].index <= Records
    BY <2>1, <2>2
  <2>3. ASSUME NEW k \in 1 .. Records, NEW pp \in 1 .. Len(model[L].dps)
        PROVE  \E n \in 1 .. Len(values) : /\ values'[n].block = L
                                           /\ values'[n].index = k /\ values'[n].point = pp
    <3>1. PICK n \in 1 .. Len(values) : /\ values[n].block = L
                                        /\ values[n].index = k /\ values[n].point = pp
      BY <2>1
    <3>2. /\ values'[n].block = L /\ values'[n].index = k /\ values'[n].point = pp
      BY <3>1
    <3> QED
      BY <3>2
  <2> QED
    BY <2>2, <2>3
<1> QED
  BY <1>2, <1>3, <1>4, <1>5

LEMMA ResolvePlace ==
    ASSUME IInv, PlaceInv, Resolve \/ ResolveBails \/ ResolvePasses \/ Resolved
    PROVE  PlaceInv'
<1>1. /\ pc = "resolve" /\ pc' \in {"resolve", "decoded"}
      /\ UNCHANGED layoutVars /\ did_len' = did_len /\ b' = b
  BY DEF Resolve, ResolveBails, ResolvePasses, Resolved, ResolveStep
<1>2. /\ Len(values') = Len(values)
      /\ \A n \in 1 .. Len(values) :
           /\ values'[n].block = values[n].block /\ values'[n].point = values[n].point
           /\ values'[n].index = values[n].index /\ values'[n].at = values[n].at
  <2>1. CASE Resolve
    <3>1. PICK sf : values' = [values EXCEPT ![v].sf = sf]
      BY <2>1 DEF Resolve
    <3>2. values \in Seq(Values)
      BY DEF IInv, ValuesInv
    <3>3. v \in 1 .. Len(values)
      <4>1. v \in 1 .. Len(values) + 1 /\ v <= Len(values) /\ Len(values) \in Nat
        BY <2>1, <3>2 DEF Resolve, ResolveStep, IInv, ResolveInv
      <4> QED
        BY <4>1
    <3>4. /\ Len(values') = Len(values)
          /\ \A n \in 1 .. Len(values) : n # v => values'[n] = values[n]
          /\ values'[v] = [values[v] EXCEPT !.sf = sf]
      BY <3>1, <3>2, <3>3
    <3>5. values[v] \in Values
      BY <3>2, <3>3, ElementOfSeq
    <3>6. /\ values'[v].block = values[v].block /\ values'[v].point = values[v].point
          /\ values'[v].index = values[v].index /\ values'[v].at = values[v].at
      BY <3>4, <3>5 DEF Values
    <3> QED
      BY <3>4, <3>6
  <2>2. CASE ResolveBails \/ ResolvePasses \/ Resolved
    BY <2>2 DEF ResolveBails, ResolvePasses, Resolved
  <2> QED
    BY <2>1, <2>2
<1> QED
  BY <1>1, <1>2, ResolvingPlace

LEMMA StutterPlace ==
    ASSUME IInv, PlaceInv, UNCHANGED vars
    PROVE  PlaceInv'
<1>1. /\ UNCHANGED layoutVars /\ UNCHANGED blockVars
      /\ pc' = pc /\ b' = b /\ p' = p /\ did_len' = did_len
      /\ byte_offset' = byte_offset /\ values' = values /\ v' = v
  BY DEF vars
<1>2. /\ model' = model /\ offset' = offset /\ block_len' = block_len
      /\ base_len' = base_len /\ len' = len /\ dp_block_offset' = dp_block_offset
      /\ limit' = limit /\ len_multiple' = len_multiple
      /\ repeat_index' = repeat_index /\ taken' = taken
  BY <1>1 DEF layoutVars, blockVars
<1>3. L' = L /\ (Repeats' <=> Repeats) /\ Records' = Records
  BY <1>1, <1>2 DEF L, Repeats, Records
<1>4. \A bb : BlockStart(bb)' = BlockStart(bb)
  BY <1>2, <1>3, StartIsPlace
<1>5. FilledInv'
  <2>1. FilledInv
    BY DEF PlaceInv
  <2>2. BlockStart(L)' = BlockStart(L) /\ BlockStart(b)' = BlockStart(b)
    BY <1>1, <1>3, <1>4, StartIsPlace
  <2>3. Whole' = Whole /\ (OnlyLastRepeats' <=> OnlyLastRepeats)
    BY <1>2, <1>3, <2>2 DEF Whole, OnlyLastRepeats
  <2> QED
    BY <1>1, <1>2, <1>3, <2>1, <2>2, <2>3 DEF FilledInv, LengthFilled, Behind
<1>6. Fits' <=> Fits
  <2>1. BlockStart(Len(model))' = BlockStart(Len(model))
    BY <1>2, <1>3, <1>4, StartIsPlace DEF L
  <2> QED
    BY <1>1, <1>2, <2>1 DEF Fits, Regular
<1> SUFFICES ASSUME Fits PROVE CursorPlace' /\ RecordsInv' /\ InPlace' /\ RecordsDecoded'
  BY <1>5, <1>6 DEF PlaceInv
<1>7. CursorPlace /\ RecordsInv /\ InPlace /\ RecordsDecoded
  BY DEF PlaceInv
<1>8. CursorPlace'
  <2>1. BlockStart(b)' = BlockStart(b) /\ Pos(b, p)' = Pos(b, p)
    BY <1>1, <1>2, <1>3, <1>4, StartIsPlace DEF Pos
  <2> QED
    BY <1>1, <1>2, <1>3, <1>7, <2>1 DEF CursorPlace
<1>9. RecordsInv' /\ RecordsDecoded'
  BY <1>1, <1>2, <1>3, <1>7 DEF RecordsInv, RecordsDecoded, Dps
<1>10. InPlace'
  <2>1. \A n : BlockStart(values[n].block)' = BlockStart(values[n].block)
    BY <1>1, <1>2, <1>3, StartIsPlace
  <2>2. \A n : Place(values[n])' = Place(values[n])
    BY <1>1, <1>2, <2>1 DEF Place
  <2> QED
    BY <1>1, <1>7, <2>2 DEF InPlace, Decoding
<1> QED
  BY <1>8, <1>9, <1>10

-----------------------------------------------------------------------------
\* Theorems

LEMMA InitPlace == Init => PlaceInv
<1> SUFFICES ASSUME Init PROVE PlaceInv
  OBVIOUS
<1>1. /\ pc = "fill" /\ b = 1 /\ p = 1 /\ base_len = 0 /\ len = 0 /\ values = <<>>
      /\ model \in Models /\ block_len = [bb \in 1 .. L |-> 0]
  BY DEF Init, L
<1>2. BlockStart(1) = 0
  BY <1>1, StartFacts
<1>3. FilledInv
  BY <1>1, <1>2 DEF FilledInv
<1> QED
  BY <1>1, <1>3, NothingInPlace

LEMMA NextPlace == IInv /\ PlaceInv /\ [Next]_vars => PlaceInv'
<1> SUFFICES ASSUME IInv, PlaceInv, [Next]_vars PROVE PlaceInv'
  OBVIOUS
<1>1. CASE FillPoint \/ FillBlock
  BY <1>1, FillPlace
<1>2. CASE DecodeData
  BY <1>2, DecodeDataPlace
<1>3. CASE EnterBlock
  BY <1>3, EnterBlockPlace
<1>4. CASE DecodePoint
  BY <1>4, DecodePointPlace
<1>5. CASE NextRepetition
  BY <1>5, NextRepetitionPlace
<1>6. CASE PointMissing
  BY <1>6, PointMissingPlace
<1>7. CASE BlockDone
  BY <1>7, BlockDonePlace
<1>8. CASE Resolve \/ ResolveBails \/ ResolvePasses \/ Resolved
  BY <1>8, ResolvePlace
<1>9. CASE UNCHANGED vars
  BY <1>9, StutterPlace
<1>10. CASE Finished
  BY <1>10, StutterPlace DEF Finished
<1> QED
  BY <1>1, <1>2, <1>3, <1>4, <1>5, <1>6, <1>7, <1>8, <1>9, <1>10 DEF Next

\* The places of values, cursor and layout agree in every reachable state.
THEOREM Placed == Spec => []PlaceInv
<1>1. Spec => []IInv
  BY Inductive
<1> QED
  BY <1>1, InitPlace, NextPlace, PTL DEF Spec

\* The decoder counts bytes and the layout registers, from other fields of the
\* model; of a regular model both find every point of every record in the same
\* place (suns_model.c, suns_model_fill_offsets and suns_decode_dp_block).
THEOREM SameLayout == Spec => []DecodedInPlace
<1>1. PlaceInv => DecodedInPlace
  BY DEF PlaceInv, Fits, DecodedInPlace
<1> QED
  BY <1>1, Placed, PTL

\* The number of records is the README's quotient, and each is whole
\* (suns_model.c, suns_decode_data).
THEOREM AllRecords == Spec => []CompleteRecords
<1>1. PlaceInv => CompleteRecords
  BY DEF PlaceInv, Fits, CompleteRecords
<1> QED
  BY <1>1, Placed, PTL

=============================================================================

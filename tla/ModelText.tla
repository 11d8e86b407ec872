----------------------------- MODULE ModelText ------------------------------
(***************************************************************************)
(* Data models and the two languages they are written in.                  *)
(*                                                                         *)
(* A slang file is a sequence of items, each what the grammar reduces in   *)
(* one go: a model block (with its elements), a block of data, a global    *)
(* define block.  A broken item is a model block with an error in it, that *)
(* is its elements before the error; a junk item is one token where no     *)
(* block can start, such as each token left of a broken block.  An XML     *)
(* file is a sequence of model elements and a sequence of strings          *)
(* elements.  Words are atoms; of the attributes of a point only the units *)
(* and the label are kept, of a define block only its name.                *)
(*                                                                         *)
(* The global parser state is a record: the models in the order of their   *)
(* making, the did_list, the indices of the models in the model_list, the  *)
(* names of the define blocks, the number of data blocks.                  *)
(***************************************************************************)
EXTENDS SunsTypes, SequencesExt

CONSTANTS
    Unlexable,      \* the words the scanner does not take for one NAME
    Markup          \* the words ezxml does not read as they stand: see Text

NULL == "NULL"          \* a null pointer
NoId == -1              \* an id that is no number

\* What "%s" makes of a string.
Printed(word) == IF word = NULL THEN "(null)" ELSE word

EmptyState == [models |-> <<>>, did_list |-> <<>>, model_list |-> <<>>,
               define_list |-> <<>>, data |-> 0]

\* suns_model_new(); the file it comes from is kept for the properties only.
NewModel(file) == [name |-> NULL, dp_blocks |-> <<>>, defines |-> <<>>,
                   len |-> 0, base_len |-> 0, fills |-> 0, file |-> file]

\* suns_find_did(): the first of the did_list, 0 when there is none.
FindDid(s, did) == SelectInSeq(s.did_list, LAMBDA d : d.did = did)

DidsOf(s, i) == SelectSeq(s.did_list, LAMBDA d : d.model = i)

\* The points of a model, as suns_dp_find_in_model() passes through them.
PointsOf(m) == FlattenSeq([b \in DOMAIN m.dp_blocks |-> m.dp_blocks[b].dps])

WithPoints(m, f(_, _)) ==
    LET rewritten(b) ==
            [m.dp_blocks[b] EXCEPT !.dps =
                [k \in DOMAIN m.dp_blocks[b].dps |-> f(m.dp_blocks[b].dps[k], <<b, k>>)]]
    IN [m EXCEPT !.dp_blocks = [b \in DOMAIN m.dp_blocks |-> rewritten(b)]]

-----------------------------------------------------------------------------
(* What a file holds *)

IsSequence(x) == x \in Seq({x[i] : i \in DOMAIN x})

\* A point as the parser leaves it; a string is not given a negative length.
PointFields == {"name", "type", "offset", "len", "sf", "ref", "units", "label", "define"}
IsPoint(dp) ==
    /\ DOMAIN dp = PointFields
    /\ dp.type \in Types /\ dp.offset \in Int /\ dp.len \in Nat

IsPoints(dps) == IsSequence(dps) /\ \A k \in DOMAIN dps : IsPoint(dps[k])

IsElement(e) ==
    /\ e.kind \in {"name", "len", "did", "datapoints", "define"}
    /\ e.kind = "datapoints" => IsPoints(e.dps)

IsItem(item) ==
    /\ item.kind \in {"model", "broken", "data", "define", "junk"}
    /\ item.kind \in {"model", "broken"} =>
          IsSequence(item.elmts) /\ \A k \in DOMAIN item.elmts : IsElement(item.elmts[k])

IsXmlBlock(block) ==
    /\ IsSequence(block.points)
    /\ \A k \in DOMAIN block.points :
          block.points[k].type \in Types /\ block.points[k].len \in Nat

IsXmlModel(x) ==
    IsSequence(x.blocks) /\ \A b \in DOMAIN x.blocks : IsXmlBlock(x.blocks[b])

IsFile(file) ==
    /\ IsSequence(file.items) /\ \A k \in DOMAIN file.items : IsItem(file.items[k])
    /\ IsSequence(file.xml.models)
    /\ \A k \in DOMAIN file.xml.models : IsXmlModel(file.xml.models[k])
    /\ IsSequence(file.xml.strings)

-----------------------------------------------------------------------------
(* Checks and completions of a model *)

\* suns_check_scale_factors(): a scale factor is looked for by name in all
\* blocks; one in the repeating block is of no use to the others.
ScaleFactorsFound(m) ==
    \A b \in DOMAIN m.dp_blocks : \A k \in DOMAIN m.dp_blocks[b].dps :
        LET dp    == m.dp_blocks[b].dps[k]
            found == SelectInSeq(m.dp_blocks, LAMBDA c :
                        \E n \in DOMAIN c.dps : c.dps[n].name = dp.ref)
        IN IsNumeric(dp.type) /\ dp.ref # NULL =>
              /\ found # 0
              /\ m.dp_blocks[found].repeating => m.dp_blocks[b].repeating

\* suns_model_check_consistency() dereferences the head of the did_list of a
\* model without a name.
CheckCrashes(s, i) == s.models[i].name = NULL /\ DidsOf(s, i) = <<>>
Consistent(s, i)   == ScaleFactorsFound(s.models[i]) /\ s.models[i].name # NULL

\* suns_model_resolve_defines(): the model's own blocks before the global ones.
ResolveDefines(s, m) ==
    WithPoints(m, LAMBDA dp, at :
        IF IsSymbolic(dp.type) /\ dp.ref # NULL
        THEN [dp EXCEPT !.define =
                IF Contains(m.defines, dp.ref) THEN "own" ELSE
                IF Contains(s.define_list, dp.ref) THEN "global" ELSE NULL]
        ELSE dp)

\* suns_model_fill_offsets(): offsets count from the start of the block, one
\* given in the file moves the count, and the lengths are added to the model's.
FillPoint(block, dp) ==
    LET at == IF dp.offset > 0 THEN dp.offset ELSE block.len
    IN [block EXCEPT !.dps = Append(@, [dp EXCEPT !.offset = at]),
                     !.len = at + Registers(dp)]

FillBlock(block) ==
    LET filled[k \in 0 .. Len(block.dps)] ==
            IF k = 0 THEN [block EXCEPT !.dps = <<>>, !.len = 0]
            ELSE FillPoint(filled[k - 1], block.dps[k])
    IN filled[Len(block.dps)]

AddFilled(m, block) ==
    LET b == FillBlock(block)
    IN [m EXCEPT !.dp_blocks = Append(@, b),
                 !.base_len = @ + IF b.repeating THEN 0 ELSE b.len,
                 !.len = @ + b.len]

FillOffsets(m) ==
    LET filled[k \in 0 .. Len(m.dp_blocks)] ==
            IF k = 0 THEN [m EXCEPT !.dp_blocks = <<>>, !.fills = @ + 1]
            ELSE AddFilled(filled[k - 1], m.dp_blocks[k])
    IN filled[Len(m.dp_blocks)]

-----------------------------------------------------------------------------
(* Reading slang *)

\* The rules of model_elmts.  A did takes the model's name as it is so far.
Element(s, e) ==
    LET i == Len(s.models)
    IN CASE e.kind = "name" -> [s EXCEPT !.models[i].name = e.name]
         [] e.kind = "len"  -> [s EXCEPT !.models[i].len = e.len]
         [] e.kind = "did"  ->
              [s EXCEPT !.did_list = Append(@,
                 [did |-> e.did, model |-> i,
                  name |-> IF e.name = NULL THEN s.models[i].name ELSE e.name])]
         [] e.kind = "datapoints" ->
              [s EXCEPT !.models[i].dp_blocks = Append(@,
                 [repeating |-> e.repeating, dps |-> e.dps, len |-> 0])]
         [] e.kind = "define" ->
              [s EXCEPT !.models[i].defines = Append(@, e.name)]

\* A model of its own, in no list yet.
Begun(s, file) == [s EXCEPT !.models = Append(@, NewModel(file))]

\* model_elmts of a model_block: its dids are in the global list at once.
ModelElements(s, item, file) ==
    LET read[k \in 0 .. Len(item.elmts)] ==
            IF k = 0 THEN Begun(s, file)
            ELSE Element(read[k - 1], item.elmts[k])
    IN read[Len(item.elmts)]

\* Slip: the model listed with each of its dids.
ModelBlock_PerDid(s, item, file) ==
    LET t == ModelElements(s, item, file)
        i == Len(t.models)
    IN [t EXCEPT !.models[i]  = ResolveDefines(s, @),
                 !.model_list = @ \o [d \in DOMAIN DidsOf(t, i) |-> i]]

ModelBlock(s, item, file) ==
    LET t == ModelElements(s, item, file)
        i == Len(t.models)
    IN [t EXCEPT !.models[i]  = ResolveDefines(s, @),
                 !.model_list = Append(@, i)]

\* One item of the file reduced.
Item(s, item, file) ==
    CASE item.kind = "model"  -> ModelBlock(s, item, file)
      [] item.kind = "data"   -> [s EXCEPT !.data = @ + 1]
      [] item.kind = "define" -> [s EXCEPT !.define_list = Append(@, item.name)]
      [] item.kind = "broken" -> ModelElements(s, item, file)
      [] item.kind = "junk"   -> s

IsError(item) == item.kind \in {"broken", "junk"}

FirstError(items) == SelectInSeq(items, IsError)

\* yyparse() stops at the first error: the number of items it takes.
Taken(items) == IF FirstError(items) = 0 THEN Len(items) ELSE FirstError(items)

Parse(s, items, file) ==
    LET read[k \in 0 .. Taken(items)] ==
            IF k = 0 THEN s ELSE Item(read[k - 1], items[k], file)
    IN read[Taken(items)]

\* The check at the end of a model block, where the process may end.
ParseCrashes(s, items) ==
    \E k \in 1..Taken(items) :
        /\ items[k].kind = "model"
        /\ ~ \E n \in DOMAIN items[k].elmts : items[k].elmts[n].kind \in {"name", "did"}

-----------------------------------------------------------------------------
(* Reading XML *)

\* suns_ezxml_to_dp(): the offset is not read, len is in registers, and sf
\* is a number or a name.
XmlPoint(p) ==
    [name |-> p.id, type |-> p.type, offset |-> -1,
     len |-> IF p.type = "string" THEN p.len * 2 ELSE 0,
     sf |-> p.sf, ref |-> p.ref, units |-> p.units, label |-> NULL,
     define |-> NULL]

XmlBlock(block) ==
    [repeating |-> block.repeating, len |-> 0,
     dps |-> [k \in DOMAIN block.points |-> XmlPoint(block.points[k])]]

\* suns_parse_xml_model_elmt() and what its caller does with the result.
XmlModel(s, x, file) ==
    IF x.id = NoId THEN s ELSE
    LET i == Len(s.models) + 1
        blocks == [b \in DOMAIN x.blocks |-> XmlBlock(x.blocks[b])]
    IN [s EXCEPT !.models = Append(@, [NewModel(file) EXCEPT !.dp_blocks = blocks]),
                 !.did_list = Append(@, [did |-> x.id, model |-> i, name |-> NULL]),
                 !.model_list = Append(@, i)]

\* Where suns_dp_find_in_model() finds a point: the first of that name.
Place(m, name) ==
    LET b == SelectInSeq(m.dp_blocks, LAMBDA c :
                \E k \in DOMAIN c.dps : c.dps[k].name = name)
    IN IF b = 0 THEN <<0, 0>>
       ELSE <<b, SelectInSeq(m.dp_blocks[b].dps, LAMBDA dp : dp.name = name)>>

\* Attributes are appended, and suns_find_attribute() finds the first.
Labelled(m, points) ==
    WithPoints(m, LAMBDA dp, at :
        LET mine == SelectInSeq(points, LAMBDA p :
                       p.label # NULL /\ Place(m, p.id) = at)
        IN IF mine = 0 \/ dp.label # NULL THEN dp
           ELSE [dp EXCEPT !.label = points[mine].label])

\* suns_parse_xml_strings_elmt(): the did is looked up in all that is loaded.
XmlStrings(s, x) ==
    LET d == FindDid(s, x.id)
        i == s.did_list[d].model
    IN IF x.id = NoId \/ x.locale # "en" \/ d = 0 \/ ~ x.model THEN s
       ELSE [s EXCEPT !.did_list[d].name = x.label,
                      !.models[i] = [Labelled(@, x.points) EXCEPT !.name = x.label]]

\* All the models, all the strings of a file.
XmlModels(s, models, file) ==
    LET read[k \in 0 .. Len(models)] ==
            IF k = 0 THEN s ELSE XmlModel(read[k - 1], models[k], file)
    IN read[Len(models)]

AllXmlStrings(s, strings) ==
    LET read[k \in 0 .. Len(strings)] ==
            IF k = 0 THEN s ELSE XmlStrings(read[k - 1], strings[k])
    IN read[Len(strings)]

\* Slip: the strings while their models are not there yet.
ParseXml_StringsFirst(s, x, file) ==
    XmlModels(AllXmlStrings(s, x.strings), x.models, file)

\* suns_parse_xml_model_file(): all the models, then all the strings.
ParseXml(s, x, file) == AllXmlStrings(XmlModels(s, x.models, file), x.strings)

-----------------------------------------------------------------------------
(* Writing slang and XML *)

\* Types the grammar refuses, and names the scanner does.
Unreadable(dp) ==
    \/ dp.type = "undefined"
    \/ dp.name \in Unlexable
    \/ dp.type # "string" /\ dp.sf = 0 /\ dp.ref \in Unlexable

\* suns_dp_fprint(), suns_snprintf_type_pair(): a type has one subscript.
SlangPoint(dp) ==
    [dp EXCEPT !.sf  = IF dp.type = "string" THEN 0 ELSE @,
               !.ref = IF dp.type = "string" \/ dp.sf # 0 THEN NULL ELSE @,
               !.define = NULL]

\* suns_model_fprintf()
SlangModel(s, i) ==
    LET m == s.models[i]
        dids == DidsOf(s, i)
        head == (IF m.name = NULL THEN <<>>
                 ELSE << [kind |-> "name", name |-> m.name] >>)
                \o [d \in DOMAIN dids |-> [kind |-> "did", did |-> dids[d].did,
                                           name |-> Printed(dids[d].name)]]
                \o << [kind |-> "len", len |-> m.len] >>
        body == [b \in DOMAIN m.dp_blocks |->
                    [kind |-> "datapoints", repeating |-> m.dp_blocks[b].repeating,
                     dps |-> [k \in DOMAIN m.dp_blocks[b].dps |->
                                SlangPoint(m.dp_blocks[b].dps[k])]]]
        bad  == SelectInSeq(m.dp_blocks, LAMBDA b :
                    \E k \in DOMAIN b.dps : Unreadable(b.dps[k]))
    IN IF bad # 0
       THEN [kind |-> "broken", elmts |-> head \o SubSeq(body, 1, bad - 1)]
       ELSE [kind |-> "model", elmts |-> head \o body \o
                [k \in DOMAIN m.defines |->
                    [kind |-> "define", name |-> m.defines[k]]]]

\* suns_model_export_all() for slang: the models, then the global defines.
ExportSlang(s) ==
    [k \in DOMAIN s.model_list |-> SlangModel(s, s.model_list[k])]
    \o [k \in DOMAIN s.define_list |->
          [kind |-> "define", name |-> s.define_list[k]]]

\* Slip: lengths of strings in bytes.
XmlOfPoint_Bytes(dp) ==
    [id |-> dp.name, type |-> dp.type, len |-> dp.len, units |-> dp.units,
     sf  |-> IF dp.type = "string" THEN 0 ELSE dp.sf,
     ref |-> IF dp.type = "string" \/ dp.sf # 0 \/ IsSymbolic(dp.type)
             THEN NULL ELSE dp.ref]

\* suns_model_xml_dp_fprintf(): symbols are written without the name of their
\* define block, lengths of strings in whole registers.
XmlOfPoint(dp) ==
    [id |-> dp.name, type |-> dp.type, len |-> dp.len \div 2, units |-> dp.units,
     sf  |-> IF dp.type = "string" THEN 0 ELSE dp.sf,
     ref |-> IF dp.type = "string" \/ dp.sf # 0 \/ IsSymbolic(dp.type)
             THEN NULL ELSE dp.ref]

XmlOfStrings(m, did) ==
    LET labelled == SelectSeq(PointsOf(m), LAMBDA dp : dp.label # NULL)
    IN [id |-> did, locale |-> "en", model |-> TRUE, label |-> Printed(m.name),
        points |-> [k \in DOMAIN labelled |->
                      [id |-> labelled[k].name, label |-> labelled[k].label]]]

\* suns_model_xml_export_all(): a model element and strings for each did.
ExportXml(s) ==
    LET dids  == FlattenSeq([k \in DOMAIN s.model_list |-> DidsOf(s, s.model_list[k])])
        of(d) == s.models[dids[d].model]
    IN [models |-> [d \in DOMAIN dids |->
            [id |-> dids[d].did,
             blocks |-> [b \in DOMAIN of(d).dp_blocks |->
                [repeating |-> of(d).dp_blocks[b].repeating,
                 points |-> [k \in DOMAIN of(d).dp_blocks[b].dps |->
                               XmlOfPoint(of(d).dp_blocks[b].dps[k])]]]]],
        strings |-> [d \in DOMAIN dids |-> XmlOfStrings(of(d), dids[d].did)]]

-----------------------------------------------------------------------------
(* What ezxml makes of the words in an exported file *)

\* Nothing is escaped when it is written.  An entity is decoded, in text and in
\* attributes; a "<" before a blank or a digit is an error in text, where the
\* parser stops and returns the tree it has, cut off before it, and stands for
\* itself in an attribute.  Words with quotes, or that look like a tag or the
\* end of a comment, are not among the words of the model.
Text(word)      == IF word \in DOMAIN Markup THEN Markup[word].text ELSE word
Attribute(word) == IF word \in DOMAIN Markup THEN Markup[word].attribute ELSE word
Stops(word)     == word \in DOMAIN Markup /\ Markup[word].stops

\* The text in a strings element that stops the parser: 1 is the model's label.
StopIn(x) ==
    SelectInSeq(<<x.label>> \o [k \in DOMAIN x.points |-> x.points[k].label], Stops)

ReadStrings(x) ==
    LET kept == IF StopIn(x) = 0 THEN Len(x.points) ELSE StopIn(x) - 1
    IN [x EXCEPT !.label = Text(@),
                 !.points = [k \in 1..kept |->
                    [id |-> Attribute(x.points[k].id), label |-> Text(x.points[k].label)]]]

ReadPoint(p) == [p EXCEPT !.id = Attribute(@), !.units = Attribute(@), !.ref = Attribute(@)]

ReadModel(x) ==
    [x EXCEPT !.blocks = [b \in DOMAIN @ |-> [@[b] EXCEPT !.points =
                            [k \in DOMAIN @ |-> ReadPoint(@[k])]]]]

\* An exported file has each model before its strings; suns_parse_xml_model_file()
\* does not ask whether ezxml came to its end.
ReadBack(xml) ==
    LET cut  == SelectInSeq(xml.strings, LAMBDA x : StopIn(x) # 0)
        kept == IF cut = 0 THEN Len(xml.strings) ELSE cut
    IN [models  |-> [d \in 1..kept |-> ReadModel(xml.models[d])],
        strings |-> [d \in 1..kept |-> ReadStrings(xml.strings[d])]]
=============================================================================

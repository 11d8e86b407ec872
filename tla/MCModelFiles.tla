---------------------------- MODULE MCModelFiles ----------------------------
(***************************************************************************)
(* Model files for model checking ModelFiles: selections of up to four of  *)
(* five slang and three XML files in two directories, and others named on  *)
(* the command line, under several search paths.                           *)
(***************************************************************************)
EXTENDS ModelFiles

Dp(name, type, ref) ==
    [name |-> name, type |-> type, offset |-> -1, len |-> 0, sf |-> 0,
     ref |-> ref, units |-> NULL, label |-> NULL, define |-> NULL]
Name(word)       == [kind |-> "name", name |-> word]
Did(did, word)   == [kind |-> "did", did |-> did, name |-> word]
Define(word)     == [kind |-> "define", name |-> word]
Datapoints(repeating, dps) ==
    [kind |-> "datapoints", repeating |-> repeating, dps |-> dps]
Model(elmts)     == [kind |-> "model", elmts |-> elmts]
Broken(elmts)    == [kind |-> "broken", elmts |-> elmts]
Data             == [kind |-> "data"]
Junk             == [kind |-> "junk"]

\* A point without a given offset has offset 0 in slang.
Slang(dp) == [dp EXCEPT !.offset = 0]

\* Two dids, the second before the name; own defines, a repeating block.
Full == <<Model(<<Name("Full"), Did(1, "one"), Did(2, NULL),
                  Datapoints(FALSE, <<[Slang(Dp("A", "int16", "SF")) EXCEPT
                                          !.units = "W", !.label = "Watts"],
                                      Slang(Dp("SF", "sunssf", NULL)),
                                      Slang(Dp("E", "enum16", "states")),
                                      [Slang(Dp("S", "string", NULL)) EXCEPT !.len = 4]>>),
                  Define("states"),
                  Datapoints(TRUE, <<[Slang(Dp("B", "acc32", NULL)) EXCEPT !.sf = -2],
                                     Slang(Dp("C", "uint16", "SF"))>>)>>)>>

\* A global define, a gap before a point, an odd string, a wrong reference.
Gap == <<Define("shared"), Data,
         Model(<<Did(3, NULL), Name("Gap"), [kind |-> "len", len |-> 4],
                 Datapoints(FALSE, <<Slang(Dp("F", "bitfield32", "shared")),
                                     [Slang(Dp("G", "int16", "None")) EXCEPT !.offset = 4],
                                     [Slang(Dp("S", "string", NULL)) EXCEPT !.len = 3]>>)>>)>>

\* An error in the first model, one token behind it, then a model without any.
Wrong == <<Broken(<<Name("Wrong"), Did(1, NULL)>>), Junk,
           Model(<<Name("Behind"), Did(4, NULL),
                   Datapoints(FALSE, <<Slang(Dp("A", "int16", NULL))>>)>>)>>

Measurements == <<Data>>
Anonymous    == <<Model(<<Datapoints(FALSE, <<Slang(Dp("A", "int16", NULL))>>)>>)>>

\* Words that would have to be escaped in XML.
Marked == <<Model(<<Name("Unit"), Did(7, NULL),
                    Datapoints(FALSE, <<[Slang(Dp("A", "int16", NULL)) EXCEPT
                                            !.units = "< 5", !.label = "Plain"]>>)>>),
            Model(<<Name("Entity"), Did(8, NULL),
                    Datapoints(FALSE, <<[Slang(Dp("A", "int16", NULL)) EXCEPT
                                            !.label = "A &lt; B"]>>)>>),
            Model(<<Name("Cut"), Did(9, NULL),
                    Datapoints(FALSE, <<[Slang(Dp("P", "int16", NULL)) EXCEPT
                                            !.label = "P < 5"],
                                        [Slang(Dp("Q", "int16", NULL)) EXCEPT
                                            !.label = "Behind"]>>)>>)>>

MCMarkup ==
    ("< 5"      :> [text |-> "", attribute |-> "< 5", stops |-> TRUE]) @@
    ("A &lt; B" :> [text |-> "A < B", attribute |-> "A < B", stops |-> FALSE]) @@
    ("P < 5"    :> [text |-> "P ", attribute |-> "P < 5", stops |-> TRUE])

Pt(id, type, ref) == [id |-> id, type |-> type, len |-> 0, sf |-> 0,
                      ref |-> ref, units |-> NULL]
Block(repeating, points) == [repeating |-> repeating, points |-> points]
Label(id, label)  == [id |-> id, label |-> label]
Strings(id, locale, label, points) ==
    [id |-> id, locale |-> locale, model |-> TRUE, label |-> label, points |-> points]

\* Two models whose strings come in another order, with some for others.
Pair == [models |-> <<
            [id |-> 1, blocks |-> <<
                Block(FALSE, <<[Pt("A", "int16", "SF") EXCEPT !.units = "V"],
                               Pt("Pad", "pad", NULL), Pt("SF", "sunssf", NULL),
                               Pt("Pad", "pad", NULL)>>),
                Block(TRUE, <<[Pt("N", "string", NULL) EXCEPT !.len = 2]>>)>>],
            [id |-> NoId, blocks |-> <<>>],
            [id |-> 5, blocks |-> <<Block(FALSE, <<Pt("E", "enum32", NULL)>>)>>]>>,
         strings |-> <<
            Strings(5, "fr", "Cinq", <<Label("E", "Etat")>>),
            Strings(5, "en", "Five", <<Label("E", "State"), Label("Z", "Gone")>>),
            [Strings(6, "en", "Six", <<>>) EXCEPT !.id = 6],
            Strings(1, "en", "One", <<Label("A", "Volts"), Label("N", NULL),
                                      Label("Pad", "Filler")>>)>>]

\* A model of its own, with a type that does not exist and a name that slang
\* cannot express, and strings for a model of another file.
Odd == [models |-> <<
            [id |-> 6, blocks |-> <<
                Block(FALSE, <<Pt("Y1.1", "undefined", NULL),
                               [Pt("W", "int32", NULL) EXCEPT !.sf = 1]>>)>>]>>,
        strings |-> <<
            [Strings(6, "en", "Six", <<>>) EXCEPT !.model = FALSE],
            Strings(1, "en", "Uno", <<Label("A", "Other"), Label("B", "More")>>)>>]

\* Another model 5, and a subscript that is one blank.
Twin == [models |-> <<
            [id |-> 5, blocks |-> <<
                Block(FALSE, <<Pt("E", "enum16", NULL), Pt("X", "int16", " ")>>)>>]>>,
         strings |-> <<Strings(5, "en", "Twin", <<Label("E", "Second")>>)>>]

MCUnlexable == {"Y1.1", " "}

NoXml == [models |-> <<>>, strings |-> <<>>]
SlangFile(suffix, items) == [suffix |-> suffix, readable |-> TRUE, items |-> items,
                             xml |-> NoXml]
XmlFile(suffix, xml)     == [suffix |-> suffix, readable |-> TRUE, items |-> <<>>,
                             xml |-> xml]

MCFiles ==
    ("anonymous" :> SlangFile(".mdl", Anonymous)) @@
    ("data"      :> SlangFile(".mdl", Measurements)) @@
    ("full"      :> SlangFile(".model", Full)) @@
    ("gap"       :> SlangFile(".MODEL", Gap)) @@
    ("ignored"   :> SlangFile(".MDL", Full)) @@
    ("locked"    :> [SlangFile(".model", Full) EXCEPT !.readable = FALSE]) @@
    ("marked"    :> SlangFile(".model", Marked)) @@
    ("odd"       :> XmlFile(".smdx", Odd)) @@
    ("pair"      :> XmlFile(".smdx", Pair)) @@
    ("twin"      :> XmlFile(".XML", Twin)) @@
    ("wrong"     :> SlangFile(".model", Wrong))

\* The files of a directory, in the order of alphasort.
Sorted == <<"anonymous", "data", "full", "gap", "ignored", "locked", "marked",
            "odd", "pair", "twin", "wrong">>
Listing(names) == SelectSeq(Sorted, LAMBDA f : f \in names)

Opt(opt, value) == [opt |-> opt, value |-> value]

\* Modes of the tool: work, check, export.
Modes == {<<>>, <<Opt("c", "")>>, <<Opt("x", "slang")>>, <<Opt("x", "xml")>>}

Run(dirs, along, line) == [dirs |-> dirs, path |-> along, args |-> line]

\* One directory behind another that does not exist, with all selections of files.
SearchRuns ==
    {Run([d \in {"D"} |-> Listing(names)], <<"nowhere", "D">>, mode) :
        names \in {n \in SUBSET (DOMAIN MCFiles \ {"anonymous", "ignored", "marked"}) :
                      Cardinality(n) <= 4}
                  \union {{"ignored"}, {"ignored", "odd"}},
        mode \in Modes}

\* Two directories in both orders.
PathRuns ==
    {Run([d \in {"D1", "D2"} |-> IF d = "D1" THEN Listing(first) ELSE Listing(second)],
         along, mode) :
        first \in {{"pair"}, {"odd", "gap"}, {"full", "twin"}, {"wrong"}},
        second \in {{"full"}, {"twin", "pair"}, {"data", "pair"}, {}},
        along \in {<<"D1", "D2">>, <<"D2", "D1">>},
        mode \in Modes}

\* Files named on the command line, one option that fails, help.
OptionRuns ==
    {Run([d \in {"D"} |-> Listing({"pair", "gap"})], <<"D">>, options \o mode) :
        options \in {<<Opt("m", "full"), Opt("X", "pair")>>,
                     <<Opt("X", "pair"), Opt("M", "D"), Opt("m", "full")>>,
                     <<Opt("X", "full"), Opt("X", "pair"), Opt("m", "full")>>,
                     <<Opt("X", "odd"), Opt("X", "pair"), Opt("X", "nosuch")>>,
                     <<Opt("m", "anonymous"), Opt("m", "full")>>,
                     <<Opt("m", "wrong"), Opt("m", "full"), Opt("m", "gap")>>,
                     <<Opt("bad", ""), Opt("m", "full")>>,
                     <<Opt("m", "full"), Opt("h", "")>>,
                     <<Opt("X", "pair"), Opt("m", "marked"), Opt("m", "full")>>,
                     <<Opt("M", "nowhere")>>},
        mode \in Modes \union {<<Opt("x", "other")>>}}

MCRuns == SearchRuns \union PathRuns \union OptionRuns

MCAfterError == {r \in OptionRuns : r.args[1] = Opt("m", "wrong") /\ Len(r.args) = 3}
=============================================================================

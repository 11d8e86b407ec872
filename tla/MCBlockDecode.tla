--------------------------- MODULE MCBlockDecode ---------------------------
(***************************************************************************)
(* Models for model checking BlockDecode.  They stand for the forms of the *)
(* models in models/smdx, cut down to a few points.                        *)
(***************************************************************************)
EXTENDS BlockDecode

Point(name, type, sf)  == [name |-> name, type |-> type, len |-> 0,
                           offset |-> 0, sf |-> sf]
Text(name, bytes)      == [name |-> name, type |-> "string", len |-> bytes,
                           offset |-> 0, sf |-> ""]
At(dp, given)          == [dp EXCEPT !.offset = given]
Fixed(dps)             == [repeating |-> FALSE, dps |-> dps]
Repeating(dps)         == [repeating |-> TRUE, dps |-> dps]

\* Fixed, with a scale factor behind and before its points, one point without
\* a scale factor in the model and a trailing pad register.
Meter == <<Fixed(<<Point("A", "int16", "A_SF"), Point("A_SF", "sunssf", ""),
                   Point("W", "acc32", "A_SF"), Point("Q", "int16", "Q_SF"),
                   Point("Pad", "pad", "")>>)>>

\* A header with scale factors, then records.
Combiner == <<Fixed(<<Text("Ver", 4), Point("A_SF", "sunssf", ""),
                      Point("Evt", "bitfield32", "")>>),
              Repeating(<<Point("In", "uint16", "A_SF"),
                          Point("InWh", "acc32", "A_SF")>>)>>

\* Records only, with the offsets given.
Sensors == <<Repeating(<<Point("Tmp", "int16", ""),
                         At(Point("Irr", "int32", ""), 1)>>)>>

\* Three blocks, a wide point in the middle, a point of no type.
Composite == <<Fixed(<<Point("Id", "uint16", ""), Point("Nil", "undefined", "")>>),
               Fixed(<<Point("Addr", "ipv4", ""), Point("Big", "int64", "")>>),
               Repeating(<<Point("St", "enum16", "")>>)>>

\* A subscript that names no scale factor.
Mistaken == <<Fixed(<<Point("V", "int16", "N"), Point("N", "uint16", ""),
                      Point("X", "int16", "X_SF"), Point("X_SF", "sunssf", "")>>)>>

\* After models/smdx/smdx_64020.xml.
SwappedOffsets == <<Fixed(<<Point("Aux", "int16", ""),
                            At(Point("ProbeTmp", "int16", ""), 2),
                            At(Point("MainTmp", "int16", ""), 1)>>)>>

\* A string of three bytes.
OddString == <<Fixed(<<Text("Name", 3), Point("N", "uint16", "")>>)>>

\* After models/smdx/smdx_00401.xml.
Unsigned == <<Fixed(<<Point("DCAhr_SF", "sunssf", ""),
                      Point("DCAhr", "uint32", "DCAhr_SF")>>)>>

\* After models/smdx/smdx_00133.xml.
Curves == <<Repeating(<<Point("X_SF", "sunssf", ""), Point("X1", "int16", "X_SF")>>)>>

MCRegular    == {Meter, Combiner, Sensors, Composite, Mistaken, Unsigned, Curves}
MCAll        == MCRegular \union {SwappedOffsets, OddString}
MCUnsigned   == {Unsigned}
=============================================================================

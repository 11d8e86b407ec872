---------------------------- MODULE MCTestServer ----------------------------
(***************************************************************************)
(* Data blocks for model checking TestServer, with a register map of a few *)
(* registers and a parser buffer of eight bytes.                           *)
(***************************************************************************)
EXTENDS TestServer

\* The encodings of the numbers that are used: 0.0, 1.0 and -2.0.
MCFloatBytes(v, n) ==
    CASE v = 0 -> [k \in 1 .. n |-> 0]
      [] v = 1 /\ n = 4  -> <<63, 128, 0, 0>>
      [] v = 1 /\ n = 8  -> <<63, 240, 0, 0, 0, 0, 0, 0>>
      [] v = -2 /\ n = 4 -> <<192, 0, 0, 0>>
      [] v = -2 /\ n = 8 -> <<192, 0, 0, 0, 0, 0, 0, 0>>

Lit(t, f, n) == [type |-> t, len |-> 0, form |-> f, v |-> n, s |-> <<>>]
U(n)      == Lit("bare", "UINT", n)
UT(t, n)  == Lit(t, "UINT", n)
I(t, n)   == Lit(t, "INT", n)
F(t, n)   == Lit(t, "FLOAT", n)
Str(l, s) == [type |-> "string", len |-> l, form |-> "STRING", v |-> 0, s |-> s]

\* A common model, cut to two registers of data.
Common == <<U(1), U(2), UT("uint32", 70000)>>
\* Every supported type in one block; more than the buffer has to start with.
Mixed  == <<U(101), UT("uint16", 17), U(65537), I("int16", -2), I("int64", -3),
            UT("enum16", 4), I("int32", -70000), Str(4, <<97, 98, 99>>),
            F("bare", 1), UT("float32", 1), F("float32", -2)>>
Others == <<U(102), U(12), UT("bitfield32", 65535), UT("uint64", 5),
            I("sunssf", -1), UT("bitfield16", 256), UT("float64", 1)>>
\* Literals that lose something: an odd string, a type without literals (the
\* registers behind it move up), a string larger than the buffer.
Odd    == <<U(103), U(2), Str(3, <<65, 66, 67, 68>>)>>
Acc    == <<U(104), U(3), UT("acc32", 9), U(5)>>
Long   == <<U(105), U(5), Str(10, <<65>>)>>
\* A block as the client prints it.
Captured == Capture(<<106, 3, 65535, 0, 513>>)

MCLiterals ==
    UNION {ToSet(b) : b \in {Common, Mixed, Others, Odd, Acc, Long, Captured}}

MCDataBlockLists ==
    {<<>>, <<Common>>, <<Common, Mixed>>, <<Common, Others>>, <<Common, Odd>>,
     <<Acc>>, <<Long>>, <<Common, Captured>>, <<Captured, Common>>,
     <<Common, Mixed, Common>>, <<Common, Mixed, Captured>>}

MCRequests == {[addr |-> 0, n |-> 2], [addr |-> 2, n |-> 22],
               [addr |-> 20, n |-> 7], [addr |-> 26, n |-> 3]}
=============================================================================

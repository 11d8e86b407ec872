----------------------------- MODULE DataBlocks -----------------------------
(***************************************************************************)
(* Data blocks of a model file: what the parser (suns_lang.y) makes of the *)
(* literals in "data name { ... }", and the literals the client prints for *)
(* the blocks it reads at -vvv.  A data block ends as a buffer_t of bytes  *)
(* in Modbus (big-endian) order; the test server serves them.              *)
(*                                                                         *)
(* A literal is a record                                                   *)
(*   type  the suns_type before the colon, "bare" if there is none;        *)
(*   len   the .N after a string type, otherwise 0;                        *)
(*   form  the token: "INT" (signed), "UINT", "FLOAT" or "STRING";         *)
(*   v     the number;                                                     *)
(*   s     the bytes of the string.                                        *)
(***************************************************************************)
EXTENDS Integers, Sequences, SequencesExt

CONSTANTS
    Literals,          \* the literals of the model files
    BufferSize,        \* BUFFER_SIZE; 128 in the source
    FloatBytes(_, _)   \* the IEEE 754 encoding of a number in n bytes

\* The buffer has room for a value of the widest type.
ASSUME BufferSizeAssumption == BufferSize \in Nat /\ BufferSize >= 8

\* Byte p of a number in two's complement, counted from the least significant
\* one; the numbers here fit 32 bits, above that there is only the sign.
ByteOf(v, p) ==
    IF p > 3 THEN IF v < 0 THEN 255 ELSE 0
    ELSE (v \div 256 ^ p) % 256

\* The n lowest bytes of a number in big-endian order: assigning it to a
\* member of n bytes cuts off the rest.
BigEndian(v, n) == [k \in 1 .. n |-> ByteOf(v, n - k)]

-----------------------------------------------------------------------------
\* suns_value: what a literal becomes

\* The types an integer literal may be given, with their sizes in bytes;
\* acc16, acc32, acc64, enum32, ipaddr, ipv6addr and pad are not among them.
IntegerSize ==
    [int16 |-> 2, uint16 |-> 2, enum16 |-> 2, bitfield16 |-> 2, sunssf |-> 2,
     int32 |-> 4, uint32 |-> 4, bitfield32 |-> 4,
     int64 |-> 8, uint64 |-> 8]
FloatSize == [float32 |-> 4, float64 |-> 8]

Byte == 0 .. 255

IsInteger(l) == l.form \in {"INT", "UINT"}

\* What the tokens of a literal may hold.
IsLiteral(l) ==
    /\ l.len \in Nat
    /\ IsInteger(l) \/ l.form \in {"FLOAT", "STRING"}
    /\ IsInteger(l) => l.v \in Int
    /\ l.form = "STRING" => l.s \in Seq(Byte)
    /\ l.form = "FLOAT" \/ (IsInteger(l) /\ l.type \in DOMAIN FloatSize) =>
          \A n \in {4, 8} : FloatBytes(l.v, n) \in [1 .. n -> Byte]

ASSUME LiteralsAssumption == \A l \in Literals : IsLiteral(l)

Padded(s, n) == [k \in 1 .. n |-> IF k <= Len(s) THEN s[k] ELSE 0]

\* The bytes of the value a literal makes.  A bare integer is a register.  A
\* string is cut to its declared length or padded with zeros, whatever type
\* stands before it.  A type the literal may not have is reported with
\* yyerror(), but the parser goes on with a value of type null and no bytes.
LiteralBytes(l) ==
    CASE l.form = "STRING" -> Padded(l.s, l.len)
      [] l.form = "FLOAT" /\ l.type \in {"bare", "float32"} -> FloatBytes(l.v, 4)
      [] IsInteger(l) /\ l.type = "bare" -> BigEndian(l.v, 2)
      [] IsInteger(l) /\ l.type \in DOMAIN IntegerSize ->
            BigEndian(l.v, IntegerSize[l.type])
      [] IsInteger(l) /\ l.type \in DOMAIN FloatSize ->
            FloatBytes(l.v, FloatSize[l.type])
      [] OTHER -> <<>>

-----------------------------------------------------------------------------
\* register_list: the values go to a buffer that grows

\* A buffer_t nobody has read from yet: its size and the bytes written.
EmptyBuffer == [size |-> BufferSize, bytes |-> <<>>]

\* Slip: the buffer is not grown.
AddLiteral_Fixed(buf, l) ==
    LET bytes == LiteralBytes(l)
    IN  IF buf.size - Len(buf.bytes) < Len(bytes) THEN buf
        ELSE [buf EXCEPT !.bytes = @ \o bytes]

\* A value that does not fit makes room for BUFFER_SIZE more bytes; one that
\* does not fit then either is left out without a word.
AddLiteral(buf, l) ==
    LET bytes == LiteralBytes(l)
        size  == IF buf.size - Len(buf.bytes) < Len(bytes)
                 THEN Len(buf.bytes) + BufferSize
                 ELSE buf.size
    IN  [size  |-> size,
         bytes |-> IF size - Len(buf.bytes) < Len(bytes) THEN buf.bytes
                   ELSE buf.bytes \o bytes]

BlockBytes(literals) ==
    LET buffer[j \in 0 .. Len(literals)] ==
            IF j = 0 THEN EmptyBuffer ELSE AddLiteral(buffer[j - 1], literals[j])
    IN  buffer[Len(literals)].bytes

-----------------------------------------------------------------------------
\* suns_binary_model_fprintf(): a block read from a device, printed as a data
\* block of bare hexadecimal registers.  The client always has whole ones.

Capture(words) ==
    [k \in 1 .. Len(words) |->
        [type |-> "bare", len |-> 0, form |-> "UINT", v |-> words[k], s |-> <<>>]]
=============================================================================

----------------------------- MODULE ValueText ------------------------------
(***************************************************************************)
(* Values of datapoints and how they are written: decimal integers, with a *)
(* scale factor applied, in scientific notation.  A text is a sequence of  *)
(* characters.  Integers have their width; the width of the 16 bit types   *)
(* is a parameter, the others are two and four times as wide.              *)
(***************************************************************************)
EXTENDS SunsTypes, DecimalText

CONSTANTS
    Bits,       \* bits of a 16 bit type
    MaxDigits   \* digits after which scientific notation is used

ASSUME BitsAssumption == Bits \in Nat \ {0}

-----------------------------------------------------------------------------
(* Integers of a width *)

TwoTo[n \in Nat] == IF n = 0 THEN 1 ELSE 2 * TwoTo[n - 1]
Width(type)      == (TypeSize(type) \div 2) * Bits
LongWidth        == 4 * Bits
Signed(u, w)     == IF u >= TwoTo[w - 1] THEN u - TwoTo[w] ELSE u

\* The types of signed members of suns_value_t.
SignedTypes == {"int16", "sunssf", "int32", "int64"}

\* suns_check_not_implemented(): the bits that mean no value.  Accumulators
\* have none.
NotImplemented(type, u) ==
    \/ type \in SignedTypes /\ u = TwoTo[Width(type) - 1]
    \/ /\ type \in {"uint16", "enum16", "bitfield16", "uint32", "enum32",
                    "bitfield32", "uint64"}
       /\ u = TwoTo[Width(type)] - 1
    \/ type = "ipv4" /\ u = 0

\* The number a type stands for.
NumberOf(type, u) ==
    IF type \in SignedTypes THEN Signed(u, Width(type)) ELSE u

-----------------------------------------------------------------------------
(* Writing *)

Zeros(n) == [k \in 1..n |-> "0"]

\* _suns_snprintf_int_sf_e(): the first character, a point, the others, and
\* the exponent.  Nothing ends the text when the exponent is 0: what was in
\* the buffer behind it stays.
Scientific(base, e, stale) ==
    LET exponent == e + Len(base) - 1
    IN <<base[1], ".">> \o Tail(base) \o
       IF exponent = 0 THEN stale ELSE <<"e">> \o IntText(exponent)

\* The fraction of _suns_snprintf_int_sf(), of the digits without sign.
PointMoved(digits, places) ==
    IF places < Len(digits)
    THEN SubSeq(digits, 1, Len(digits) - places) \o <<".">>
         \o SubSeq(digits, Len(digits) - places + 1, Len(digits))
    ELSE <<"0", ".">> \o Zeros(places - Len(digits)) \o digits

\* Slip: the sign counted as a digit (no numlen1--).
ScaledText_Signed(n, e, stale) ==
    LET base == IntText(n)
        abs  == IF e < 0 THEN -e ELSE e
    IN IF n = 0 THEN <<"0">> ELSE
       IF e = 0 THEN base ELSE
       IF Len(base) > MaxDigits \/ Len(base) + abs > MaxDigits + 2
       THEN Scientific(base, e, stale) ELSE
       IF e < 0 THEN IF n < 0 THEN <<"-">> \o PointMoved(Tail(base), -e - 1)
                     ELSE PointMoved(base, -e)
       ELSE base \o Zeros(e)

\* suns_snprintf_int_sf(), suns_snprintf_uint_sf(), _suns_snprintf_int_sf()
ScaledText(n, e, stale) ==
    LET base == IntText(n)
        abs  == IF e < 0 THEN -e ELSE e
    IN IF n = 0 THEN <<"0">> ELSE
       IF e = 0 THEN base ELSE
       IF Len(base) > MaxDigits \/ Len(base) + abs > MaxDigits + 2
       THEN Scientific(base, e, stale) ELSE
       IF e < 0 THEN IF n < 0 THEN <<"-">> \o PointMoved(Tail(base), -e)
                     ELSE PointMoved(base, -e)
       ELSE base \o Zeros(e)

\* value_output_ipv4()
DottedText(u) ==
    LET part(k) == NatText[(u \div TwoTo[(k * Bits) \div 2]) % TwoTo[Bits \div 2]]
    IN part(3) \o <<".">> \o part(2) \o <<".">> \o part(1) \o <<".">> \o part(0)

\* suns_snprintf_value() with the functions of suns_snprintf_value_xml():
\* acc32 has that of int32, and uint64 is always handed to that of int64.
XmlText(type, u) ==
    CASE type = "pad"  -> <<>>
      [] type = "ipv4" -> DottedText(u)
      [] type \in SignedTypes \union {"acc32", "uint64"} ->
            IntText(Signed(u, Width(type)))
      [] OTHER -> NatText[u]

\* suns_snprintf_value() with the functions of suns_snprintf_value_sf_text().
\* Bit fields are in hexadecimal, whose digits are not told apart here.
SfText(type, u, e, stale) ==
    CASE type \in {"int16", "int32", "int64", "uint64"} ->
            ScaledText(Signed(u, Width(type)), e, stale)
      [] type \in {"uint16", "acc16", "uint32", "acc32", "acc64"} ->
            ScaledText(u, e, stale)
      [] type \in {"bitfield16", "bitfield32"} -> <<"0", "x">> \o NatText[u]
      [] type = "ipv4" -> DottedText(u)
      [] OTHER -> NatText[u]

-----------------------------------------------------------------------------
(* Reading *)

DigitsAt(text, from) ==
    LET stop == SelectInSubSeq(text, from, Len(text), LAMBDA c : ~IsDigit(c))
    IN SubSeq(text, from, IF stop = 0 THEN Len(text) ELSE stop - 1)

\* What "%d" finds at the start of a text: a sign and digits.
HasSign(text) == text # <<>> /\ text[1] \in {"-", "+"}
ScannedDigits(text) == DigitsAt(text, IF HasSign(text) THEN 2 ELSE 1)
Scans(text) == ScannedDigits(text) # <<>>
ScanInt(text) ==
    LET n == NatOf(ScannedDigits(text))
    IN IF HasSign(text) /\ text[1] = "-" THEN -n ELSE n

\* "%hd", "%d", "%ld": strtol() stops at the ends of long, the rest is cut off.
ScanSigned(text, w) ==
    LET top == TwoTo[LongWidth - 1]
        n   == ScanInt(text)
    IN (IF n < -top THEN -top ELSE IF n >= top THEN top - 1 ELSE n) % TwoTo[w]

\* Slip: a negative number refused, and the value left as it was.
ScanUnsigned_NoSign(text, w) ==
    LET n == ScanInt(text)
    IN (IF n >= TwoTo[LongWidth] THEN TwoTo[LongWidth] - 1 ELSE IF n < 0 THEN 0 ELSE n) % TwoTo[w]

\* "%hu", "%u", "%lu": strtoul() takes a sign, too.
ScanUnsigned(text, w) ==
    LET n == ScanInt(text)
    IN (IF n >= TwoTo[LongWidth] \/ -n >= TwoTo[LongWidth] THEN TwoTo[LongWidth] - 1 ELSE n) % TwoTo[w]

-----------------------------------------------------------------------------
(* What a text means: sign digits [. digits [e sign digits]] *)

Position(text, c) == SelectInSeq(text, LAMBDA d : d = c)
Before(text, c) ==
    IF Position(text, c) = 0 THEN text ELSE SubSeq(text, 1, Position(text, c) - 1)
After(text, c) ==
    IF Position(text, c) = 0 THEN <<>> ELSE SubSeq(text, Position(text, c) + 1, Len(text))
Unsigned(text) == IF HasSign(text) THEN Tail(text) ELSE text

AllDigits(text) == \A k \in DOMAIN text : IsDigit(text[k])
Numeral(text)   == text # <<>> /\ AllDigits(text)

Mantissa(text) == Before(text, "e")
WellFormed(text) ==
    /\ Numeral(Unsigned(Before(Mantissa(text), ".")))
    /\ Position(text, ".") # 0 => Numeral(After(Mantissa(text), "."))
    /\ Position(text, "e") # 0 => /\ Position(Mantissa(text), ".") # 0
                                  /\ Numeral(Unsigned(After(text, "e")))

\* A decimal number as digits and a power of ten, without zeros at the end.
Stripped[n \in Int] == IF n # 0 /\ n % 10 = 0 THEN Stripped[n \div 10] ELSE n
TrailingZeros[n \in Int] == IF n # 0 /\ n % 10 = 0 THEN 1 + TrailingZeros[n \div 10] ELSE 0
Decimal(n, e) == IF n = 0 THEN <<0, 0>> ELSE <<Stripped[n], e + TrailingZeros[n]>>

Denoted(text) ==
    LET fraction == After(Mantissa(text), ".")
        n == NatOf(Unsigned(Before(Mantissa(text), ".")) \o fraction)
    IN Decimal(IF text # <<>> /\ text[1] = "-" THEN -n ELSE n,
               (IF Position(text, "e") = 0 THEN 0 ELSE ScanInt(After(text, "e")))
               - Len(fraction))
=============================================================================

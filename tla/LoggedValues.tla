---------------------------- MODULE LoggedValues ----------------------------
(***************************************************************************)
(* One value on its way: out of the registers of a device into the         *)
(* client's text, or into a p element of its log, and from a p element,    *)
(* the client's or another logger's, into a value of the logger host.      *)
(* Floating point numbers, strings and IPv6 addresses are left out.        *)
(***************************************************************************)
EXTENDS ValueText

CONSTANTS
    Scales,     \* scale factors, with 0
    Attributes, \* sf attributes of other loggers' p elements
    Texts,      \* what other loggers write between <p> and </p>
    Stale       \* what may be in the client's text buffer

ASSUME ScalesAssumption == Scales \subseteq Int

ValueTypes ==
    Types \ {"float32", "float64", "ipv6", "string", "undefined"}

VARIABLES
    pc,         \* where the value is
    tp,         \* the point of the model: its type and its own scale factor
    value,      \* the client's value: bits, scale factor, whether implemented
    buffer,     \* the client's text buffer
    p,          \* the p element: text and sf attribute, of which there is one or none
    parser,     \* string_decompose_decimal()
    stored      \* the host's value

vars == <<pc, tp, value, buffer, p, parser, stored>>

NoValue == [bits |-> 0, sf |-> 0, ok |-> FALSE]
Parser0 == [state |-> "START", at |-> 1, tmp |-> <<>>, places |-> 0,
            base |-> <<>>, e |-> 0]

Init ==
    /\ pc = "start"
    /\ tp \in [type : ValueTypes, sf : Scales]
    /\ value = NoValue
    /\ buffer = <<>>
    /\ p = [text |-> <<>>, sf |-> {}]
    /\ parser = Parser0
    /\ stored = NoValue

-----------------------------------------------------------------------------
(* The client *)

\* suns_buf_to_value(), then the scale factor of the device, if the model
\* names one.  The registers of a pad are skipped.
BufToValue ==
    /\ pc = "start"
    /\ \E u \in 0 .. TwoTo[Width(tp.type)] - 1, sf \in Scales :
         /\ tp.sf # 0 => sf = tp.sf
         /\ value' = [bits |-> IF tp.type = "pad" THEN 0 ELSE u, sf |-> sf,
                      ok |-> ~NotImplemented(tp.type, u)]
    /\ pc' = "value"
    /\ UNCHANGED <<tp, buffer, p, parser, stored>>

\* suns_dataset_text_fprintf()
TextOutput ==
    /\ pc = "value"
    /\ value.ok
    /\ tp.type \notin {"sunssf", "pad"}
    /\ \E stale \in Stale : buffer' = SfText(tp.type, value.bits, value.sf, stale)
    /\ pc' = "printed"
    /\ UNCHANGED <<tp, value, p, parser, stored>>

\* suns_dataset_xml_fprintf()
XmlOutput ==
    /\ pc = "value"
    /\ value.ok
    /\ tp.type # "sunssf"
    /\ p' = [text |-> XmlText(tp.type, value.bits),
             sf   |-> IF value.sf = 0 THEN {} ELSE {value.sf}]
    /\ pc' = "parsing"
    /\ UNCHANGED <<tp, value, buffer, parser, stored>>

\* Neither output shows it.
NotShown ==
    /\ pc = "value"
    /\ ~value.ok \/ tp.type \in {"sunssf", "pad"}
    /\ pc' = "not shown"
    /\ UNCHANGED <<tp, value, buffer, p, parser, stored>>

\* A p element of another logger.
Upload ==
    /\ pc = "start"
    /\ \E text \in Texts, sf \in Attributes :
         p' = [text |-> text, sf |-> sf]
    /\ pc' = "parsing"
    /\ UNCHANGED <<tp, value, buffer, parser, stored>>

-----------------------------------------------------------------------------
(* The host: suns_host_parse_datapoint(), suns_string_to_value() *)

Refuse ==
    /\ pc' = "refused"
    /\ UNCHANGED <<tp, value, buffer, p, parser, stored>>

Parse(next) ==
    /\ parser' = next
    /\ UNCHANGED <<pc, tp, value, buffer, p, stored>>

AtEnd == parser.at > Len(p.text)
Char == p.text[parser.at]
Reads(c) == pc = "parsing" /\ ~AtEnd /\ Char = c
Copied == [parser EXCEPT !.tmp = Append(@, Char), !.at = @ + 1]

\* Anywhere but at the start of a number nothing moves on: the loop does not
\* end.
Sign ==
    /\ Reads("-") \/ Reads("+")
    /\ CASE parser.state = "START" -> Parse([Copied EXCEPT !.state = "BASE"])
         [] parser.state = "EXP"   -> Parse(Copied)
         [] OTHER                  -> UNCHANGED vars

\* Slip: the digits of the exponent counted, too.
Digit_PlacesOfAll ==
    /\ pc = "parsing" /\ ~AtEnd /\ IsDigit(Char)
    /\ Parse([Copied EXCEPT !.state = IF @ = "START" THEN "BASE" ELSE @,
                            !.places = IF parser.state \in {"FRACTION", "EXP"} THEN @ + 1 ELSE @])

Digit ==
    /\ pc = "parsing" /\ ~AtEnd /\ IsDigit(Char)
    /\ Parse([Copied EXCEPT !.state = IF @ = "START" THEN "BASE" ELSE @,
                            !.places = IF parser.state = "FRACTION" THEN @ + 1 ELSE @])

Point ==
    /\ Reads(".")
    /\ IF parser.state \in {"START", "BASE"}
       THEN Parse([parser EXCEPT !.state = "FRACTION", !.at = @ + 1])
       ELSE Refuse

Exponent ==
    /\ Reads("e")
    /\ IF parser.state = "FRACTION"
       THEN Parse([parser EXCEPT !.base = parser.tmp, !.tmp = <<>>,
                                 !.at = @ + 1, !.state = "EXP"])
       ELSE Refuse

OtherChar ==
    /\ pc = "parsing" /\ ~AtEnd
    /\ ~IsDigit(Char) /\ Char \notin {"-", "+", ".", "e"}
    /\ Refuse

EndOfText ==
    /\ pc = "parsing" /\ AtEnd /\ parser.state # "END"
    /\ CASE parser.state \in {"BASE", "FRACTION"} ->
              Parse([parser EXCEPT !.base = parser.tmp, !.e = -parser.places,
                                   !.state = "END"])
         [] parser.state = "EXP" /\ Scans(parser.tmp) ->
              Parse([parser EXCEPT !.e = ScanInt(parser.tmp) - parser.places,
                                   !.state = "END"])
         [] OTHER -> Refuse

\* The conversions of suns_string_to_value(): of the text, not of the base,
\* and a text that is no number leaves the value as it was.  The address
\* needs three points, and one is all there can be.
Converted(type, text) ==
    IF ~Scans(text) \/ type = "ipv4" THEN 0
    ELSE IF type \in SignedTypes THEN ScanSigned(text, Width(type))
    ELSE ScanUnsigned(text, Width(type))

\* The exponent goes into the value's type, and this is then set to that of
\* the point.
Convert ==
    /\ pc = "parsing" /\ parser.state = "END"
    /\ IF tp.type \in {"pad", "acc64"} THEN Refuse
       ELSE /\ \E bits \in {Converted(tp.type, p.text)} :
                 stored' = [bits |-> bits,
                            sf   |-> IF p.sf = {} THEN tp.sf ELSE CHOOSE e \in p.sf : TRUE,
                            ok   |-> ~NotImplemented(tp.type, bits)]
            /\ pc' = "accepted"
            /\ UNCHANGED <<tp, value, buffer, p, parser>>

Finished ==
    /\ pc \in {"printed", "not shown", "accepted", "refused"}
    /\ UNCHANGED vars

ParseStep ==
    Sign \/ Digit \/ Point \/ Exponent \/ OtherChar \/ EndOfText \/ Convert

Next ==
    \/ BufToValue \/ TextOutput \/ XmlOutput \/ NotShown
    \/ Upload \/ Sign \/ Digit \/ Point \/ Exponent \/ OtherChar \/ EndOfText
    \/ Convert \/ Finished

Spec == Init /\ [][Next]_vars
FairSpec == Spec /\ WF_vars(ParseStep)

-----------------------------------------------------------------------------
(* Properties *)

\* A value whose text is a decimal number: not the hexadecimal of a bit field,
\* the dots of an address, nor the sign that an unsigned 64 bit number gets
\* from its top bit (suns_output.c:485-550, and the comment at 1487).
PrintedAsNumber ==
    /\ pc = "printed" /\ tp.type \notin {"bitfield16", "bitfield32", "ipv4"}
    /\ tp.type = "uint64" => value.bits < TwoTo[Width(tp.type) - 1]

\* Enumerations are printed without their scale factor.
PrintedScale == IF tp.type \in {"enum16", "enum32"} THEN 0 ELSE value.sf
PrintedNumber == NumberOf(tp.type, value.bits)

\* Scientific notation whose exponent comes out as 0: one character before the
\* point, as many digits behind it as the scale factor takes off.  Nothing ends
\* this text (suns_output.c:1468), and what the buffer held before reads as more
\* digits of it.
Unended(n, e) ==
    LET length == Len(IntText(n))
    IN /\ n # 0 /\ e < 0 /\ length + e = 1
       /\ length > MaxDigits \/ length - e > MaxDigits + 2

\* The text of a number is that number with the scale factor applied, to the
\* last digit, in whatever form (suns_snprintf_value_sf_text()), "with no loss of
\* precision" (suns_output.c:1487).  Excepted is the one form where the code
\* fails: see Unended.
PrintedExactly ==
    PrintedAsNumber =>
        \/ Denoted(buffer) = Decimal(PrintedNumber, PrintedScale)
        \/ Unended(PrintedNumber, PrintedScale)

\* What the host stores of a value the client has logged has the bits, the
\* scale factor and the state it had on the device; pads, addresses and 64
\* bit accumulators are the only ones refused.  suns_dataset_xml_fprintf()
\* and suns_host_parse_datapoint()
LogKeepsValue ==
    value.ok =>
        /\ pc = "accepted" /\ tp.type # "ipv4" => stored = value
        /\ pc = "refused" => tp.type \in {"pad", "ipv4", "acc64"}

\* A decimal number is taken apart, whatever comes behind its point, into a
\* base and an exponent that denote it; the loop over its characters ends.
\* string_decompose_decimal()
Decomposed ==
    /\ parser.state = "END"
    /\ Decimal(ScanInt(parser.base), parser.e) = Denoted(p.text)
DecomposesNumbers == pc = "parsing" /\ WellFormed(p.text) ~> Decomposed
=============================================================================

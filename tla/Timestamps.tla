----------------------------- MODULE Timestamps -----------------------------
(***************************************************************************)
(* Timestamps: written by the client into its log, and read by the logger  *)
(* host, character by character, from the t attribute of a device or of a  *)
(* datapoint.  The calendar of the C library is simplified to months of 31 *)
(* days.                                                                   *)
(***************************************************************************)
EXTENDS DecimalText

CONSTANTS
    Times,      \* seconds since 1970, when the client reads a device
    HostZones,  \* seconds by which the host's time is ahead of GMT
    Texts       \* timestamps of other loggers

ASSUME TimesAssumption == Times \subseteq Nat /\ HostZones \subseteq Int
ASSUME TextsAssumption == \A t \in Texts : IsText(t)

FieldLength ==
    [YEAR |-> 4, MON |-> 2, MDAY |-> 2, HOUR |-> 2, MIN |-> 2, SEC |-> 2]

\* A fraction of up to six digits in microseconds.
Microseconds(digits) == NatOf(digits) * 10^(6 - Len(digits))

\* struct tm and time_t
Minutes(tm) ==
    (((tm.YEAR - 1970) * 12 + tm.MON - 1) * 31 + tm.MDAY - 1) * 1440
    + tm.HOUR * 60 + tm.MIN
TimeOf(tm) == Minutes(tm) * 60 + tm.SEC
Gmtime(time) ==
    LET days == time \div 86400
    IN [YEAR |-> 1970 + days \div 372,
        MON  |-> ((days \div 31) % 12) + 1,
        MDAY |-> (days % 31) + 1,
        HOUR |-> (time \div 3600) % 24,
        MIN  |-> (time \div 60) % 60,
        SEC  |-> time % 60]

\* memset() of the struct tm
Zeroed ==
    [YEAR |-> 1900, MON |-> 1, MDAY |-> 0, HOUR |-> 0, MIN |-> 0, SEC |-> 0,
     SUBSEC |-> 0, ZONE_HOUR |-> 0, ZONE_MIN |-> 0]

\* date_snprintf_rfc3339_z(): microseconds go behind everything else.
Pad2(n) == IF n < 10 THEN <<"0">> \o NatText[n] ELSE NatText[n]
Written(time, usec) ==
    LET tm == Gmtime(time)
    IN NatText[tm.YEAR] \o <<"-">> \o Pad2(tm.MON) \o <<"-">> \o Pad2(tm.MDAY)
       \o <<"T">> \o Pad2(tm.HOUR) \o <<":">> \o Pad2(tm.MIN) \o <<":">> \o Pad2(tm.SEC)
       \o <<"Z">> \o (IF usec # 0 THEN <<".">> \o NatText[usec] ELSE <<>>)

VARIABLES
    pc,         \* where the timestamp is
    zone,       \* the host's zone
    target,     \* whose timestamp it is
    written,    \* the client's time, or none
    text,       \* the timestamp
    at, state, tmp, tm, sign,  \* date_parse_rfc3339_tm()
    unixtime, usec             \* the time the host has

vars == <<pc, zone, target, written, text, at, state, tmp, tm, sign, unixtime, usec>>
parserVars == <<at, state, tmp, tm, sign>>

Init ==
    /\ pc = "start"
    /\ zone \in HostZones
    /\ target \in {"device", "datapoint"}
    /\ written = {}
    /\ text = <<>>
    /\ at = 1
    /\ state = "YEAR"
    /\ tmp = <<>>
    /\ tm = Zeroed
    /\ sign = 1
    /\ unixtime = 0
    /\ usec = 0

-----------------------------------------------------------------------------
(* Where timestamps come from *)

\* suns_device_xml_fprintf(): the time of the reading, without a fraction.
XmlOutput ==
    /\ pc = "start"
    /\ target = "device"
    /\ \E time \in Times : written' = {time} /\ text' = Written(time, 0)
    /\ pc' = "parsing"
    /\ UNCHANGED <<zone, target, parserVars, unixtime, usec>>

Upload ==
    /\ pc = "start"
    /\ text' \in Texts
    /\ pc' = "parsing"
    /\ UNCHANGED <<zone, target, written, parserVars, unixtime, usec>>

-----------------------------------------------------------------------------
(* date_parse_rfc3339_tm() *)

Refuse ==
    /\ pc' = "refused"
    /\ UNCHANGED <<zone, target, written, text, parserVars, unixtime, usec>>

AtEnd == at > Len(text)
Char == text[at]
Reads(c) == pc = "parsing" /\ state # "END" /\ ~AtEnd /\ Char = c

\* The field that has just ended, then the next.  Only a fraction may do
\* without digits: the text it is converted from starts with "0.".
Field(next, newSign) ==
    IF tmp = <<>> /\ state # "SUBSEC" THEN Refuse
    ELSE /\ IF state = "SUBSEC"
            THEN usec' = Microseconds(tmp) /\ UNCHANGED tm
            ELSE tm' = [tm EXCEPT ![state] = NatOf(tmp)] /\ UNCHANGED usec
         /\ state' = next
         /\ sign' = newSign
         /\ tmp' = <<>>
         /\ at' = at + 1
         /\ UNCHANGED <<pc, zone, target, written, text, unixtime>>

\* Slip: the sign left as it was set by a timestamp before.
Minus_NoSign ==
    /\ Reads("-")
    /\ CASE state = "YEAR" -> Field("MON", sign)
         [] state = "MON"  -> Field("MDAY", sign)
         [] state = "SEC"  -> Field("ZONE_HOUR", sign)
         [] OTHER          -> Refuse

Minus ==
    /\ Reads("-")
    /\ CASE state = "YEAR" -> Field("MON", sign)
         [] state = "MON"  -> Field("MDAY", sign)
         [] state = "SEC"  -> Field("ZONE_HOUR", -1)
         [] OTHER          -> Refuse

LetterT ==
    /\ Reads("T")
    /\ IF state = "MDAY" THEN Field("HOUR", sign) ELSE Refuse

Colon ==
    /\ Reads(":")
    /\ CASE state = "HOUR"      -> Field("MIN", sign)
         [] state = "MIN"       -> Field("SEC", sign)
         [] state = "ZONE_HOUR" -> Field("ZONE_MIN", sign)
         [] OTHER               -> Refuse

Plus ==
    /\ Reads("+")
    /\ IF state \in {"SEC", "SUBSEC"} THEN Field("ZONE_HOUR", 1) ELSE Refuse

Dot ==
    /\ Reads(".")
    /\ IF state = "SEC" THEN Field("SUBSEC", sign) ELSE Refuse

\* Whatever is behind it is not read.
LetterZ ==
    /\ Reads("Z")
    /\ IF state \in {"SEC", "SUBSEC"} THEN Field("END", sign) ELSE Refuse

EndOfText ==
    /\ pc = "parsing" /\ state # "END" /\ AtEnd
    /\ IF state \in {"ZONE_MIN", "ZONE_HOUR", "MDAY", "SEC"}
       THEN Field("END", sign)
       ELSE Refuse

\* Slip: no digit more than the field has, counted before it is there.
Digit_FieldFull ==
    /\ pc = "parsing" /\ state # "END" /\ ~AtEnd /\ IsDigit(Char)
    /\ IF state \in DOMAIN FieldLength /\ Len(tmp) + 1 >= FieldLength[state]
       THEN Refuse
       ELSE /\ tmp' = Append(tmp, Char)
            /\ at' = at + 1
            /\ UNCHANGED <<pc, zone, target, written, text, state, tm, sign, unixtime, usec>>

\* One digit more than the field has is let through.
Digit ==
    /\ pc = "parsing" /\ state # "END" /\ ~AtEnd /\ IsDigit(Char)
    /\ IF state \in DOMAIN FieldLength /\ Len(tmp) > FieldLength[state]
       THEN Refuse
       ELSE /\ tmp' = Append(tmp, Char)
            /\ at' = at + 1
            /\ UNCHANGED <<pc, zone, target, written, text, state, tm, sign, unixtime, usec>>

OtherChar ==
    /\ pc = "parsing" /\ state # "END" /\ ~AtEnd
    /\ ~IsDigit(Char) /\ Char \notin {"-", "T", ":", "+", ".", "Z"}
    /\ Refuse

-----------------------------------------------------------------------------
(* What the time is used for *)

\* date_parse_rfc3339_to_unixtime_z(): mktime() takes the fields for local
\* time.
DeviceTime ==
    /\ pc = "parsing" /\ state = "END"
    /\ target = "device"
    /\ unixtime' = TimeOf(tm) - zone - sign * (tm.ZONE_HOUR * 3600 + tm.ZONE_MIN * 60)
    /\ pc' = "accepted"
    /\ UNCHANGED <<zone, target, written, text, parserVars, usec>>

\* suns_host_parse_datapoint(): only the fraction is kept.
DatapointTime ==
    /\ pc = "parsing" /\ state = "END"
    /\ target = "datapoint"
    /\ pc' = "accepted"
    /\ UNCHANGED <<zone, target, written, text, parserVars, unixtime, usec>>

Finished ==
    /\ pc \in {"accepted", "refused"}
    /\ UNCHANGED vars

ParseStep ==
    \/ Digit \/ Minus \/ LetterT \/ Colon \/ Plus \/ Dot \/ LetterZ
    \/ OtherChar \/ EndOfText \/ DeviceTime \/ DatapointTime

Next ==
    \/ XmlOutput \/ Upload
    \/ Digit \/ Minus \/ LetterT \/ Colon \/ Plus \/ Dot \/ LetterZ
    \/ OtherChar \/ EndOfText \/ DeviceTime \/ DatapointTime \/ Finished

Spec == Init /\ [][Next]_vars
FairSpec == Spec /\ WF_vars(ParseStep)

-----------------------------------------------------------------------------
(* Properties *)

\* RFC 3339, section 5.6: the places of the fields, then a fraction, then the
\* zone.
FractionDigits(t) ==
    IF Len(t) > 19 /\ t[20] = "."
    THEN LET rest == SubSeq(t, 21, Len(t))
             stop == SelectInSeq(rest, LAMBDA c : ~IsDigit(c))
         IN SubSeq(rest, 1, IF stop = 0 THEN Len(rest) ELSE stop - 1)
    ELSE <<>>
ZoneOf(t) ==
    SubSeq(t, 20 + IF FractionDigits(t) = <<>> THEN 0 ELSE 1 + Len(FractionDigits(t)), Len(t))
AllDigits(t, places) == \A k \in places : IsDigit(t[k])
IsNumericZone(z) ==
    /\ Len(z) = 6
    /\ z[1] \in {"+", "-"} /\ z[4] = ":" /\ AllDigits(z, {2, 3, 5, 6})
IsRfc3339(t) ==
    /\ Len(t) >= 20
    /\ AllDigits(t, {1, 2, 3, 4, 6, 7, 9, 10, 12, 13, 15, 16, 18, 19})
    /\ t[5] = "-" /\ t[8] = "-" /\ t[11] = "T" /\ t[14] = ":" /\ t[17] = ":"
    /\ ZoneOf(t) = <<"Z">> \/ IsNumericZone(ZoneOf(t))

Denoted(t) ==
    LET number(from, to) == NatOf(SubSeq(t, from, to))
        z == ZoneOf(t)
        offset == IF z = <<"Z">> THEN 0
                  ELSE (NatOf(SubSeq(z, 2, 3)) * 60 + NatOf(SubSeq(z, 5, 6))) * 60
    IN TimeOf([YEAR |-> number(1, 4), MON |-> number(6, 7), MDAY |-> number(9, 10),
               HOUR |-> number(12, 13), MIN |-> number(15, 16), SEC |-> number(18, 19)])
       - (IF z[1] = "-" THEN -offset ELSE offset)

\* The instant of an accepted timestamp is the one it denotes, for the
\* client's own the one of its reading, less what the host's time is ahead of
\* GMT; and its fraction is in the microseconds.
\* date_parse_rfc3339_to_unixtime_z()
InstantKept ==
    pc = "accepted" /\ IsRfc3339(text) =>
        /\ target = "device" => unixtime + zone = Denoted(text)
        /\ \A time \in written : Denoted(text) = time
        /\ usec = Microseconds(FractionDigits(text))

\* Every timestamp of RFC 3339 is accepted, but for a fraction before a zone
\* west of GMT.  date_parse_rfc3339_tm()
Rfc3339Accepted ==
    pc = "parsing" /\ IsRfc3339(text)
    /\ ~(FractionDigits(text) # <<>> /\ ZoneOf(text)[1] = "-")
        ~> pc = "accepted"

\* "Parse the provided rfc3339 formatted string into GMT unixtime",
\* date.c:436
GmtInstant ==
    pc = "accepted" /\ target = "device" /\ IsRfc3339(text) => unixtime = Denoted(text)
=============================================================================

----------------------------- MODULE DecimalText -----------------------------
(***************************************************************************)
(* Decimal numbers as sequences of characters.                             *)
(***************************************************************************)
EXTENDS Integers, SequencesExt

IsText(t) == t \in Seq({t[k] : k \in DOMAIN t})

Digits == <<"0", "1", "2", "3", "4", "5", "6", "7", "8", "9">>
IsDigit(c) == \E d \in DOMAIN Digits : Digits[d] = c
DigitValue(c) == CHOOSE v \in 0 .. 9 : Digits[v + 1] = c

\* "%u", "%d"
NatText[n \in Nat] ==
    IF n < 10 THEN <<Digits[n + 1]>> ELSE Append(NatText[n \div 10], Digits[(n % 10) + 1])
IntText(n) == IF n < 0 THEN <<"-">> \o NatText[-n] ELSE NatText[n]

NatOf(digits) ==
    LET value[k \in 0 .. Len(digits)] ==
            IF k = 0 THEN 0 ELSE 10 * value[k - 1] + DigitValue(digits[k])
    IN value[Len(digits)]
=============================================================================

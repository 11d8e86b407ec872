--------------------------- MODULE MCLoggedValues ---------------------------
(***************************************************************************)
(* For model checking LoggedValues: every value of types of 2, 4 and 8     *)
(* bits; every text of up to MaxLength characters, longer numbers with a   *)
(* point and an exponent, and texts that are none.                         *)
(***************************************************************************)
EXTENDS LoggedValues

CONSTANTS MaxLength, Chars

MCScales     == {-3, -2, -1, 0, 2}
MCAttributes == {{}, {2}}
MCStale      == {<<>>, <<"7">>}

Numbers ==
    {sign \o int \o <<".">> \o fraction \o exponent :
        sign     \in {<<"-">>, <<"+">>},
        int      \in {<<"1">>, <<"2", "0">>},
        fraction \in {<<"5">>, <<"0", "1">>},
        exponent \in {<<>>, <<"e", "2">>, <<"e", "-", "1">>, <<"e", "+", "1", "0">>,
                      <<"e">>, <<"e", "-", "-", "1">>, <<"e", ".">>}}

MCTexts ==
    Numbers \union {<<"x">>, <<"1", "x">>}
    \union UNION {[1 .. n -> Chars] : n \in 0 .. MaxLength}
=============================================================================

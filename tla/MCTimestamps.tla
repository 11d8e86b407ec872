---------------------------- MODULE MCTimestamps ----------------------------
(***************************************************************************)
(* For model checking Timestamps: a leap year's ends for the client, and   *)
(* for other loggers every combination of the dates, times, fractions and  *)
(* zones below, and cut-off, overlong and wrong forms of one of them.      *)
(***************************************************************************)
EXTENDS Timestamps

N(n) == NatText[n]
Date(y, m, d) == N(y) \o <<"-">> \o Pad2(m) \o <<"-">> \o Pad2(d)
Time(h, m, s) == Pad2(h) \o <<":">> \o Pad2(m) \o <<":">> \o Pad2(s)

Dates == {Date(1970, 1, 1), Date(1985, 4, 12), Date(2013, 12, 31)}
Clock == {Time(0, 0, 0), Time(23, 20, 50), Time(23, 59, 60)}
Fractions ==
    {<<>>, <<".">>, <<".", "5">>, <<".", "5", "2">>, <<".">> \o N(100009),
     <<".", "0", "1">>}
Zones ==
    {<<"Z">>} \union {s \o Pad2(h) \o <<":">> \o Pad2(m) :
                        s \in {<<"+">>, <<"-">>}, h \in {0, 8}, m \in {0, 20}}

Full == Date(1985, 4, 12) \o <<"T">> \o Time(23, 20, 50) \o <<"-">> \o Time(8, 30, 0)

MCTexts ==
    {d \o <<"T">> \o c \o f \o z : d \in Dates, c \in Clock, f \in Fractions, z \in Zones}
    \union {SubSeq(Full, 1, n) : n \in 0 .. Len(Full)}
    \union {[Full EXCEPT ![n] = c] : n \in 1 .. Len(Full),
                                     c \in {"-", "T", ":", "+", ".", "Z", "7", " "}}
    \union {SubSeq(Full, 1, n) \o <<"0", "0">> \o SubSeq(Full, n + 1, Len(Full)) :
              n \in 1 .. 19}

MCTimes == {TimeOf([YEAR |-> y, MON |-> m, MDAY |-> d, HOUR |-> h, MIN |-> 59, SEC |-> s]) :
              y \in {1970, 2012}, m \in {1, 2, 12}, d \in {1, 29, 31}, h \in {0, 23},
              s \in {0, 59}}

MCHostZones == {0, 3600, -16200}
=============================================================================

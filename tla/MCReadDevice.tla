---------------------------- MODULE MCReadDevice ----------------------------
(***************************************************************************)
(* Devices for model checking ReadDevice: every chain of fewer than        *)
(* MaxBlocks blocks of three kinds, closed in four ways, behind four       *)
(* arrangements of the search registers, and those of MaxBlocks behind the *)
(* first.                                                                  *)
(***************************************************************************)
EXTENDS ReadDevice, SequencesExt

CONSTANT MaxBlocks  \* longest chain of data blocks

MCKnownDids == {1, 101}

\* Data lengths: with reads of three registers a block of the common model is
\* one full read, one of 101 two and a shorter one, and one of 9, which is
\* unknown to the client and has no data, is shorter than a read.
DataLen(d) == CASE d = 1 -> 1 [] d = 101 -> 5 [] d = 9 -> 0

\* The k-th block of a device; its words tell position and register apart.
Block(d, k) == <<d, DataLen(d)>> \o [j \in 1 .. DataLen(d) |-> 100 * k + j]

\* What follows the last block: the end marker, 0x0000, no register at all,
\* and a header whose block runs off the end of the registers.
Tails == {<<65535, 0>>, <<0, 3>>, <<>>, <<101, 5, 7>>}

\* Where the signature is: first, last behind refused and half-matching
\* registers, mirrored at two places, nowhere.
Other == <<21365, 0>>
MCWindows == {<<Signature, <<>>, <<>>, <<>> >>,
              << <<>>, Other, <<>>, Signature>>,
              <<Signature, Other, <<>>, Signature>>,
              <<Other, <<>>, <<>>, <<>> >>}

Chains == UNION {[1 .. n -> {1, 101, 9}] : n \in 0 .. MaxBlocks}

StartOf(c) ==
    LET at[k \in 1 .. Len(c) + 1] ==
          IF k = 1 THEN 2 ELSE at[k - 1] + DataLen(c[k - 1]) + 2
    IN  at

Device(w, c, t) ==
    LET image == Signature \o FlattenSeq([k \in 1 .. Len(c) |-> Block(c[k], k)])
                           \o t
    IN  [window |-> w,
         mem    |-> [o \in 0 .. Len(image) - 1 |-> image[o + 1]],
         start  |-> StartOf(c)]

MCDevices ==
    {Device(w, c, t) : w \in MCWindows, t \in Tails,
                       c \in {d \in Chains : Len(d) < MaxBlocks}}
    \union {Device(<<Signature, <<>>, <<>>, <<>> >>, c, t) :
                c \in {d \in Chains : Len(d) = MaxBlocks}, t \in Tails}
=============================================================================

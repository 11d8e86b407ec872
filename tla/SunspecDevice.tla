--------------------------- MODULE SunspecDevice ---------------------------
(***************************************************************************)
(* A SunSpec device as the client of suns_app.c sees it over Modbus: what  *)
(* its registers hold and how its data blocks are chained.  The device is  *)
(* not part of the repository; this module states what the client relies   *)
(* on when it calls modbus_read_registers(), and the constants of the      *)
(* block layout that the source names.                                     *)
(*                                                                         *)
(* A device is a record                                                    *)
(*   window  what the four places the client searches for the signature    *)
(*           answer: <<>> for an illegal data address exception, otherwise *)
(*           the two words read there;                                     *)
(*   mem     the words from the signature on, by offset from the base      *)
(*           register; offsets outside its domain are illegal addresses;   *)
(*   start   the offsets of the block headers, in chain order; the last    *)
(*           one is where the chain stops, for whatever reason.            *)
(***************************************************************************)
EXTENDS Integers, Sequences

MaxWord == 65535
Word    == 0 .. MaxWord

\* suns_model.h SUNS_ID_HIGH, SUNS_ID_LOW: "SunS" in two registers.
Signature == <<21365, 28243>>

\* search_registers[] has four entries: 40001, 1, 50001 and 0x40001.
Windows == 1 .. 4

\* The two registers of a block header.
Header(d, o) == [did |-> d.mem[o], len |-> d.mem[o + 1]]

IsEndMarker(h) == h.did = MaxWord /\ h.len = 0

\* The slave answers a read of n registers only if it has all of them.
Readable(d, o, n) == o .. o + n - 1 \subseteq DOMAIN d.mem

\* A block header that leads to a next one: it can be read, it is neither the
\* end marker nor 0, and the block it announces can be read to its end.
Continues(d, o) ==
    /\ Readable(d, o, 2)
    /\ ~IsEndMarker(Header(d, o))
    /\ Header(d, o).did # 0
    /\ Readable(d, o, Header(d, o).len + 2)

\* The words of the block at o, header included.
BlockAt(d, o) == [j \in 1 .. Header(d, o).len + 2 |-> d.mem[o + j - 1]]

IsChain(d) ==
    /\ d.start \in Seq(Nat)
    /\ d.start # <<>>
    /\ d.start[1] = 2
    /\ \A k \in 1 .. Len(d.start) - 1 :
          /\ Continues(d, d.start[k])
          /\ d.start[k + 1] = d.start[k] + Header(d, d.start[k]).len + 2
    /\ ~Continues(d, d.start[Len(d.start)])

\* The client's register buffer (regs[1024]) takes every block announced.
FitsBuffer(d, regsSize) ==
    /\ regsSize >= 2
    /\ \A k \in 1 .. Len(d.start) :
          Readable(d, d.start[k], 2) =>
             Header(d, d.start[k]).len + 2 <= regsSize

IsDevice(d, regsSize) ==
    /\ d.window \in [Windows -> {<<>>} \union (Word \X Word)]
    /\ DOMAIN d.mem \subseteq Nat
    /\ \A o \in DOMAIN d.mem : d.mem[o] \in Word
    /\ IsChain(d)
    /\ FitsBuffer(d, regsSize)
=============================================================================

----------------------------- MODULE SunsTypes ------------------------------
(***************************************************************************)
(* The types of datapoints (suns_type_t, suns_type_pair_t) and the room    *)
(* they take, in bytes for the decoder and in registers for the layout.    *)
(***************************************************************************)
EXTENDS Integers

\* suns_type_t, by size in bytes: suns_type_size().  The order of sizes[]
\* gives an IPv6 address 8 bytes, and strings and undefined types none.
Types16 == {"int16", "uint16", "acc16", "enum16", "bitfield16", "sunssf", "pad"}
Types32 == {"int32", "uint32", "float32", "acc32", "enum32", "bitfield32",
            "ipv4"}
Types64 == {"int64", "uint64", "float64", "acc64", "ipv6"}
Types   == Types16 \union Types32 \union Types64 \union {"string", "undefined"}

TypeSize(t) ==
    IF t \in Types16 THEN 2 ELSE
    IF t \in Types32 THEN 4 ELSE
    IF t \in Types64 THEN 8 ELSE 0

\* suns_type_is_numeric()
IsNumeric(t) ==
    t \in {"int16", "uint16", "acc16", "int32", "float32", "acc32",
           "int64", "uint64", "float64", "acc64"}

\* suns_type_is_symbolic()
IsSymbolic(t) == t \in {"enum16", "enum32", "bitfield16", "bitfield32"}

\* Slip: string lengths taken in registers, as the model files give them.
PairSize_InRegisters(dp) ==
    IF dp.type = "string" THEN dp.len \div 2 ELSE TypeSize(dp.type)

\* suns_type_pair_size(): bytes the decoder takes for a point.
PairSize(dp) == IF dp.type = "string" THEN dp.len ELSE TypeSize(dp.type)

\* Registers the layout takes for a point: an odd string is rounded up.
Registers(dp) ==
    IF dp.type = "string" THEN (dp.len + 1) \div 2 ELSE TypeSize(dp.type) \div 2
=============================================================================

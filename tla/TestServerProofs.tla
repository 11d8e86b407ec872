--------------------------- MODULE TestServerProofs ---------------------------
(***************************************************************************)
(* What holds of TestServer for all data blocks, maps and clients.         *)
(***************************************************************************)
EXTENDS TestServer, LeastElement

-----------------------------------------------------------------------------
\* Bytes and registers

LEMMA WordFacts ==
    /\ \A x, y \in Byte : Register(x, y) \in Word
    /\ 0 \in Byte /\ 0 \in Word /\ MaxWord \in Word /\ MaxWord \in Nat /\ MaxWord # 0
    /\ Signature \in Seq(Word) /\ Len(Signature) = 2
    /\ <<MaxWord, 0>> \in Seq(Word) /\ Len(<<MaxWord, 0>>) = 2
<1>1. MaxWord \in Nat /\ MaxWord # 0 /\ \A n \in Nat : n <= MaxWord => n \in Word
  <2>1. MaxWord \in Nat /\ MaxWord # 0
    BY DEF MaxWord
  <2> QED
    BY <2>1 DEF Word
<1>2. \A x, y \in Byte : Register(x, y) \in Word
  <2> TAKE x, y \in Byte
  <2>1. x \in Nat /\ x <= 255 /\ y \in Nat /\ y <= 255
    BY SMT DEF Byte
  <2>2. Register(x, y) \in Nat /\ Register(x, y) <= MaxWord
    BY <2>1, SMT DEF Register, MaxWord
  <2> QED
    BY <1>1, <2>2
<1>3. 0 \in Byte /\ 0 \in Word /\ MaxWord \in Word /\ 21365 \in Word /\ 28243 \in Word
  <2>1. 0 <= MaxWord /\ 21365 <= MaxWord /\ 28243 <= MaxWord
    BY SMT DEF MaxWord
  <2>2. 0 \in Nat /\ 21365 \in Nat /\ 28243 \in Nat /\ 0 \in Byte
    BY SMT DEF Byte
  <2> QED
    BY <1>1, <2>1, <2>2, SMT
<1>4. Signature \in Seq(Word) /\ Len(Signature) = 2
  BY <1>3, SMT DEF Signature
<1>5. <<MaxWord, 0>> \in Seq(Word) /\ Len(<<MaxWord, 0>>) = 2
  BY <1>3
<1> QED
  BY <1>1, <1>2, <1>3, <1>4, <1>5

LEMMA ByteTypes == \A v \in Int, p \in Nat : ByteOf(v, p) \in Byte
<1> TAKE v \in Int, p \in Nat
<1>1. CASE p > 3
  BY <1>1, SMT DEF ByteOf, Byte
<1>2. CASE p \in 0 .. 3
  BY <1>2, SMT DEF ByteOf, Byte
<1> QED
  BY <1>1, <1>2

\* Two bytes of a number are a register of it.
LEMMA WordOfBytes ==
    \A v \in Int, p \in Nat :
       Register(ByteOf(v, 2 * p + 1), ByteOf(v, 2 * p)) = WordOf(v, p)
<1> TAKE v \in Int, p \in Nat
<1>1. CASE p > 1
  BY <1>1, SMT DEF ByteOf, WordOf, Register, MaxWord
<1>2. CASE p = 1
  <2>1. 256 ^ 3 = 16777216 /\ 256 ^ 2 = 65536 /\ 65536 ^ 1 = 65536
    BY SMT
  <2> QED
    BY <1>2, <2>1, SMT DEF ByteOf, WordOf, Register
<1>3. CASE p = 0
  <2>1. 256 ^ 1 = 256 /\ 256 ^ 0 = 1 /\ 65536 ^ 0 = 1
    BY SMT
  <2> QED
    BY <1>3, <2>1, SMT DEF ByteOf, WordOf, Register
<1> QED
  BY <1>1, <1>2, <1>3

LEMMA FunctionIsSeq ==
    ASSUME NEW S, NEW n \in Nat, NEW f \in [1 .. n -> S]
    PROVE  f \in Seq(S) /\ Len(f) = n
  OBVIOUS

\* Bytes in pairs: nothing behind them is taken for one.
LEMMA PairsOfBytes ==
    ASSUME NEW m \in Nat, NEW b \in [1 .. 2 * m -> Byte], NEW stale
    PROVE  /\ RegistersOf(b, stale) = Paired(b, m)
           /\ Paired(b, m) \in Seq(Word) /\ Len(Paired(b, m)) = m
           /\ \A k \in 1 .. m : Paired(b, m)[k] = Register(b[2 * k - 1], b[2 * k])
<1>1. 2 * m \in Nat /\ b \in Seq(Byte) /\ Len(b) = 2 * m
  <2>1. 2 * m \in Nat
    OBVIOUS
  <2> QED
    BY <2>1, FunctionIsSeq
<1>2. (Len(b) + 1) \div 2 = m
  <2>1. \A n \in Nat : (2 * n + 1) \div 2 = n
    OBVIOUS
  <2> QED
    BY <1>1, <2>1
<1>3. \A k \in 1 .. m : /\ 2 * k - 1 \in 1 .. 2 * m /\ 2 * k \in 1 .. 2 * m
                        /\ 2 * k - 1 <= 2 * m /\ 2 * k <= 2 * m
  OBVIOUS
<1>4. Paired(b, m) = [k \in 1 .. m |-> Register(b[2 * k - 1], b[2 * k])]
  BY <1>1, <1>3 DEF Paired
<1>5. RegistersOf(b, stale) = [k \in 1 .. m |-> Register(b[2 * k - 1], b[2 * k])]
  BY <1>1, <1>2, <1>3 DEF RegistersOf
<1>6. \A k \in 1 .. m : Register(b[2 * k - 1], b[2 * k]) \in Word
  BY <1>3, WordFacts
<1> QED
  BY <1>4, <1>5, <1>6

LEMMA PairsOfNumber ==
    ASSUME NEW v \in Int, NEW m \in Nat, NEW stale
    PROVE  /\ BigEndian(v, 2 * m) \in [1 .. 2 * m -> Byte]
           /\ RegistersOf(BigEndian(v, 2 * m), stale) = Number(v, m)
           /\ Number(v, m) \in Seq(Word) /\ Len(Number(v, m)) = m
<1> DEFINE b == BigEndian(v, 2 * m)
<1>1. b \in [1 .. 2 * m -> Byte]
  <2>1. \A k \in 1 .. 2 * m : 2 * m - k \in Nat
    OBVIOUS
  <2> QED
    BY <2>1, ByteTypes DEF BigEndian
<1>2. ASSUME NEW k \in 1 .. m
      PROVE  Register(b[2 * k - 1], b[2 * k]) = WordOf(v, m - k)
  <2>1. /\ 2 * k - 1 \in 1 .. 2 * m /\ 2 * k \in 1 .. 2 * m /\ m - k \in Nat
        /\ 2 * m - (2 * k - 1) = 2 * (m - k) + 1 /\ 2 * m - 2 * k = 2 * (m - k)
    OBVIOUS
  <2>2. b[2 * k - 1] = ByteOf(v, 2 * (m - k) + 1) /\ b[2 * k] = ByteOf(v, 2 * (m - k))
    BY <2>1 DEF BigEndian
  <2> QED
    BY <2>1, <2>2, WordOfBytes
<1> HIDE DEF b
<1>3. /\ RegistersOf(b, stale) = Paired(b, m)
      /\ Paired(b, m) \in Seq(Word) /\ Len(Paired(b, m)) = m
      /\ \A k \in 1 .. m : Paired(b, m)[k] = Register(b[2 * k - 1], b[2 * k])
  BY <1>1, PairsOfBytes
<1>4. Paired(b, m) = Number(v, m)
  <2>1. \A k \in 1 .. m : Paired(b, m)[k] = WordOf(v, m - k)
    BY <1>2, <1>3
  <2>2. Paired(b, m) = [k \in 1 .. m |-> WordOf(v, m - k)]
    BY <1>3, <2>1
  <2> QED
    BY <2>2 DEF Number
<1> QED
  BY <1>1, <1>3, <1>4 DEF b

-----------------------------------------------------------------------------
\* Literals

\* Every case of LiteralBytes.
LEMMA LiteralCases ==
    ASSUME NEW l, IsLiteral(l)
    PROVE  /\ l.form = "STRING" => LiteralBytes(l) = Padded(l.s, l.len)
           /\ l.form = "FLOAT" /\ l.type \in {"bare", "float32"} =>
                LiteralBytes(l) = FloatBytes(l.v, 4)
           /\ l.form = "FLOAT" /\ l.type \notin {"bare", "float32"} => LiteralBytes(l) = <<>>
           /\ IsInteger(l) =>
                /\ l.type = "bare" => LiteralBytes(l) = BigEndian(l.v, 2)
                /\ l.type \in DOMAIN IntegerSize =>
                      LiteralBytes(l) = BigEndian(l.v, IntegerSize[l.type])
                /\ l.type \in DOMAIN FloatSize =>
                      LiteralBytes(l) = FloatBytes(l.v, FloatSize[l.type])
                /\ l.type \notin {"bare"} \union DOMAIN IntegerSize \union DOMAIN FloatSize =>
                      LiteralBytes(l) = <<>>
<1>1. IsInteger(l) \/ l.form \in {"FLOAT", "STRING"}
  BY DEF IsLiteral
<1>2. /\ DOMAIN IntegerSize = {"int16", "uint16", "enum16", "bitfield16", "sunssf", "int32",
                               "uint32", "bitfield32", "int64", "uint64"}
      /\ DOMAIN FloatSize = {"float32", "float64"}
  BY DEF IntegerSize, FloatSize
<1>3. CASE l.form = "STRING"
  <2>1. LiteralBytes(l) = Padded(l.s, l.len)
    BY <1>3 DEF LiteralBytes, IsInteger
  <2>2. l.form # "FLOAT" /\ ~IsInteger(l)
    BY <1>3 DEF IsInteger
  <2> QED
    BY <2>1, <2>2
<1>4. CASE l.form = "FLOAT"
  <2>1. CASE l.type \in {"bare", "float32"}
    BY <1>4, <2>1 DEF LiteralBytes, IsInteger
  <2>2. CASE l.type \notin {"bare", "float32"}
    BY <1>4, <2>2 DEF LiteralBytes, IsInteger
  <2> QED
    BY <2>1, <2>2
<1>5. CASE IsInteger(l)
  <2>1. CASE l.type = "bare"
    BY <1>2, <1>5, <2>1 DEF LiteralBytes, IsInteger
  <2>2. CASE l.type \in DOMAIN IntegerSize
    BY <1>2, <1>5, <2>2 DEF LiteralBytes, IsInteger
  <2>3. CASE l.type \in DOMAIN FloatSize
    BY <1>2, <1>5, <2>3 DEF LiteralBytes, IsInteger
  <2>4. CASE l.type \notin {"bare"} \union DOMAIN IntegerSize \union DOMAIN FloatSize
    BY <1>2, <1>5, <2>4 DEF LiteralBytes, IsInteger
  <2>5. \/ l.type = "bare" \/ l.type \in DOMAIN IntegerSize \/ l.type \in DOMAIN FloatSize
        \/ l.type \notin {"bare"} \union DOMAIN IntegerSize \union DOMAIN FloatSize
    OBVIOUS
  <2> QED
    BY <2>1, <2>2, <2>3, <2>4, <2>5
<1> QED
  BY <1>1, <1>3, <1>4, <1>5

LEMMA LiteralTyped ==
    ASSUME NEW l, IsLiteral(l)
    PROVE  LiteralBytes(l) \in Seq(Byte)
<1>1. CASE l.form = "STRING"
  <2>1. l.len \in Nat /\ l.s \in Seq(Byte)
    BY <1>1 DEF IsLiteral
  <2>2. LiteralBytes(l) = Padded(l.s, l.len)
    BY <1>1, LiteralCases
  <2>3. LiteralBytes(l) \in [1 .. l.len -> Byte]
    BY <2>1, <2>2, WordFacts DEF Padded
  <2> QED
    BY <2>1, <2>3, FunctionIsSeq
<1>2. ASSUME NEW n \in {4, 8}, LiteralBytes(l) = FloatBytes(l.v, n),
             FloatBytes(l.v, n) \in [1 .. n -> Byte]
      PROVE  LiteralBytes(l) \in Seq(Byte)
  BY <1>2, FunctionIsSeq
<1>3. ASSUME NEW n \in {2, 4, 8}, LiteralBytes(l) = BigEndian(l.v, n), l.v \in Int
      PROVE  LiteralBytes(l) \in Seq(Byte)
  <2>1. PICK m \in Nat : n = 2 * m
    <3>1. 2 = 2 * 1 /\ 4 = 2 * 2 /\ 8 = 2 * 4
      OBVIOUS
    <3> QED
      BY <3>1
  <2>2. LiteralBytes(l) \in [1 .. n -> Byte]
    BY <1>3, <2>1, PairsOfNumber
  <2> QED
    BY <2>2, FunctionIsSeq
<1>4. <<>> \in Seq(Byte)
  OBVIOUS
<1>5. \A t \in DOMAIN IntegerSize : IntegerSize[t] \in {2, 4, 8}
  BY DEF IntegerSize
<1>6. \A t \in DOMAIN FloatSize : FloatSize[t] \in {4, 8}
  BY DEF FloatSize
<1>7. CASE l.form = "FLOAT"
  BY <1>2, <1>4, <1>7, LiteralCases DEF IsLiteral
<1>8. CASE IsInteger(l)
  <2>1. l.v \in Int
    BY <1>8 DEF IsLiteral
  <2>2. CASE l.type = "bare"
    BY <1>3, <1>8, <2>1, <2>2, LiteralCases
  <2>3. CASE l.type \in DOMAIN IntegerSize
    BY <1>3, <1>5, <1>8, <2>1, <2>3, LiteralCases
  <2>4. CASE l.type \in DOMAIN FloatSize
    <3>1. \A n \in {4, 8} : FloatBytes(l.v, n) \in [1 .. n -> Byte]
      BY <1>8, <2>4 DEF IsLiteral
    <3> QED
      BY <1>2, <1>6, <1>8, <2>4, <3>1, LiteralCases
  <2>5. CASE l.type \notin {"bare"} \union DOMAIN IntegerSize \union DOMAIN FloatSize
    BY <1>4, <1>8, <2>5, LiteralCases
  <2> QED
    BY <2>2, <2>3, <2>4, <2>5
<1> QED
  BY <1>1, <1>7, <1>8 DEF IsLiteral

\* What a supported literal leaves in the buffer are its registers, whole.
LEMMA SupportedLiteral ==
    ASSUME NEW l, IsLiteral(l), Supported(l), NEW stale
    PROVE  \E m \in Nat :
              /\ Len(LiteralBytes(l)) = 2 * m /\ 2 * m <= BufferSize
              /\ Registers(l) \in Seq(Word) /\ Len(Registers(l)) = m
              /\ RegistersOf(LiteralBytes(l), stale) = Registers(l)
<1> DEFINE Good(m) == /\ Len(LiteralBytes(l)) = 2 * m /\ 2 * m <= BufferSize
                      /\ Registers(l) \in Seq(Word) /\ Len(Registers(l)) = m
                      /\ RegistersOf(LiteralBytes(l), stale) = Registers(l)
<1> SUFFICES \E m \in Nat : Good(m)
  OBVIOUS
<1>1. CASE l.form = "STRING"
  <2>1. l.len \in Nat /\ l.s \in Seq(Byte) /\ l.len % 2 = 0 /\ l.len <= BufferSize
    BY <1>1 DEF IsLiteral, Supported
  <2>2. PICK m \in Nat : l.len = 2 * m /\ l.len \div 2 = m
    <3>1. \A n \in Nat : n % 2 = 0 => (n \div 2) \in Nat /\ n = 2 * (n \div 2)
      OBVIOUS
    <3> QED
      BY <2>1, <3>1
  <2> DEFINE b == Padded(l.s, 2 * m)
  <2>3. LiteralBytes(l) = b
    BY <1>1, <2>2, LiteralCases
  <2>4. b \in [1 .. 2 * m -> Byte]
    BY <2>1, WordFacts DEF Padded
  <2>5. Paired(l.s, m) = Paired(b, m)
    <3>1. \A k \in 1 .. m : 2 * k - 1 \in 1 .. 2 * m /\ 2 * k \in 1 .. 2 * m
      OBVIOUS
    <3>2. 2 * m \in Nat /\ Len(b) = 2 * m
      BY DEF Padded
    <3>3. \A k \in 1 .. 2 * m : (IF k <= Len(b) THEN b[k] ELSE 0)
                                  = IF k <= Len(l.s) THEN l.s[k] ELSE 0
      BY <3>2 DEF Padded
    <3> HIDE DEF b
    <3> QED
      BY <3>1, <3>3 DEF Paired
  <2> HIDE DEF b
  <2>6. Registers(l) = Paired(b, m)
    <3>1. Registers(l) = Paired(l.s, l.len \div 2)
      BY <1>1 DEF Registers, IsInteger
    <3> QED
      BY <2>2, <2>5, <3>1
  <2>7. 2 * m \in Nat /\ 2 * m <= BufferSize
    BY <2>1, <2>2
  <2>8. Len(b) = 2 * m
    BY <2>4, <2>7, FunctionIsSeq
  <2>9. /\ RegistersOf(b, stale) = Paired(b, m)
        /\ Paired(b, m) \in Seq(Word) /\ Len(Paired(b, m)) = m
    BY <2>4, PairsOfBytes
  <2>10. Good(m)
    BY <2>3, <2>6, <2>7, <2>8, <2>9
  <2> QED
    BY <2>10
<1>2. ASSUME NEW n \in {4, 8}, NEW m \in {2, 4}, n = 2 * m,
             LiteralBytes(l) = FloatBytes(l.v, n),
             FloatBytes(l.v, n) \in [1 .. n -> Byte],
             Registers(l) = Paired(FloatBytes(l.v, n), m)
      PROVE  Good(m)
  <2>1. n \in Nat /\ n <= BufferSize /\ m \in Nat
    BY BufferSizeAssumption
  <2>2. PICK f \in [1 .. n -> Byte] : f = FloatBytes(l.v, n)
    BY <1>2
  <2>3. f \in [1 .. 2 * m -> Byte] /\ Len(f) = n
    BY <1>2, <2>1, FunctionIsSeq
  <2>4. /\ RegistersOf(f, stale) = Paired(f, m)
        /\ Paired(f, m) \in Seq(Word) /\ Len(Paired(f, m)) = m
    BY <2>1, <2>3, PairsOfBytes
  <2> QED
    BY <1>2, <2>1, <2>2, <2>3, <2>4
<1>3. ASSUME NEW n \in {2, 4, 8}, NEW m \in {1, 2, 4}, n = 2 * m,
             LiteralBytes(l) = BigEndian(l.v, n), l.v \in Int,
             Registers(l) = Number(l.v, m)
      PROVE  Good(m)
  <2>1. n \in Nat /\ n <= BufferSize /\ m \in Nat
    BY BufferSizeAssumption
  <2>2. /\ BigEndian(l.v, n) \in [1 .. n -> Byte]
        /\ RegistersOf(BigEndian(l.v, n), stale) = Number(l.v, m)
        /\ Number(l.v, m) \in Seq(Word) /\ Len(Number(l.v, m)) = m
    BY <1>3, <2>1, PairsOfNumber
  <2>3. Len(BigEndian(l.v, n)) = n
    BY <2>1, <2>2, FunctionIsSeq
  <2> QED
    BY <1>3, <2>1, <2>2, <2>3
<1> HIDE DEF Good
<1>4. 2 * 1 = 2 /\ 2 * 2 = 4 /\ 2 * 4 = 8
  OBVIOUS
<1>5. CASE l.form = "FLOAT"
  <2>1. l.type \in {"bare", "float32"}
    BY <1>5 DEF Supported
  <2>2. LiteralBytes(l) = FloatBytes(l.v, 4) /\ FloatBytes(l.v, 4) \in [1 .. 4 -> Byte]
    BY <1>5, <2>1, LiteralCases DEF IsLiteral
  <2>3. Registers(l) = Paired(FloatBytes(l.v, 4), 2)
    BY <1>5, <2>1 DEF Registers, IsInteger
  <2>4. Good(2)
    BY <1>2, <1>4, <2>2, <2>3
  <2> QED
    BY <2>4
<1>6. CASE IsInteger(l)
  <2>1. l.v \in Int
    BY <1>6 DEF IsLiteral
  <2>2. /\ DOMAIN IntegerSize = {"int16", "uint16", "enum16", "bitfield16", "sunssf", "int32",
                                 "uint32", "bitfield32", "int64", "uint64"}
        /\ DOMAIN FloatSize = {"float32", "float64"}
    BY DEF IntegerSize, FloatSize
  <2>3. CASE l.type = "float64"
    <3>1. LiteralBytes(l) = FloatBytes(l.v, 8) /\ FloatBytes(l.v, 8) \in [1 .. 8 -> Byte]
      BY <1>6, <2>2, <2>3, LiteralCases DEF IsLiteral, FloatSize
    <3>2. Registers(l) = Paired(FloatBytes(l.v, 8), 4)
      BY <1>6, <2>3 DEF Registers, IsInteger
    <3>3. Good(4)
      BY <1>2, <1>4, <3>1, <3>2
    <3> QED
      BY <3>3
  <2>4. CASE l.type = "float32"
    <3>1. LiteralBytes(l) = FloatBytes(l.v, 4) /\ FloatBytes(l.v, 4) \in [1 .. 4 -> Byte]
      BY <1>6, <2>2, <2>4, LiteralCases DEF IsLiteral, FloatSize
    <3>2. Registers(l) = Paired(FloatBytes(l.v, 4), 2)
      BY <1>6, <2>4 DEF Registers, IsInteger
    <3>3. Good(2)
      BY <1>2, <1>4, <3>1, <3>2
    <3> QED
      BY <3>3
  <2>5. CASE l.type \in {"int32", "uint32", "bitfield32"}
    <3>1. LiteralBytes(l) = BigEndian(l.v, 4)
      BY <1>6, <2>2, <2>5, LiteralCases DEF IntegerSize
    <3>2. Registers(l) = Number(l.v, 2)
      BY <1>6, <2>5 DEF Registers, IsInteger
    <3>3. Good(2)
      BY <1>3, <1>4, <2>1, <3>1, <3>2
    <3> QED
      BY <3>3
  <2>6. CASE l.type \in {"int64", "uint64"}
    <3>1. LiteralBytes(l) = BigEndian(l.v, 8)
      BY <1>6, <2>2, <2>6, LiteralCases DEF IntegerSize
    <3>2. Registers(l) = Number(l.v, 4)
      BY <1>6, <2>6 DEF Registers, IsInteger
    <3>3. Good(4)
      BY <1>3, <1>4, <2>1, <3>1, <3>2
    <3> QED
      BY <3>3
  <2>7. CASE l.type \in {"bare", "int16", "uint16", "enum16", "bitfield16", "sunssf"}
    <3>1. LiteralBytes(l) = BigEndian(l.v, 2)
      BY <1>6, <2>2, <2>7, LiteralCases DEF IntegerSize
    <3>2. Registers(l) = Number(l.v, 1)
      BY <1>6, <2>7 DEF Registers, IsInteger
    <3>3. Good(1)
      BY <1>3, <1>4, <2>1, <3>1, <3>2
    <3> QED
      BY <3>3
  <2>8. l.type \in {"bare", "int16", "uint16", "int32", "uint32", "int64", "uint64", "float32",
                    "float64", "enum16", "bitfield16", "bitfield32", "sunssf"}
    BY <1>6 DEF Supported, IsInteger, IsInteger
  <2> QED
    BY <2>3, <2>4, <2>5, <2>6, <2>7, <2>8
<1> QED
  BY <1>1, <1>5, <1>6 DEF IsLiteral

-----------------------------------------------------------------------------
\* Sequences one after the other

LEMMA Concat ==
    ASSUME NEW S, NEW x \in Seq(S), NEW y \in Seq(S)
    PROVE  /\ x \o y \in Seq(S) /\ Len(x \o y) = Len(x) + Len(y)
           /\ \A k \in 1 .. Len(x) : (x \o y)[k] = x[k]
           /\ \A k \in 1 .. Len(y) : (x \o y)[Len(x) + k] = y[k]
  OBVIOUS

LEMMA SubSeqIs ==
    ASSUME NEW S, NEW x \in Seq(S), NEW m \in Nat, NEW n \in Nat, m + n <= Len(x)
    PROVE  /\ SubSeq(x, m + 1, m + n) \in Seq(S) /\ Len(SubSeq(x, m + 1, m + n)) = n
           /\ \A k \in 1 .. n : SubSeq(x, m + 1, m + n)[k] = x[m + k]
<1>1. /\ m + 1 \in Int /\ m + n \in Int /\ (m + n) - (m + 1) + 1 = n
      /\ \A k \in 1 .. n : m + k \in 1 .. Len(x) /\ (m + 1) + k - 1 = m + k
  OBVIOUS
<1>2. SubSeq(x, m + 1, m + n) = [k \in 1 .. n |-> x[m + k]]
  BY <1>1
<1>3. \A k \in 1 .. n : x[m + k] \in S
  BY <1>1
<1> QED
  BY <1>2, <1>3

LEMMA ConcatIs ==
    ASSUME NEW S, NEW x \in Seq(S), NEW y \in Seq(S), NEW z \in Seq(S),
           Len(z) = Len(x) + Len(y),
           \A k \in 1 .. Len(x) : z[k] = x[k],
           \A k \in 1 .. Len(y) : z[Len(x) + k] = y[k]
    PROVE  z = x \o y
<1>1. x \o y \in Seq(S) /\ Len(x \o y) = Len(z)
  OBVIOUS
<1>2. ASSUME NEW k \in 1 .. Len(z) PROVE (x \o y)[k] = z[k]
  <2>1. CASE k \in 1 .. Len(x)
    BY <2>1
  <2>2. CASE k \notin 1 .. Len(x)
    <3>1. k - Len(x) \in 1 .. Len(y) /\ Len(x) + (k - Len(x)) = k
      BY <2>2
    <3>2. (x \o y)[Len(x) + (k - Len(x))] = y[k - Len(x)]
      BY <3>1, Concat
    <3>3. z[Len(x) + (k - Len(x))] = y[k - Len(x)]
      BY <3>1
    <3> QED
      BY <3>1, <3>2, <3>3
  <2> QED
    BY <2>1, <2>2
<1> QED
  BY <1>1, <1>2

\* The runs of a sequence of sequences, each with one more of them.
Runs(g, s) == g[0] = <<>> /\ \A k \in 1 .. Len(s) : g[k] = g[k - 1] \o s[k]

\* FlattenSeq goes through the runs.
LEMMA Flatten ==
    ASSUME NEW S, NEW s \in Seq(Seq(S))
    PROVE  \E g \in [0 .. Len(s) -> Seq(S)] : Runs(g, s) /\ FlattenSeq(s) = g[Len(s)]
<1> DEFINE N == Len(s)
           T == Seq(S)
           base == <<>>
           step == [k \in 1 .. N |-> [x \in T |-> x \o s[k]]]
<1>1. N \in Nat /\ base \in T
  OBVIOUS
<1>2. \A k \in 1 .. N : s[k] \in T /\ \A x \in T : step[k][x] = x \o s[k] /\ step[k][x] \in T
  OBVIOUS
<1>3. CASE N = 0
  <2>1. s = <<>> /\ FlattenSeq(s) = s
    BY <1>3 DEF FlattenSeq
  <2>2. Runs([k \in 0 .. 0 |-> <<>>], s)
    BY <2>1 DEF Runs
  <2> QED
    BY <1>3, <2>1, <2>2
<1>4. CASE N # 0
  <2> HIDE DEF step, base, T
  <2>1. PICK g \in [0 .. N -> T] : Follows(g, base, step, N)
    <3> HIDE DEF N
    <3> QED
      BY <1>1, <1>2, Recursion
  <2>2. ASSUME NEW k \in 1 .. N
        PROVE  k - 1 \in 0 .. N /\ g[k] = g[k - 1] \o s[k] /\ g[k] \in T
    <3>1. k \in 0 .. N /\ k - 1 \in 0 .. N
      OBVIOUS
    <3>2. g[k] \in T /\ g[k - 1] \in T /\ g[k] = step[k][g[k - 1]]
      BY <2>1, <3>1 DEF Follows
    <3> QED
      BY <1>2, <3>1, <3>2
  <2>8. Runs(g, s)
    <3>1. g[0] = <<>>
      BY <2>1 DEF Follows, base
    <3> QED
      BY <2>2, <3>1 DEF Runs
  <2>9. 1 \in 1 .. N /\ g[1] = s[1]
    <3>1. 1 \in 1 .. N
      BY <1>1, <1>4
    <3>2. g[1] = g[1 - 1] \o s[1]
      BY <2>2, <3>1
    <3>3. g[0] = <<>> /\ s[1] \in Seq(S)
      BY <1>2, <2>8, <3>1 DEF Runs, T
    <3>4. <<>> \o s[1] = s[1]
      BY <3>3
    <3>5. g[1] = g[0] \o s[1]
      BY <3>2
    <3> QED
      BY <3>1, <3>3, <3>4, <3>5
  <2> DEFINE F(f) == [i \in 1 .. N |-> IF i = 1 THEN s[i] ELSE f[i - 1] \o s[i]]
             flat == CHOOSE f : f = F(f)
  <2>3. FlattenSeq(s) = flat[N]
    BY <1>4 DEF FlattenSeq
  <2>4. flat = F(flat)
    <3> DEFINE h == [i \in 1 .. N |-> g[i]]
    <3>1. h = F(h)
      <4>1. ASSUME NEW i \in 1 .. N PROVE h[i] = IF i = 1 THEN s[i] ELSE h[i - 1] \o s[i]
        <5>1. CASE i = 1
          BY <2>9, <5>1
        <5>2. CASE i # 1
          <6>1. i - 1 \in 1 .. N
            BY <5>2
          <6> QED
            BY <2>2, <5>2, <6>1
        <5> QED
          BY <5>1, <5>2
      <4> QED
        BY <4>1
    <3> HIDE DEF F, h
    <3> QED
      BY <3>1
  <2> HIDE DEF flat
  <2>5. \A i \in 1 .. N : flat[i] = IF i = 1 THEN s[i] ELSE flat[i - 1] \o s[i]
    BY <2>4
  <2> DEFINE Same == {i \in 0 .. N : i = 0 \/ flat[i] = g[i]}
  <2>6. ASSUME NEW i \in 1 .. N, i - 1 \in Same PROVE i \in Same
    <3>1. CASE i = 1
      BY <2>5, <2>9, <3>1
    <3>2. CASE i # 1
      <4>1. flat[i - 1] = g[i - 1]
        BY <2>6, <3>2
      <4>2. flat[i] = flat[i - 1] \o s[i] /\ g[i] = g[i - 1] \o s[i]
        BY <2>2, <2>5, <3>2
      <4>3. flat[i] = g[i] /\ i \in 0 .. N
        BY <4>1, <4>2
      <4> QED
        BY <4>3
    <3> QED
      BY <3>1, <3>2
  <2>7. N \in Same
    <3>1. 0 \in Same
      OBVIOUS
    <3> HIDE DEF Same, N
    <3>2. 0 .. N \subseteq Same
      BY <1>1, <2>6, <3>1, UpTo
    <3> QED
      BY <1>1, <3>2
  <2> QED
    BY <1>4, <2>1, <2>3, <2>7, <2>8 DEF T
<1> QED
  BY <1>3, <1>4

\* A run begins with every run before it.
LEMMA RunsGrow ==
    ASSUME NEW s \in Seq(Seq(Word)), NEW g \in [0 .. Len(s) -> Seq(Word)], Runs(g, s)
    PROVE  \A k \in 0 .. Len(s) : \A m \in k .. Len(s) :
              /\ Len(g[k]) <= Len(g[m])
              /\ \A i \in 1 .. Len(g[k]) : g[m][i] = g[k][i]
<1> TAKE k \in 0 .. Len(s)
<1> TAKE m \in k .. Len(s)
<1> DEFINE Begins(x, y) == Len(x) <= Len(y) /\ \A i \in 1 .. Len(x) : y[i] = x[i]
           N == Len(s) - k
           T == {n \in 0 .. N : Begins(g[k], g[k + n])}
<1>1. N \in Nat /\ 0 \in T
  BY SMT
<1>2. ASSUME NEW n \in 1 .. N, n - 1 \in T PROVE n \in T
  <2>1. k + n \in 1 .. Len(s) /\ (k + n) - 1 = k + (n - 1) /\ k + (n - 1) \in 0 .. Len(s)
    OBVIOUS
  <2>2. g[k + n] = g[(k + n) - 1] \o s[k + n]
    BY <2>1 DEF Runs
  <2>3. g[k] \in Seq(Word) /\ g[k + (n - 1)] \in Seq(Word) /\ s[k + n] \in Seq(Word)
    <3>1. \A i \in 0 .. Len(s) : g[i] \in Seq(Word)
      OBVIOUS
    <3>2. \A i \in 1 .. Len(s) : s[i] \in Seq(Word)
      OBVIOUS
    <3> QED
      BY <2>1, <3>1, <3>2
  <2>4. Begins(g[k], g[k + (n - 1)])
    BY <1>2
  <2>5. \A x, y, z \in Seq(Word) : Begins(x, y) => Begins(x, y \o z)
    <3> TAKE x, y, z \in Seq(Word)
    <3> HAVE Begins(x, y)
    <3>1. Len(x) <= Len(y) /\ \A i \in 1 .. Len(x) : i \in 1 .. Len(y) /\ y[i] = x[i]
      OBVIOUS
    <3>2. Len(y \o z) = Len(y) + Len(z) /\ \A i \in 1 .. Len(y) : (y \o z)[i] = y[i]
      BY Concat
    <3>3. Len(x) <= Len(y \o z)
      BY <3>1, <3>2
    <3>4. \A i \in 1 .. Len(x) : (y \o z)[i] = x[i]
      BY <3>1, <3>2
    <3> QED
      BY <3>3, <3>4
  <2>6. Begins(g[k], g[k + n])
    <3> HIDE DEF Begins
    <3> QED
      BY <2>1, <2>2, <2>3, <2>4, <2>5
  <2> QED
    BY <2>6
<1>3. m - k \in T
  <2>1. m - k \in 0 .. N
    OBVIOUS
  <2> HIDE DEF T, N
  <2>2. 0 .. N \subseteq T
    BY <1>1, <1>2, UpTo
  <2> QED
    BY <2>1, <2>2
<1>4. k + (m - k) = m
  OBVIOUS
<1> QED
  BY <1>3, <1>4

-----------------------------------------------------------------------------
\* Bytes in the buffer

LEMMA RegistersOfSeq ==
    ASSUME NEW b \in Seq(Byte), NEW stale \in Byte
    PROVE  RegistersOf(b, stale) \in Seq(Word)
<1>1. (Len(b) + 1) \div 2 \in Nat /\ \A k \in 1 .. (Len(b) + 1) \div 2 : 2 * k - 1 \in 1 .. Len(b)
  OBVIOUS
<1>2. \A k \in 1 .. (Len(b) + 1) \div 2 : 2 * k <= Len(b) => 2 * k \in 1 .. Len(b)
  OBVIOUS
<1>3. \A k \in 1 .. (Len(b) + 1) \div 2 :
         Register(b[2 * k - 1], IF 2 * k <= Len(b) THEN b[2 * k] ELSE stale) \in Word
  BY <1>1, <1>2, WordFacts
<1> QED
  BY <1>1, <1>3 DEF RegistersOf

\* Whole registers in front stay as they are.
LEMMA RegistersSplit ==
    ASSUME NEW m \in Nat, NEW n \in Nat, NEW b \in Seq(Byte), Len(b) = 2 * m,
           NEW c \in Seq(Byte), Len(c) = 2 * n, NEW stale \in Byte
    PROVE  /\ RegistersOf(b \o c, stale) = RegistersOf(b, stale) \o RegistersOf(c, stale)
           /\ Len(b \o c) = 2 * (m + n)
<1> DEFINE R(x) == RegistersOf(x, stale)
<1>1. /\ Len(b \o c) = 2 * (m + n) /\ (2 * (m + n) + 1) \div 2 = m + n
      /\ (2 * m + 1) \div 2 = m /\ (2 * n + 1) \div 2 = n
  OBVIOUS
<1>2. /\ Len(R(b)) = m /\ R(b) \in Seq(Word) /\ Len(R(c)) = n /\ R(c) \in Seq(Word)
      /\ R(b \o c) \in Seq(Word) /\ Len(R(b \o c)) = m + n
  <2>1. ASSUME NEW x \in Seq(Byte), NEW j \in Nat, Len(x) = 2 * j, (2 * j + 1) \div 2 = j
        PROVE  R(x) \in Seq(Word) /\ Len(R(x)) = j
    <3>1. Len(R(x)) = j
      BY <2>1 DEF RegistersOf
    <3> QED
      BY <3>1, RegistersOfSeq
  <2>2. b \o c \in Seq(Byte) /\ m + n \in Nat
    BY Concat
  <2> HIDE DEF R
  <2> QED
    BY <1>1, <2>1, <2>2
<1>3. ASSUME NEW k \in 1 .. m PROVE R(b \o c)[k] = R(b)[k]
  <2>1. 2 * k - 1 \in 1 .. Len(b) /\ 2 * k \in 1 .. Len(b) /\ 2 * k <= Len(b \o c) /\ 2 * k <= Len(b)
    BY <1>1
  <2>2. (b \o c)[2 * k - 1] = b[2 * k - 1] /\ (b \o c)[2 * k] = b[2 * k]
    BY <2>1, Concat
  <2>3. k \in 1 .. (Len(b) + 1) \div 2 /\ k \in 1 .. (Len(b \o c) + 1) \div 2
    BY <1>1
  <2> QED
    BY <2>1, <2>2, <2>3 DEF RegistersOf
<1>4. ASSUME NEW k \in 1 .. n PROVE R(b \o c)[m + k] = R(c)[k]
  <2>1. /\ 2 * k - 1 \in 1 .. Len(c) /\ 2 * k \in 1 .. Len(c) /\ 2 * (m + k) <= Len(b \o c)
        /\ 2 * k <= Len(c)
        /\ 2 * (m + k) - 1 = Len(b) + (2 * k - 1) /\ 2 * (m + k) = Len(b) + 2 * k
    BY <1>1
  <2>2. (b \o c)[2 * (m + k) - 1] = c[2 * k - 1] /\ (b \o c)[2 * (m + k)] = c[2 * k]
    <3>1. \A j \in 1 .. Len(c) : (b \o c)[Len(b) + j] = c[j]
      BY Concat
    <3> QED
      BY <2>1, <3>1
  <2>3. k \in 1 .. (Len(c) + 1) \div 2 /\ m + k \in 1 .. (Len(b \o c) + 1) \div 2
    BY <1>1
  <2> QED
    BY <2>1, <2>2, <2>3 DEF RegistersOf
<1> HIDE DEF R
<1>5. R(b \o c) = R(b) \o R(c)
  BY <1>2, <1>3, <1>4, ConcatIs
<1> QED
  BY <1>1, <1>5 DEF R

\* The buffer as the literals of a block go into it.
Buffers == [size : Nat, bytes : Seq(Byte)]
Fills(buf, b) ==
    /\ buf[0] = EmptyBuffer
    /\ \A k \in 1 .. Len(b) : buf[k] = AddLiteral(buf[k - 1], b[k])

LEMMA BufferTyped ==
    ASSUME NEW l, IsLiteral(l), NEW buf \in Buffers
    PROVE  AddLiteral(buf, l) \in Buffers
<1>1. /\ LiteralBytes(l) \in Seq(Byte) /\ buf.size \in Nat /\ buf.bytes \in Seq(Byte)
      /\ Len(buf.bytes) + BufferSize \in Nat
  BY LiteralTyped, BufferSizeAssumption DEF Buffers
<1>2. buf.bytes \o LiteralBytes(l) \in Seq(Byte)
  BY <1>1, Concat
<1> QED
  BY <1>1, <1>2 DEF AddLiteral, Buffers

LEMMA BlockFills ==
    ASSUME NEW b \in Seq(Literals)
    PROVE  \E buf \in [0 .. Len(b) -> Buffers] :
              Fills(buf, b) /\ BlockBytes(b) = buf[Len(b)].bytes
<1> DEFINE N == Len(b)
           base == EmptyBuffer
           step == [k \in 1 .. N |-> [x \in Buffers |-> AddLiteral(x, b[k])]]
<1>1. N \in Nat /\ base \in Buffers
  BY BufferSizeAssumption DEF EmptyBuffer, Buffers
<1>2. \A k \in 1 .. N : \A x \in Buffers : step[k][x] = AddLiteral(x, b[k]) /\ step[k][x] \in Buffers
  <2> TAKE k \in 1 .. N
  <2> TAKE x \in Buffers
  <2>1. b[k] \in Literals
    OBVIOUS
  <2>2. AddLiteral(x, b[k]) \in Buffers
    BY <2>1, BufferTyped, LiteralsAssumption
  <2> QED
    BY <2>2
<1> HIDE DEF step, base
<1>3. PICK buf \in [0 .. N -> Buffers] : Follows(buf, base, step, N)
  <2> HIDE DEF N
  <2> QED
    BY <1>1, <1>2, Recursion
<1>4. ASSUME NEW k \in 1 .. N PROVE buf[k] = AddLiteral(buf[k - 1], b[k])
  <2>1. k - 1 \in 0 .. N /\ buf[k] = step[k][buf[k - 1]]
    BY <1>3 DEF Follows
  <2> QED
    BY <1>2, <2>1
<1>5. buf[0] = EmptyBuffer
  BY <1>3 DEF Follows, base
<1> DEFINE F(f) == [j \in 0 .. N |-> IF j = 0 THEN EmptyBuffer ELSE AddLiteral(f[j - 1], b[j])]
           filled == CHOOSE f : f = F(f)
<1>6. BlockBytes(b) = filled[N].bytes
  BY DEF BlockBytes
<1>7. filled = F(filled)
  <2>1. buf = F(buf)
    <3>1. ASSUME NEW j \in 0 .. N
          PROVE  buf[j] = IF j = 0 THEN EmptyBuffer ELSE AddLiteral(buf[j - 1], b[j])
      <4>1. CASE j = 0
        BY <1>5, <4>1
      <4>2. CASE j # 0
        BY <1>4, <4>2
      <4> QED
        BY <4>1, <4>2
    <3> QED
      BY <3>1
  <2> HIDE DEF F
  <2> QED
    BY <2>1
<1> HIDE DEF filled
<1>8. \A j \in 0 .. N : filled[j] = IF j = 0 THEN EmptyBuffer ELSE AddLiteral(filled[j - 1], b[j])
  BY <1>7
<1> DEFINE Same == {j \in 0 .. N : filled[j] = buf[j]}
<1>9. ASSUME NEW j \in 1 .. N, j - 1 \in Same PROVE j \in Same
  <2>1. filled[j - 1] = buf[j - 1] /\ j \in 0 .. N /\ j # 0
    BY <1>9
  <2>2. filled[j] = AddLiteral(filled[j - 1], b[j]) /\ buf[j] = AddLiteral(buf[j - 1], b[j])
    BY <1>4, <1>8, <2>1
  <2>3. filled[j] = buf[j]
    BY <2>1, <2>2
  <2> QED
    BY <2>1, <2>3
<1>10. N \in Same
  <2>1. 0 \in Same
    BY <1>5, <1>8
  <2> HIDE DEF Same, N
  <2>2. 0 .. N \subseteq Same
    BY <1>1, <1>9, <2>1, UpTo
  <2> QED
    BY <1>1, <2>2
<1> QED
  BY <1>3, <1>4, <1>5, <1>6, <1>10 DEF Fills

\* What the parser makes of a block is a sequence of bytes.
LEMMA BlockTyped ==
    ASSUME NEW b \in Seq(Literals) PROVE BlockBytes(b) \in Seq(Byte)
  BY BlockFills DEF Buffers

\* A supported literal is not left out, however full the buffer is.
LEMMA SupportedFits ==
    ASSUME NEW l, IsLiteral(l), Supported(l), NEW buf \in Buffers
    PROVE  AddLiteral(buf, l).bytes = buf.bytes \o LiteralBytes(l)
<1>1. PICK m \in Nat : Len(LiteralBytes(l)) = 2 * m /\ 2 * m <= BufferSize
  BY SupportedLiteral
<1>2. buf.size \in Nat /\ Len(buf.bytes) \in Nat /\ BufferSize \in Nat /\ 2 * m \in Nat
  BY BufferSizeAssumption DEF Buffers
<1>3. CASE buf.size - Len(buf.bytes) < Len(LiteralBytes(l))
  <2>1. ~((Len(buf.bytes) + BufferSize) - Len(buf.bytes) < Len(LiteralBytes(l)))
    BY <1>1, <1>2
  <2> QED
    BY <1>3, <2>1 DEF AddLiteral
<1>4. CASE ~(buf.size - Len(buf.bytes) < Len(LiteralBytes(l)))
  BY <1>4 DEF AddLiteral
<1> QED
  BY <1>3, <1>4

-----------------------------------------------------------------------------
\* What is written to the map

IsSupported(b) == \A j \in 1 .. Len(b) : Supported(b[j])

\* The registers of a supported block are those of its literals.
LEMMA BlockServed ==
    ASSUME NEW b \in Seq(Literals), IsSupported(b), NEW stale \in Byte
    PROVE  /\ RegistersOf(BlockBytes(b), stale) = WrittenBlock(b)
           /\ WrittenBlock(b) \in Seq(Word)
<1> DEFINE N == Len(b)
           s == [j \in 1 .. N |-> Registers(b[j])]
           R(x) == RegistersOf(x, stale)
<1>1. N \in Nat /\ \A j \in 1 .. N : IsLiteral(b[j]) /\ Supported(b[j])
  BY LiteralsAssumption DEF IsSupported
<1>2. ASSUME NEW j \in 1 .. N
      PROVE  \E m \in Nat : /\ Len(LiteralBytes(b[j])) = 2 * m
                            /\ s[j] \in Seq(Word) /\ R(LiteralBytes(b[j])) = s[j]
                            /\ LiteralBytes(b[j]) \in Seq(Byte)
  BY <1>1, SupportedLiteral, LiteralTyped
<1>3. s \in Seq(Seq(Word)) /\ Len(s) = N
  <2>1. \A j \in 1 .. N : s[j] \in Seq(Word)
    BY <1>2
  <2> HIDE DEF R
  <2> QED
    BY <1>1, <2>1
<1>4. PICK g \in [0 .. N -> Seq(Word)] : Runs(g, s) /\ WrittenBlock(b) = g[N]
  <2>1. WrittenBlock(b) = FlattenSeq(s)
    BY DEF WrittenBlock
  <2> HIDE DEF s
  <2> QED
    BY <1>3, <2>1, Flatten
<1>5. PICK buf \in [0 .. N -> Buffers] : Fills(buf, b) /\ BlockBytes(b) = buf[N].bytes
  BY BlockFills
<1> DEFINE Whole(j) == R(buf[j].bytes) = g[j] /\ \E m \in Nat : Len(buf[j].bytes) = 2 * m
           T == {j \in 0 .. N : Whole(j)}
<1>6. Whole(0)
  <2>1. buf[0].bytes = <<>> /\ g[0] = <<>>
    BY <1>4, <1>5 DEF Runs, Fills, EmptyBuffer
  <2>2. Len(<<>>) = 2 * 0 /\ (Len(<<>>) + 1) \div 2 = 0
    OBVIOUS
  <2>3. R(<<>>) = <<>>
    BY <2>2 DEF RegistersOf
  <2> QED
    BY <2>1, <2>2, <2>3
<1>7. ASSUME NEW j \in 1 .. N, j - 1 \in T PROVE j \in T
  <2>1. PICK m \in Nat : Len(buf[j - 1].bytes) = 2 * m /\ R(buf[j - 1].bytes) = g[j - 1]
    BY <1>7
  <2>2. PICK n \in Nat : /\ Len(LiteralBytes(b[j])) = 2 * n
                         /\ s[j] \in Seq(Word) /\ R(LiteralBytes(b[j])) = s[j]
                         /\ LiteralBytes(b[j]) \in Seq(Byte)
    BY <1>2
  <2>3. j \in 0 .. N /\ j - 1 \in 0 .. N
    OBVIOUS
  <2>4. buf[j - 1] \in Buffers /\ buf[j - 1].bytes \in Seq(Byte)
    BY <2>3 DEF Buffers
  <2>5. buf[j].bytes = buf[j - 1].bytes \o LiteralBytes(b[j])
    <3>1. buf[j] = AddLiteral(buf[j - 1], b[j])
      BY <1>5 DEF Fills
    <3> QED
      BY <1>1, <2>4, <3>1, SupportedFits
  <2>6. g[j] = g[j - 1] \o s[j]
    BY <1>3, <1>4 DEF Runs
  <2>7. /\ RegistersOf(buf[j].bytes, stale)
             = RegistersOf(buf[j - 1].bytes, stale) \o RegistersOf(LiteralBytes(b[j]), stale)
        /\ Len(buf[j].bytes) = 2 * (m + n)
    <3> DEFINE x == buf[j - 1].bytes
               y == LiteralBytes(b[j])
    <3>1. x \in Seq(Byte) /\ y \in Seq(Byte) /\ Len(x) = 2 * m /\ Len(y) = 2 * n
      BY <2>1, <2>2, <2>4
    <3>2. buf[j].bytes = x \o y
      BY <2>5
    <3> HIDE DEF x, y
    <3>3. /\ RegistersOf(x \o y, stale) = RegistersOf(x, stale) \o RegistersOf(y, stale)
          /\ Len(x \o y) = 2 * (m + n)
      BY <3>1, RegistersSplit
    <3> QED
      BY <3>2, <3>3 DEF x, y
  <2> HIDE DEF s
  <2>8. Whole(j)
    <3>1. m + n \in Nat
      OBVIOUS
    <3> QED
      BY <2>1, <2>2, <2>6, <2>7, <3>1
  <2> HIDE DEF Whole
  <2> QED
    BY <2>3, <2>8
<1>8. Whole(N)
  <2> HIDE DEF Whole
  <2>1. 0 \in T
    BY <1>1, <1>6
  <2> HIDE DEF T, N
  <2>2. 0 .. N \subseteq T
    BY <1>1, <1>7, <2>1, UpTo
  <2>3. N \in T
    BY <1>1, <2>2
  <2> QED
    BY <2>3 DEF T
<1>9. g[N] \in Seq(Word)
  BY <1>1, <1>4
<1> HIDE DEF N
<1> QED
  BY <1>4, <1>5, <1>8, <1>9

LEMMA BlocksFacts ==
    ASSUME NEW bs \in DataBlockLists
    PROVE  Len(bs) \in Nat /\ \A k \in 1 .. Len(bs) : bs[k] \in Seq(Literals)
  BY BlocksAssumption

\* The registers of all blocks are words, whatever the literals are.
LEMMA CopiedTyped ==
    ASSUME NEW bs \in DataBlockLists, NEW stale \in Byte
    PROVE  Copied(bs, stale) \in Seq(Word)
<1> DEFINE s == [k \in 1 .. Len(bs) |-> RegistersOf(BlockBytes(bs[k]), stale)]
<1>1. \A k \in 1 .. Len(bs) : s[k] \in Seq(Word)
  BY BlocksFacts, BlockTyped, RegistersOfSeq
<1>2. s \in Seq(Seq(Word))
  <2> DEFINE S == Seq(Word)
  <2>1. s \in [1 .. Len(bs) -> S]
    BY <1>1
  <2> HIDE DEF S, s
  <2>2. s \in Seq(S)
    BY <2>1, BlocksFacts, FunctionIsSeq
  <2> QED
    BY <2>2 DEF S
<1>3. Copied(bs, stale) = FlattenSeq(s)
  BY DEF Copied
<1> HIDE DEF s
<1>4. PICK g \in [0 .. Len(s) -> Seq(Word)] : FlattenSeq(s) = g[Len(s)]
  BY <1>2, Flatten
<1>5. Len(s) \in 0 .. Len(s)
  BY <1>2
<1> QED
  BY <1>3, <1>4, <1>5

LEMMA ImageTyped ==
    ASSUME NEW bs \in DataBlockLists, NEW stale \in Byte
    PROVE  ImageOf(bs, stale) \in Seq(Word)
<1>1. Copied(bs, stale) \in Seq(Word)
  BY CopiedTyped
<1>2. Signature \o Copied(bs, stale) \in Seq(Word)
  BY <1>1, WordFacts, Concat
<1>3. (Signature \o Copied(bs, stale)) \o <<MaxWord, 0>> \in Seq(Word)
  BY <1>2, WordFacts, Concat
<1> QED
  BY <1>3 DEF ImageOf

LEMMA ImageWritten ==
    ASSUME NEW bs \in DataBlockLists, WellWritten(bs), NEW stale \in Byte
    PROVE  /\ ImageOf(bs, stale) = Signature \o Written(bs) \o <<MaxWord, 0>>
           /\ \A k \in 1 .. Len(bs) : WrittenBlock(bs[k]) \in Seq(Word)
<1> DEFINE s == [k \in 1 .. Len(bs) |-> RegistersOf(BlockBytes(bs[k]), stale)]
           w == [k \in 1 .. Len(bs) |-> WrittenBlock(bs[k])]
<1>1. ASSUME NEW k \in 1 .. Len(bs)
      PROVE  s[k] = w[k] /\ WrittenBlock(bs[k]) \in Seq(Word)
  <2>1. bs[k] \in Seq(Literals) /\ IsSupported(bs[k])
    BY BlocksFacts DEF WellWritten, IsSupported
  <2> QED
    BY <2>1, BlockServed
<1>2. s = w
  BY <1>1
<1>3. Copied(bs, stale) = FlattenSeq(s) /\ Written(bs) = FlattenSeq(w)
  BY DEF Copied, Written
<1> HIDE DEF s, w
<1>4. ImageOf(bs, stale) = Signature \o Written(bs) \o <<MaxWord, 0>>
  BY <1>2, <1>3 DEF ImageOf
<1> QED
  BY <1>1, <1>4

LEMMA MapTyped ==
    ASSUME NEW image \in Seq(Word)
    PROVE  /\ Map(image) \in [1 .. MapSize -> Word]
           /\ \A a \in 1 .. MapSize :
                 Map(image)[a] = IF a <= Len(image) THEN image[a] ELSE 0
<1>1. MapSize \in Nat /\ Zeros \in Seq(Word) /\ Len(Zeros) = MapSize
  <2>1. MapSize \in Nat
    BY ServerAssumption
  <2>2. Zeros \in [1 .. MapSize -> Word]
    BY WordFacts DEF Zeros
  <2> QED
    BY <2>1, <2>2, FunctionIsSeq
<1> DEFINE all == image \o Zeros
<1>2. /\ all \in Seq(Word) /\ Len(all) = Len(image) + MapSize
      /\ \A k \in 1 .. Len(image) : all[k] = image[k]
      /\ \A k \in 1 .. MapSize : all[Len(image) + k] = Zeros[k]
  <2> DEFINE zeros == Zeros
  <2>1. zeros \in Seq(Word)
    BY <1>1
  <2> HIDE DEF zeros
  <2>2. /\ image \o zeros \in Seq(Word) /\ Len(image \o zeros) = Len(image) + Len(zeros)
        /\ \A k \in 1 .. Len(image) : (image \o zeros)[k] = image[k]
        /\ \A k \in 1 .. Len(zeros) : (image \o zeros)[Len(image) + k] = zeros[k]
    BY <2>1, Concat
  <2> QED
    BY <1>1, <2>2 DEF zeros
<1>3. Map(image) = SubSeq(all, 1, MapSize)
  BY DEF Map
<1> HIDE DEF all
<1>4. Map(image) \in [1 .. MapSize -> Word] /\ \A a \in 1 .. MapSize : Map(image)[a] = all[a]
  <2>1. 0 \in Nat /\ 0 + MapSize <= Len(all) /\ 0 + 1 = 1 /\ 0 + MapSize = MapSize
    BY <1>1, <1>2
  <2>2. /\ SubSeq(all, 0 + 1, 0 + MapSize) \in Seq(Word)
        /\ Len(SubSeq(all, 0 + 1, 0 + MapSize)) = MapSize
        /\ \A k \in 1 .. MapSize : SubSeq(all, 0 + 1, 0 + MapSize)[k] = all[0 + k]
    BY <1>1, <1>2, <2>1, SubSeqIs
  <2>3. \A k \in 1 .. MapSize : 0 + k = k
    BY <1>1
  <2>4. SubSeq(all, 0 + 1, 0 + MapSize) = Map(image)
    BY <1>3, <2>1
  <2> QED
    BY <2>2, <2>3, <2>4
<1>5. ASSUME NEW a \in 1 .. MapSize
      PROVE  all[a] = IF a <= Len(image) THEN image[a] ELSE 0
  <2>1. CASE a <= Len(image)
    BY <1>2, <2>1
  <2>2. CASE ~(a <= Len(image))
    <3>1. a - Len(image) \in 1 .. MapSize /\ Len(image) + (a - Len(image)) = a
      BY <1>1, <2>2
    <3>2. all[Len(image) + (a - Len(image))] = Zeros[a - Len(image)]
      BY <1>2, <3>1
    <3> QED
      BY <2>2, <3>1, <3>2 DEF Zeros
  <2> QED
    BY <2>1, <2>2
<1> QED
  BY <1>4, <1>5

-----------------------------------------------------------------------------
\* The inductive invariant

\* The map holds the blocks as soon as anybody can ask for it.
Filled == \E stale \in StaleByte : tab = Map(ImageOf(blocks, stale))
MapInv ==
    \/ Filled
    \/ /\ pc \in {"init", "setup", "returned"} /\ tab = Zeros
       /\ \A c \in Connections : conn[c] = "away"

\* Where the server is tells what it holds.
ServerInv ==
    /\ pc \in {"init", "setup"} => \A c \in Connections : conn[c] = "away"
    /\ pc \in {"init", "setup", "listen"} => sockets = 0 /\ backlog = <<>>
    /\ pc # "returned" => status = "running"

\* A connection is in one place at most; the serial line is always served.
PlaceInv ==
    /\ backlog \in Seq(Connections)
    /\ \A i, j \in 1 .. Len(backlog) : backlog[i] = backlog[j] => i = j
    /\ \A i \in 1 .. Len(backlog) : conn[backlog[i]] # "away" /\ backlog[i] # serving
    /\ serving # None => conn[serving] # "away"
    /\ transport = "RTU" =>
          /\ backlog = <<>>
          /\ \A c \in Connections : conn[c] # "closed" /\ (conn[c] = "open" => serving = c)

\* A question is on its way, in the server's buffer, answered or lost: never
\* two of these.
LinkInv(c) ==
    /\ conn[c] # "open" => asked[c] = None /\ answer[c] = None
    /\ conn[c] = "away" => sent[c] = None
    /\ conn[c] = "open" /\ sent[c] # None => asked[c] = sent[c] /\ answer[c] = None
    /\ answer[c] # None => asked[c] # None /\ answer[c] = Answer(asked[c])
    /\ pc = "reply" /\ serving = c =>
          sent[c] = None /\ answer[c] = None /\ (conn[c] = "open" => asked[c] = q)

IInv ==
    /\ TypeOK
    /\ blocks \in DataBlockLists
    /\ MapInv
    /\ ServerInv
    /\ PlaceInv
    /\ \A c \in Connections : LinkInv(c)

\* With the map unchanged, so is every answer.
LEMMA MapKept ==
    ASSUME tab' = tab, blocks' = blocks
    PROVE  /\ Filled' = Filled
           /\ \A r : Answer(r)' = Answer(r)
  BY DEF Filled, Answer

LEMMA AnswerFacts ==
    ASSUME tab \in [1 .. MapSize -> Word], NEW r \in Requests
    PROVE  /\ Answer(r) \in Seq(Word)
           /\ r.addr + r.n > MapSize => Answer(r) = <<>>
           /\ ~(r.addr + r.n > MapSize) =>
                 /\ Len(Answer(r)) = r.n
                 /\ \A k \in 1 .. r.n : r.addr + k \in 1 .. MapSize
                                        /\ Answer(r)[k] = tab[r.addr + k]
<1>1. MapSize \in Nat /\ r.addr \in Nat /\ r.n \in Nat
  BY ServerAssumption
<1>2. tab \in Seq(Word) /\ Len(tab) = MapSize
  BY <1>1, FunctionIsSeq
<1>3. CASE r.addr + r.n > MapSize
  BY <1>3 DEF Answer
<1>4. CASE ~(r.addr + r.n > MapSize)
  <2>1. r.addr + r.n <= Len(tab)
    BY <1>1, <1>2, <1>4
  <2>2. Answer(r) = SubSeq(tab, r.addr + 1, r.addr + r.n)
    BY <1>4 DEF Answer
  <2>3. PICK m \in Nat, n \in Nat : m = r.addr /\ n = r.n
    BY <1>1
  <2>4. /\ SubSeq(tab, m + 1, m + n) \in Seq(Word) /\ Len(SubSeq(tab, m + 1, m + n)) = n
        /\ \A k \in 1 .. n : SubSeq(tab, m + 1, m + n)[k] = tab[m + k]
    <3>1. m + n <= Len(tab)
      BY <2>1, <2>3
    <3> DEFINE map == tab
    <3>2. map \in Seq(Word) /\ m + n <= Len(map)
      BY <1>2, <3>1
    <3> HIDE DEF map
    <3>3. /\ SubSeq(map, m + 1, m + n) \in Seq(Word) /\ Len(SubSeq(map, m + 1, m + n)) = n
          /\ \A k \in 1 .. n : SubSeq(map, m + 1, m + n)[k] = map[m + k]
      BY <3>2, SubSeqIs
    <3> QED
      BY <3>3 DEF map
  <2>5. \A k \in 1 .. n : m + k \in 1 .. MapSize
    BY <1>2, <2>1, <2>3
  <2> QED
    BY <1>4, <2>2, <2>3, <2>4, <2>5
<1> QED
  BY <1>3, <1>4

LEMMA InitInv == Init => IInv
<1> SUFFICES ASSUME Init PROVE IInv
  OBVIOUS
<1> USE DEF Init
<1>1. TypeOK
  <2>1. MapSize \in Nat /\ 0 \in Word
    BY ServerAssumption, WordFacts
  <2>2. tab \in [1 .. MapSize -> Word]
    BY <2>1 DEF Zeros
  <2>3. sockets \in 0 .. MaxSockets /\ Len(backlog) <= Backlog
    BY ServerAssumption
  <2> QED
    BY <2>2, <2>3 DEF TypeOK
<1>2. blocks \in DataBlockLists /\ MapInv
  BY DEF MapInv
<1>3. ServerInv
  BY DEF ServerInv
<1>4. PlaceInv
  BY DEF PlaceInv
<1>5. \A c \in Connections : LinkInv(c)
  BY DEF LinkInv
<1> QED
  BY <1>1, <1>2, <1>3, <1>4, <1>5 DEF IInv

\* Before the server listens.
LEMMA SetupInv == IInv /\ (InitModbus \/ InitModbusFails) => IInv'
<1> SUFFICES ASSUME IInv, InitModbus \/ InitModbusFails PROVE IInv'
  OBVIOUS
<1> USE DEF IInv, InitModbus, InitModbusFails, Return, setupVars, clientVars
<1>1. /\ UNCHANGED <<transport, blocks, tab, conn, backlog, asked, sent, answer, serving,
                     sockets, q>>
      /\ pc = "init" /\ pc' \in {"setup", "returned"}
  OBVIOUS
<1>2. TypeOK'
  BY <1>1 DEF TypeOK
<1>3. MapInv'
  BY <1>1, MapKept DEF MapInv
<1>4. ServerInv'
  BY <1>1 DEF ServerInv
<1>5. PlaceInv'
  BY <1>1 DEF PlaceInv
<1>6. \A c \in Connections : LinkInv(c)'
  BY <1>1, MapKept DEF LinkInv, ServerInv
<1> QED
  BY <1>1, <1>2, <1>3, <1>4, <1>5, <1>6

LEMMA FillInv == IInv /\ FillMap => IInv'
<1> SUFFICES ASSUME IInv, FillMap PROVE IInv'
  OBVIOUS
<1> USE DEF IInv
<1>1. /\ UNCHANGED <<transport, blocks, backlog, asked, sent, answer, sockets, q>>
      /\ pc = "setup" /\ \A c \in Connections : conn[c] = "away"
      /\ sockets = 0 /\ backlog = <<>> /\ status = "running"
      /\ conn \in [Connections -> {"away", "open", "closed"}]
  BY DEF FillMap, setupVars, ServerInv, TypeOK
<1>2. PICK stale \in StaleByte : tab' = Map(ImageOf(blocks, stale))
  BY DEF FillMap
<1>3. /\ tab' \in [1 .. MapSize -> Word] /\ Filled'
  <2>1. stale \in Byte
    BY SMT DEF StaleByte, Byte
  <2>2. ImageOf(blocks, stale) \in Seq(Word)
    BY <2>1, ImageTyped
  <2> QED
    BY <1>1, <1>2, <2>2, MapTyped DEF Filled
<1>4. \/ /\ pc' = "returned" /\ status' = "crashed" /\ UNCHANGED <<serving, conn>>
      \/ /\ pc' = "listen" /\ UNCHANGED <<status, serving, conn>> /\ transport = "TCP"
      \/ /\ pc' = "receive" /\ UNCHANGED status /\ transport = "RTU"
         /\ \E c \in Connections : serving' = c /\ conn' = [conn EXCEPT ![c] = "open"]
  BY DEF FillMap, TypeOK
<1>5. serving = None
  BY <1>1 DEF TypeOK
<1>6. TypeOK'
  <2>1. \/ /\ pc' \in {"returned", "listen"} /\ UNCHANGED <<serving, conn>>
           /\ status' \in {"running", "crashed"}
        \/ /\ pc' = "receive" /\ UNCHANGED status
           /\ \E c \in Connections : /\ serving' = c /\ c # None
                                     /\ conn' = [conn EXCEPT ![c] = "open"]
    BY <1>1, <1>4, ServerAssumption
  <2> QED
    BY <1>1, <1>3, <1>5, <2>1 DEF TypeOK
<1>7. MapInv'
  BY <1>3 DEF MapInv
<1>8. ServerInv'
  BY <1>1, <1>4 DEF ServerInv
<1>9. PlaceInv'
  BY <1>1, <1>4, <1>5 DEF PlaceInv
<1>10. \A c \in Connections : LinkInv(c)'
  <2> TAKE c \in Connections
  <2>1. asked[c] = None /\ answer[c] = None /\ sent[c] = None /\ conn[c] = "away"
    BY <1>1 DEF LinkInv
  <2>2. conn'[c] = "open" => serving' = c
    BY <1>1, <1>4, <2>1
  <2> QED
    BY <1>1, <1>4, <2>1, <2>2 DEF LinkInv, Forgotten
<1> QED
  BY <1>1, <1>6, <1>7, <1>8, <1>9, <1>10

\* What the server does before it serves anybody, and when it gives up.
LEMMA ListenInv == IInv /\ (Listen \/ ListenFails \/ AcceptFails) => IInv'
<1> SUFFICES ASSUME IInv, Listen \/ ListenFails \/ AcceptFails PROVE IInv'
  OBVIOUS
<1> USE DEF IInv
<1>1. /\ UNCHANGED <<transport, blocks, tab, conn, backlog, asked, sent, answer, serving, q>>
      /\ \/ /\ pc = "listen" /\ pc' = "accept" /\ sockets' = 1 /\ UNCHANGED status
         \/ /\ pc = "listen" /\ pc' = "returned" /\ UNCHANGED sockets
            /\ status' = "success"
         \/ /\ pc = "accept" /\ pc' = "returned" /\ UNCHANGED sockets
            /\ status' = "failure"
  BY DEF Listen, ListenFails, AcceptFails, Return, setupVars, clientVars
<1>2. TypeOK'
  <2>1. 1 \in 0 .. MaxSockets
    BY ServerAssumption
  <2> QED
    BY <1>1, <2>1 DEF TypeOK
<1>3. MapInv'
  BY <1>1, MapKept DEF MapInv
<1>4. ServerInv'
  BY <1>1 DEF ServerInv
<1>5. PlaceInv'
  BY <1>1 DEF PlaceInv
<1>6. \A c \in Connections : LinkInv(c)'
  BY <1>1, MapKept DEF LinkInv, Forgotten
<1> QED
  BY <1>1, <1>2, <1>3, <1>4, <1>5, <1>6

LEMMA AcceptInv == IInv /\ Accept => IInv'
<1> SUFFICES ASSUME IInv, Accept PROVE IInv'
  OBVIOUS
<1> USE DEF IInv
<1>1. /\ UNCHANGED <<transport, blocks, tab, conn, asked, sent, answer, q, status>>
      /\ pc = "accept" /\ pc' = "receive" /\ serving = None
      /\ backlog # <<>> /\ serving' = Head(backlog) /\ backlog' = Tail(backlog)
      /\ sockets < MaxSockets /\ sockets' = sockets + 1
      /\ backlog \in Seq(Connections)
  BY DEF Accept, setupVars, TypeOK, PlaceInv
<1>2. /\ Len(backlog) \in Nat \ {0} /\ backlog' \in Seq(Connections)
      /\ Len(backlog') = Len(backlog) - 1
      /\ \A i \in 1 .. Len(backlog') : i + 1 \in 1 .. Len(backlog) /\ backlog'[i] = backlog[i + 1]
      /\ 1 \in 1 .. Len(backlog) /\ serving' = backlog[1] /\ serving' \in Connections
  BY <1>1
<1>3. serving' # None
  BY <1>2, ServerAssumption
<1>4. TypeOK'
  <2>1. \A i \in 1 .. Len(backlog') : backlog'[i] \in Connections
    BY <1>2
  <2>2. Len(backlog') <= Backlog
    BY <1>2, ServerAssumption DEF TypeOK
  <2>3. sockets' \in 0 .. MaxSockets
    BY <1>1, ServerAssumption DEF TypeOK
  <2> QED
    BY <1>1, <1>2, <1>3, <2>1, <2>2, <2>3 DEF TypeOK
<1>5. MapInv'
  BY <1>1, MapKept DEF MapInv
<1>6. ServerInv'
  BY <1>1 DEF ServerInv
<1>7. PlaceInv'
  <2>1. transport # "RTU"
    BY <1>1 DEF PlaceInv
  <2>2. \A i, j \in 1 .. Len(backlog') : backlog'[i] = backlog'[j] => i = j
    <3> TAKE i, j \in 1 .. Len(backlog')
    <3> HAVE backlog'[i] = backlog'[j]
    <3>1. i + 1 = j + 1
      BY <1>2 DEF PlaceInv
    <3> QED
      BY <3>1
  <2>3. \A i \in 1 .. Len(backlog') : conn'[backlog'[i]] # "away" /\ backlog'[i] # serving'
    <3> TAKE i \in 1 .. Len(backlog')
    <3>1. /\ i + 1 \in 1 .. Len(backlog) /\ i + 1 # 1 /\ conn' = conn
          /\ backlog'[i] = backlog[i + 1]
      BY <1>1, <1>2
    <3>2. backlog[i + 1] # backlog[1] /\ conn[backlog[i + 1]] # "away"
      BY <1>2, <3>1 DEF PlaceInv
    <3> QED
      BY <1>2, <3>1, <3>2
  <2>4. conn'[serving'] # "away"
    BY <1>1, <1>2 DEF PlaceInv
  <2> QED
    BY <1>1, <1>2, <2>1, <2>2, <2>3, <2>4 DEF PlaceInv
<1>8. ASSUME NEW c \in Connections PROVE LinkInv(c)'
  <2>1. Forgotten(c)' => Forgotten(c)
    <3> SUFFICES ASSUME Forgotten(c)', ~Forgotten(c) PROVE FALSE
      OBVIOUS
    <3>1. c # None
      BY ServerAssumption
    <3>2. PICK i \in 1 .. Len(backlog) : backlog[i] = c
      BY <1>1, <3>1 DEF Forgotten, Contains
    <3>3. CASE i = 1
      BY <1>2, <3>2, <3>3 DEF Forgotten
    <3>4. CASE i # 1
      <4>1. i - 1 \in 1 .. Len(backlog') /\ (i - 1) + 1 = i
        BY <1>2, <3>4
      <4>2. backlog'[i - 1] = c
        BY <1>2, <3>2, <4>1
      <4> QED
        BY <4>1, <4>2 DEF Forgotten, Contains
    <3> QED
      BY <3>3, <3>4
  <2> QED
    BY <1>1, <2>1, MapKept DEF LinkInv
<1> QED
  BY <1>1, <1>4, <1>5, <1>6, <1>7, <1>8

LEMMA ServingFacts ==
    ASSUME IInv, pc \in {"receive", "reply"}
    PROVE  /\ serving \in Connections /\ serving # None
           /\ conn[serving] \in {"open", "closed"}
           /\ Filled /\ status = "running"
           /\ transport = "RTU" => conn[serving] = "open"
<1>1. serving \in Connections /\ serving # None
  BY DEF IInv, TypeOK
<1>2. conn[serving] \in {"open", "closed"}
  BY <1>1 DEF IInv, TypeOK, PlaceInv
<1> QED
  BY <1>1, <1>2 DEF IInv, MapInv, ServerInv, PlaceInv

LEMMA ReceiveInv == IInv /\ Receive => IInv'
<1> SUFFICES ASSUME IInv, Receive PROVE IInv'
  OBVIOUS
<1> USE DEF IInv
<1>1. /\ UNCHANGED <<transport, blocks, tab, conn, backlog, asked, answer, serving, sockets,
                     status>>
      /\ pc = "receive" /\ pc' = "reply" /\ q' = sent[serving] /\ q' # None
      /\ sent' = [sent EXCEPT ![serving] = None]
  BY DEF Receive, setupVars
<1>2. /\ serving \in Connections /\ serving # None /\ conn[serving] \in {"open", "closed"}
  BY <1>1, ServingFacts
<1>3. TypeOK'
  BY <1>1, <1>2 DEF TypeOK
<1>4. MapInv'
  BY <1>1, MapKept DEF MapInv
<1>5. ServerInv'
  BY <1>1 DEF ServerInv
<1>6. PlaceInv'
  BY <1>1 DEF PlaceInv
<1>7. ASSUME NEW c \in Connections PROVE LinkInv(c)'
  <2>1. sent'[c] = IF c = serving THEN None ELSE sent[c]
    BY <1>1 DEF TypeOK
  <2>2. CASE c = serving
    BY <1>1, <1>2, <2>1, <2>2, MapKept DEF LinkInv, Forgotten
  <2>3. CASE c # serving
    BY <1>1, <1>2, <2>1, <2>3, MapKept DEF LinkInv, Forgotten
  <2> QED
    BY <2>2, <2>3
<1> QED
  BY <1>1, <1>3, <1>4, <1>5, <1>6, <1>7

LEMMA ReplyInv == IInv /\ Reply => IInv'
<1> SUFFICES ASSUME IInv, Reply PROVE IInv'
  OBVIOUS
<1> USE DEF IInv
<1>1. /\ UNCHANGED <<transport, blocks, tab, conn, backlog, asked, sent, serving, sockets,
                     status>>
      /\ pc = "reply" /\ pc' = "receive" /\ q' = None /\ q # None
      /\ answer' = IF conn[serving] = "open"
                   THEN [answer EXCEPT ![serving] = Answer(q)] ELSE answer
  BY DEF Reply, setupVars, TypeOK
<1>2. /\ serving \in Connections /\ serving # None /\ conn[serving] \in {"open", "closed"}
  BY <1>1, ServingFacts
<1>3. TypeOK'
  <2>1. Answer(q) \in Seq(Word)
    BY <1>1, AnswerFacts DEF TypeOK
  <2>2. DOMAIN answer' = Connections
    BY <1>1 DEF TypeOK
  <2>3. \A c \in Connections : answer'[c] = None \/ answer'[c] \in Seq(Word)
    BY <1>1, <1>2, <2>1 DEF TypeOK
  <2> QED
    BY <1>1, <1>2, <2>2, <2>3 DEF TypeOK
<1>4. MapInv'
  BY <1>1, MapKept DEF MapInv
<1>5. ServerInv'
  BY <1>1 DEF ServerInv
<1>6. PlaceInv'
  BY <1>1 DEF PlaceInv
<1>7. ASSUME NEW c \in Connections PROVE LinkInv(c)'
  <2>1. CASE c = serving
    BY <1>1, <1>2, <2>1, MapKept DEF LinkInv, Forgotten
  <2>2. CASE c # serving
    BY <1>1, <1>2, <2>2, MapKept DEF LinkInv, Forgotten
  <2> QED
    BY <2>1, <2>2
<1> QED
  BY <1>1, <1>3, <1>4, <1>5, <1>6, <1>7

\* The inner loop is left with nothing on its way on the connection.
LEMMA LeaveInv == IInv /\ (ConnectionClosed \/ ReceiveFails \/ ReplyFails) => IInv'
<1> SUFFICES ASSUME IInv, ConnectionClosed \/ ReceiveFails \/ ReplyFails PROVE IInv'
  OBVIOUS
<1> USE DEF IInv
<1>1. /\ UNCHANGED <<transport, blocks, tab, backlog, asked, answer, sockets, status>>
      /\ pc \in {"receive", "reply"} /\ q' = None
      /\ conn' = IF conn[serving] = "closed" THEN [conn EXCEPT ![serving] = "away"] ELSE conn
      /\ IF transport = "TCP" THEN pc' = "accept" /\ serving' = None
         ELSE pc' = "receive" /\ UNCHANGED serving
  BY DEF ConnectionClosed, ReceiveFails, ReplyFails, NextConnection, Leave, setupVars, TypeOK
<1>2. /\ serving \in Connections /\ serving # None /\ conn[serving] \in {"open", "closed"}
      /\ Filled
      /\ transport = "RTU" => conn[serving] = "open"
  BY <1>1, ServingFacts
<1>3. /\ sent' \in [Connections -> Requests \union {None}]
      /\ sent'[serving] = None /\ \A c \in Connections \ {serving} : sent'[c] = sent[c]
  BY <1>1, <1>2 DEF ConnectionClosed, ReceiveFails, ReplyFails, TypeOK, LinkInv
<1>4. TypeOK'
  BY <1>1, <1>2, <1>3 DEF TypeOK
<1>5. MapInv'
  BY <1>1, <1>2, MapKept DEF MapInv
<1>6. ServerInv'
  BY <1>1 DEF ServerInv
<1>7. \A c \in Connections : conn'[c] = IF c = serving /\ conn[c] = "closed" THEN "away" ELSE conn[c]
  BY <1>1 DEF TypeOK
<1>8. PlaceInv'
  <2>1. ASSUME NEW i \in 1 .. Len(backlog)
        PROVE  conn'[backlog[i]] # "away" /\ backlog[i] # serving'
    <3>1. backlog[i] \in Connections /\ backlog[i] # serving /\ conn[backlog[i]] # "away"
      BY DEF PlaceInv
    <3> QED
      BY <1>1, <1>7, <3>1, ServerAssumption
  <2>2. serving' # None => conn'[serving'] # "away"
    <3>1. CASE transport = "TCP"
      BY <1>1, <3>1
    <3>2. CASE transport = "RTU"
      BY <1>1, <1>2, <1>7, <3>2
    <3> QED
      BY <3>1, <3>2 DEF TypeOK
  <2>3. transport' = "RTU" =>
          /\ backlog' = <<>>
          /\ \A c \in Connections : conn'[c] # "closed" /\ (conn'[c] = "open" => serving' = c)
    BY <1>1, <1>7 DEF PlaceInv
  <2> QED
    BY <1>1, <2>1, <2>2, <2>3 DEF PlaceInv
<1>9. ASSUME NEW c \in Connections PROVE LinkInv(c)'
  <2>1. CASE c = serving
    BY <1>1, <1>2, <1>3, <1>7, <2>1, MapKept DEF LinkInv
  <2>2. CASE c # serving
    BY <1>1, <1>2, <1>3, <1>7, <2>2, MapKept DEF LinkInv, Forgotten
  <2> QED
    BY <2>1, <2>2
<1> QED
  BY <1>1, <1>4, <1>5, <1>6, <1>8, <1>9

LEMMA ConnectInv == IInv /\ (\E c \in Connections : Connect(c)) => IInv'
<1> SUFFICES ASSUME IInv, NEW d \in Connections, Connect(d) PROVE IInv'
  OBVIOUS
<1> USE DEF IInv
<1>1. /\ UNCHANGED <<transport, blocks, pc, tab, asked, sent, answer, serving, sockets, q,
                     status>>
      /\ transport = "TCP" /\ pc \in {"accept", "receive", "reply"} /\ conn[d] = "away"
      /\ conn' = [conn EXCEPT ![d] = "open"]
      /\ Len(backlog) < Backlog /\ backlog' = Append(backlog, d)
      /\ backlog \in Seq(Connections)
  BY DEF Connect, setupVars, PlaceInv
<1>2. /\ Len(backlog) \in Nat /\ backlog' \in Seq(Connections)
      /\ Len(backlog') = Len(backlog) + 1 /\ backlog'[Len(backlog) + 1] = d
      /\ \A i \in 1 .. Len(backlog) : backlog'[i] = backlog[i]
  BY <1>1
<1>3. \A c \in Connections : conn'[c] = IF c = d THEN "open" ELSE conn[c]
  BY <1>1 DEF TypeOK
<1>4. TypeOK'
  <2>1. \A i \in 1 .. Len(backlog') : backlog'[i] \in Connections
    BY <1>2
  <2>2. Len(backlog') <= Backlog
    BY <1>1, <1>2, ServerAssumption
  <2>3. conn' \in [Connections -> {"away", "open", "closed"}]
    BY <1>1 DEF TypeOK
  <2> QED
    BY <1>1, <2>1, <2>2, <2>3 DEF TypeOK
<1>5. MapInv'
  BY <1>1, MapKept DEF MapInv
<1>6. ServerInv'
  BY <1>1 DEF ServerInv
<1>7. \A i \in 1 .. Len(backlog) : backlog[i] # d /\ backlog[i] \in Connections
  BY <1>1 DEF PlaceInv
<1>8. serving # d
  BY <1>1, ServerAssumption DEF PlaceInv
<1>9. PlaceInv'
  <2>1. \A i \in 1 .. Len(backlog') : i = Len(backlog) + 1 \/ i \in 1 .. Len(backlog)
    BY <1>2
  <2>2. \A i, j \in 1 .. Len(backlog') : backlog'[i] = backlog'[j] => i = j
    BY <1>2, <1>7, <2>1 DEF PlaceInv
  <2>3. \A i \in 1 .. Len(backlog') : conn'[backlog'[i]] # "away" /\ backlog'[i] # serving'
    BY <1>1, <1>2, <1>3, <1>7, <1>8, <2>1 DEF PlaceInv
  <2>4. serving' # None => conn'[serving'] # "away"
    BY <1>1, <1>3, <1>8 DEF PlaceInv, TypeOK
  <2> QED
    BY <1>1, <1>2, <2>2, <2>3, <2>4 DEF PlaceInv
<1>10. ASSUME NEW c \in Connections PROVE LinkInv(c)'
  <2>1. CASE c = d
    <3>1. ~Forgotten(c)'
      <4>1. Len(backlog) + 1 \in 1 .. Len(backlog')
        BY <1>2
      <4> QED
        BY <1>2, <2>1, <4>1 DEF Forgotten, Contains
    <3>2. asked[c] = None /\ answer[c] = None /\ sent[c] = None
      BY <1>1, <2>1 DEF LinkInv
    <3> QED
      BY <1>1, <1>8, <2>1, <3>1, <3>2 DEF LinkInv
  <2>2. CASE c # d
    <3>1. Forgotten(c)' => Forgotten(c)
      <4>1. \A i \in 1 .. Len(backlog) : i \in 1 .. Len(backlog')
        BY <1>2
      <4> QED
        BY <1>1, <1>2, <4>1 DEF Forgotten, Contains
    <3> QED
      BY <1>1, <1>3, <2>2, <3>1, MapKept DEF LinkInv
  <2> QED
    BY <2>1, <2>2
<1> QED
  BY <1>1, <1>4, <1>5, <1>6, <1>9, <1>10

LEMMA AskInv == IInv /\ (\E c \in Connections : Ask(c)) => IInv'
<1> SUFFICES ASSUME IInv, NEW d \in Connections, Ask(d) PROVE IInv'
  OBVIOUS
<1> USE DEF IInv
<1>1. /\ UNCHANGED <<transport, blocks, pc, tab, conn, backlog, answer, serving, sockets, q,
                     status>>
      /\ conn[d] = "open" /\ asked[d] = None
  BY DEF Ask, setupVars
<1>2. PICK r \in Requests : asked' = [asked EXCEPT ![d] = r] /\ sent' = [sent EXCEPT ![d] = r]
  BY DEF Ask
<1>3. TypeOK'
  BY <1>1, <1>2 DEF TypeOK
<1>4. MapInv'
  BY <1>1, MapKept DEF MapInv
<1>5. ServerInv'
  BY <1>1 DEF ServerInv
<1>6. PlaceInv'
  BY <1>1 DEF PlaceInv
<1>7. ASSUME NEW c \in Connections PROVE LinkInv(c)'
  <2>1. CASE c = d
    <3>1. answer[c] = None
      BY <1>1, <2>1 DEF LinkInv
    <3>2. ~(pc = "reply" /\ serving = c)
      BY <1>1, <2>1 DEF LinkInv, TypeOK
    <3>3. asked'[c] = sent'[c]
      BY <1>2, <2>1 DEF TypeOK
    <3> QED
      BY <1>1, <2>1, <3>1, <3>2, <3>3 DEF LinkInv
  <2>2. CASE c # d
    <3>1. asked'[c] = asked[c] /\ sent'[c] = sent[c]
      BY <1>2, <2>2 DEF TypeOK
    <3> QED
      BY <1>1, <3>1, MapKept DEF LinkInv, Forgotten
  <2> QED
    BY <2>1, <2>2
<1> QED
  BY <1>1, <1>3, <1>4, <1>5, <1>6, <1>7

\* A client takes its answer or stops waiting; its connection stays.
LEMMA TakeInv == IInv /\ (\E c \in Connections : Take(c) \/ TimesOut(c)) => IInv'
<1> SUFFICES ASSUME IInv, NEW d \in Connections, Take(d) \/ TimesOut(d) PROVE IInv'
  OBVIOUS
<1> USE DEF IInv
<1>1. /\ UNCHANGED <<transport, blocks, pc, tab, conn, backlog, sent, serving, sockets, q,
                     status>>
      /\ asked' = [asked EXCEPT ![d] = None]
  BY DEF Take, TimesOut, setupVars
<1>2. /\ DOMAIN answer' = Connections /\ answer'[d] = None
      /\ \A c \in Connections \ {d} : answer'[c] = answer[c]
  BY DEF Take, TimesOut, TypeOK
<1>3. asked'[d] = None /\ \A c \in Connections \ {d} : asked'[c] = asked[c]
  BY <1>1 DEF TypeOK
<1>4. TypeOK'
  <2>1. \A c \in Connections : answer'[c] = None \/ answer'[c] \in Seq(Word)
    BY <1>2 DEF TypeOK
  <2> QED
    BY <1>1, <1>2, <2>1 DEF TypeOK
<1>5. MapInv'
  BY <1>1, MapKept DEF MapInv
<1>6. ServerInv'
  BY <1>1 DEF ServerInv
<1>7. PlaceInv'
  BY <1>1 DEF PlaceInv
<1>8. ASSUME NEW c \in Connections PROVE LinkInv(c)'
  <2>1. CASE c = d
    <3>1. sent[c] = None \/ conn[c] # "open"
      BY <2>1 DEF Take, TimesOut, LinkInv
    <3>2. ~(pc = "reply" /\ serving = c /\ conn[c] = "open")
      BY <2>1 DEF Take, TimesOut, LinkInv, TypeOK
    <3>3. pc = "reply" /\ serving = c => sent[c] = None
      BY DEF LinkInv
    <3> QED
      BY <1>1, <1>2, <1>3, <2>1, <3>1, <3>2, <3>3 DEF LinkInv
  <2>2. CASE c # d
    <3>1. asked'[c] = asked[c] /\ answer'[c] = answer[c]
      BY <1>2, <1>3, <2>2
    <3> QED
      BY <1>1, <3>1, MapKept DEF LinkInv, Forgotten
  <2> QED
    BY <2>1, <2>2
<1> QED
  BY <1>1, <1>4, <1>5, <1>6, <1>7, <1>8

LEMMA DisconnectInv == IInv /\ (\E c \in Connections : Disconnect(c)) => IInv'
<1> SUFFICES ASSUME IInv, NEW d \in Connections, Disconnect(d) PROVE IInv'
  OBVIOUS
<1> USE DEF IInv
<1>1. /\ UNCHANGED <<transport, blocks, pc, tab, backlog, serving, sockets, q, status>>
      /\ transport = "TCP" /\ conn[d] = "open"
      /\ conn' = [conn EXCEPT ![d] = IF Forgotten(d) THEN "away" ELSE "closed"]
      /\ asked' = [asked EXCEPT ![d] = None] /\ answer' = [answer EXCEPT ![d] = None]
      /\ sent' = IF Forgotten(d) THEN [sent EXCEPT ![d] = None] ELSE sent
  BY DEF Disconnect, setupVars
<1>2. /\ conn'[d] = IF Forgotten(d) THEN "away" ELSE "closed"
      /\ asked'[d] = None /\ answer'[d] = None /\ DOMAIN answer' = Connections
      /\ \A c \in Connections \ {d} : /\ conn'[c] = conn[c] /\ asked'[c] = asked[c]
                                      /\ answer'[c] = answer[c] /\ sent'[c] = sent[c]
      /\ Forgotten(d) => sent'[d] = None
      /\ ~Forgotten(d) => sent' = sent
  BY <1>1 DEF TypeOK
<1>3. TypeOK'
  <2>1. \A c \in Connections : answer'[c] = None \/ answer'[c] \in Seq(Word)
    BY <1>2 DEF TypeOK
  <2>2. conn' \in [Connections -> {"away", "open", "closed"}]
    BY <1>1 DEF TypeOK
  <2> QED
    BY <1>1, <1>2, <2>1, <2>2 DEF TypeOK
<1>4. MapInv'
  BY <1>1, MapKept DEF MapInv
<1>5. ServerInv'
  BY <1>1 DEF ServerInv
<1>6. PlaceInv'
  <2>1. ASSUME NEW i \in 1 .. Len(backlog) PROVE conn'[backlog[i]] # "away"
    <3>1. backlog[i] \in Connections /\ conn[backlog[i]] # "away"
      BY DEF PlaceInv
    <3>2. backlog[i] = d => ~Forgotten(d)
      BY DEF Forgotten, Contains
    <3> QED
      BY <1>2, <3>1, <3>2
  <2>2. serving # None => conn'[serving] # "away"
    BY <1>2 DEF PlaceInv, TypeOK, Forgotten
  <2> QED
    BY <1>1, <2>1, <2>2 DEF PlaceInv
<1>7. ASSUME NEW c \in Connections PROVE LinkInv(c)'
  <2>1. CASE c = d
    BY <1>1, <1>2, <2>1 DEF LinkInv
  <2>2. CASE c # d
    <3>1. conn'[c] = conn[c] /\ asked'[c] = asked[c] /\ answer'[c] = answer[c]
          /\ sent'[c] = sent[c]
      BY <1>2, <2>2
    <3> QED
      BY <1>1, <3>1, MapKept DEF LinkInv, Forgotten
  <2> QED
    BY <2>1, <2>2
<1> QED
  BY <1>1, <1>3, <1>4, <1>5, <1>6, <1>7

LEMMA Unchanged == IInv /\ UNCHANGED vars => IInv'
<1> SUFFICES ASSUME IInv, UNCHANGED vars PROVE IInv'
  OBVIOUS
<1>1. UNCHANGED <<transport, blocks, pc, tab, conn, backlog, serving, sockets, asked, sent, q,
                  answer, status>>
  BY DEF vars, setupVars, clientVars
<1>2. TypeOK'
  BY <1>1 DEF IInv, TypeOK
<1>3. MapInv' /\ ServerInv' /\ PlaceInv'
  BY <1>1, MapKept DEF IInv, MapInv, ServerInv, PlaceInv
<1>4. \A c \in Connections : LinkInv(c)'
  BY <1>1, MapKept DEF IInv, LinkInv, Forgotten
<1> QED
  BY <1>1, <1>2, <1>3, <1>4 DEF IInv

\* The inductive invariant holds in every state.
THEOREM Invariant == Spec => []IInv
<1>1. Init => IInv
  BY InitInv
<1>2. IInv /\ [Next]_vars => IInv'
  <2> SUFFICES ASSUME IInv, [Next]_vars PROVE IInv'
    OBVIOUS
  <2>1. CASE InitModbus \/ InitModbusFails
    BY <2>1, SetupInv
  <2>2. CASE FillMap
    BY <2>2, FillInv
  <2>3. CASE Server
    BY <2>3, ListenInv, AcceptInv, ReceiveInv, ReplyInv, LeaveInv DEF Server
  <2>4. CASE \E c \in Connections : 
                Connect(c) \/ Ask(c) \/ Take(c) \/ TimesOut(c) \/ Disconnect(c)
    BY <2>4, ConnectInv, AskInv, TakeInv, DisconnectInv
  <2>5. CASE UNCHANGED vars
    BY <2>5, Unchanged
  <2> QED
    BY <2>1, <2>2, <2>3, <2>4, <2>5 DEF Next, Quiet
<1> QED
  BY <1>1, <1>2, PTL DEF Spec

\* The variables have their types; in particular the backlog and the sockets
\* stay within their limits, and the server answers only a request it holds.
THEOREM TypeCorrect == Spec => []TypeOK
  BY Invariant, PTL DEF IInv

-----------------------------------------------------------------------------
\* What the clients read

Image(bs) == Signature \o Written(bs) \o <<MaxWord, 0>>

\* A filled map holds well written blocks register for register.
LEMMA MapHolds ==
    ASSUME IInv, Filled, WellWritten(blocks)
    PROVE  /\ Image(blocks) \in Seq(Word)
           /\ \A a \in 1 .. MapSize :
                 tab[a] = IF a <= Len(Image(blocks)) THEN Image(blocks)[a] ELSE 0
<1>1. PICK stale \in StaleByte : tab = Map(ImageOf(blocks, stale))
  BY DEF Filled
<1>2. stale \in Byte
  BY SMT DEF StaleByte, Byte
<1>3. ImageOf(blocks, stale) = Image(blocks) /\ ImageOf(blocks, stale) \in Seq(Word)
  BY <1>2, ImageTyped, ImageWritten DEF IInv, Image
<1> QED
  BY <1>1, <1>3, MapTyped

\* An answer is the answer to the client's own question, from the map as the
\* data blocks were written.
THEOREM AnswersServe == Spec => []ServedAsWritten
<1>1. IInv => ServedAsWritten
  <2> SUFFICES ASSUME IInv, NEW c \in Connections, answer[c] # None, WellWritten(blocks)
               PROVE  /\ asked[c] # None
                      /\ (answer[c] = <<>>) = (asked[c].addr + asked[c].n > MapSize)
                      /\ \A image \in {Signature \o Written(blocks) \o <<MaxWord, 0>>} :
                            \A k \in 1 .. Len(answer[c]) :
                               answer[c][k] = IF asked[c].addr + k <= Len(image)
                                              THEN image[asked[c].addr + k] ELSE 0
    BY DEF ServedAsWritten
  <2>1. asked[c] # None /\ answer[c] = Answer(asked[c]) /\ conn[c] = "open"
    BY DEF IInv, LinkInv
  <2>2. Filled
    BY <2>1 DEF IInv, MapInv
  <2>3. asked[c] \in Requests /\ tab \in [1 .. MapSize -> Word]
    BY <2>1 DEF IInv, TypeOK
  <2> DEFINE r == asked[c]
             image == Image(blocks)
  <2>4. \A a \in 1 .. MapSize : tab[a] = IF a <= Len(image) THEN image[a] ELSE 0
    BY <2>2, MapHolds
  <2>5. r.addr \in Nat /\ r.n \in Nat \ {0} /\ MapSize \in Nat
    BY <2>3, ServerAssumption
  <2>6. /\ r.addr + r.n > MapSize => Answer(r) = <<>>
        /\ ~(r.addr + r.n > MapSize) =>
              /\ Len(Answer(r)) = r.n
              /\ \A k \in 1 .. r.n : r.addr + k \in 1 .. MapSize
                                     /\ Answer(r)[k] = tab[r.addr + k]
    BY <2>3, AnswerFacts
  <2> HIDE DEF image, r
  <2>7. (Answer(r) = <<>>) = (r.addr + r.n > MapSize)
    BY <2>5, <2>6
  <2>8. ASSUME NEW k \in 1 .. Len(Answer(r))
        PROVE  Answer(r)[k] = IF r.addr + k <= Len(image) THEN image[r.addr + k] ELSE 0
    <3>1. ~(r.addr + r.n > MapSize)
      BY <2>6
    <3>2. r.addr + k \in 1 .. MapSize /\ Answer(r)[k] = tab[r.addr + k]
      BY <2>6, <3>1
    <3> QED
      BY <2>4, <3>2
  <2> QED
    BY <2>1, <2>7, <2>8 DEF r, image, Image
<1> QED
  BY <1>1, Invariant, PTL

\* Each block starts where the run before it ends.
LEMMA StartsFacts ==
    ASSUME NEW bs, NEW N \in Nat, Len(bs) = N, NEW g \in [0 .. N -> Seq(Word)],
           g[0] = <<>>,
           \A k \in 1 .. N : /\ WrittenBlock(bs[k]) \in Seq(Word)
                             /\ g[k] = g[k - 1] \o WrittenBlock(bs[k])
    PROVE  /\ Starts(bs) \in Seq(Nat) /\ Len(Starts(bs)) = N + 1
           /\ \A k \in 1 .. N + 1 : Starts(bs)[k] = 2 + Len(g[k - 1])
<1> DEFINE F(f) == [k \in 1 .. N + 1 |-> IF k = 1 THEN 2
                                         ELSE f[k - 1] + Len(WrittenBlock(bs[k - 1]))]
           at == CHOOSE f : f = F(f)
           h == [k \in 1 .. N + 1 |-> 2 + Len(g[k - 1])]
<1>1. Starts(bs) = at
  BY DEF Starts
<1>2. \A k \in 1 .. N : /\ Len(g[k]) = Len(g[k - 1]) + Len(WrittenBlock(bs[k]))
                        /\ Len(g[k]) \in Nat /\ Len(g[k - 1]) \in Nat
                        /\ Len(WrittenBlock(bs[k])) \in Nat
  <2> TAKE k \in 1 .. N
  <2>1. /\ k \in 0 .. N /\ k - 1 \in 0 .. N
        /\ g[k] \in Seq(Word) /\ g[k - 1] \in Seq(Word) /\ WrittenBlock(bs[k]) \in Seq(Word)
    OBVIOUS
  <2>2. Len(g[k - 1] \o WrittenBlock(bs[k])) = Len(g[k - 1]) + Len(WrittenBlock(bs[k]))
    BY <2>1, Concat
  <2>3. g[k] = g[k - 1] \o WrittenBlock(bs[k])
    OBVIOUS
  <2>4. Len(g[k]) = Len(g[k - 1]) + Len(WrittenBlock(bs[k]))
    BY <2>2, <2>3
  <2>5. Len(g[k]) \in Nat /\ Len(g[k - 1]) \in Nat /\ Len(WrittenBlock(bs[k])) \in Nat
    <3>1. \A x \in Seq(Word) : Len(x) \in Nat
      OBVIOUS
    <3> QED
      BY <2>1, <3>1, Zenon
  <2> QED
    BY <2>4, <2>5
<1>3. h = F(h)
  <2>1. ASSUME NEW k \in 1 .. N + 1
        PROVE  h[k] = IF k = 1 THEN 2 ELSE h[k - 1] + Len(WrittenBlock(bs[k - 1]))
    <3>1. CASE k = 1
      <4>1. Len(g[0]) = 0
        OBVIOUS
      <4> QED
        BY <3>1, <4>1
    <3>2. CASE k # 1
      <4>1. k - 1 \in 1 .. N /\ k - 1 \in 1 .. N + 1
        BY <3>2
      <4>2. /\ Len(g[k - 1]) = Len(g[(k - 1) - 1]) + Len(WrittenBlock(bs[k - 1]))
            /\ Len(g[k - 1]) \in Nat /\ Len(g[(k - 1) - 1]) \in Nat
            /\ Len(WrittenBlock(bs[k - 1])) \in Nat
        BY <1>2, <4>1
      <4>3. h[k] = 2 + Len(g[k - 1]) /\ h[k - 1] = 2 + Len(g[(k - 1) - 1])
        BY <4>1
      <4> HIDE DEF h
      <4>4. h[k] = h[k - 1] + Len(WrittenBlock(bs[k - 1]))
        <5>1. \A x, y \in Nat : 2 + (x + y) = (2 + x) + y
          OBVIOUS
        <5> QED
          BY <4>2, <4>3, <5>1, Zenon
      <4> QED
        BY <3>2, <4>4
    <3> QED
      BY <3>1, <3>2
  <2> HIDE DEF h
  <2>2. DOMAIN h = 1 .. N + 1 /\ h = [k \in 1 .. N + 1 |-> h[k]]
    BY DEF h
  <2> QED
    BY <2>1, <2>2
<1>4. at = F(at)
  <2> HIDE DEF F, h
  <2> QED
    BY <1>3
<1> HIDE DEF at
<1>5. DOMAIN at = 1 .. N + 1 /\ \A k \in 1 .. N + 1 : at[k] = IF k = 1 THEN 2
                                         ELSE at[k - 1] + Len(WrittenBlock(bs[k - 1]))
  BY <1>4
<1> DEFINE T == {k \in 0 .. N : at[k + 1] = 2 + Len(g[k])}
<1>6. 0 \in T
  <2>1. 1 \in 1 .. N + 1 /\ Len(g[0]) = 0
    OBVIOUS
  <2> QED
    BY <1>5, <2>1
<1>7. ASSUME NEW k \in 1 .. N, k - 1 \in T PROVE k \in T
  <2>1. at[(k - 1) + 1] = 2 + Len(g[k - 1]) /\ (k - 1) + 1 = k /\ (k + 1) - 1 = k
    BY <1>7
  <2>2. k + 1 \in 1 .. N + 1 /\ k + 1 # 1 /\ k \in 0 .. N
    OBVIOUS
  <2>3. at[k + 1] = at[k] + Len(WrittenBlock(bs[k]))
    <3>1. at[k + 1] = at[(k + 1) - 1] + Len(WrittenBlock(bs[(k + 1) - 1]))
      BY <1>5, <2>2
    <3> QED
      BY <2>1, <3>1
  <2>4. at[k + 1] = 2 + Len(g[k])
    <3>1. \A x, y \in Nat : (2 + x) + y = 2 + (x + y)
      OBVIOUS
    <3>2. /\ Len(g[k]) = Len(g[k - 1]) + Len(WrittenBlock(bs[k]))
          /\ Len(g[k - 1]) \in Nat /\ Len(WrittenBlock(bs[k])) \in Nat
      BY <1>2
    <3>3. at[k] = 2 + Len(g[k - 1])
      BY <2>1
    <3>4. at[k + 1] = (2 + Len(g[k - 1])) + Len(WrittenBlock(bs[k]))
      BY <2>3, <3>3, Zenon
    <3>5. (2 + Len(g[k - 1])) + Len(WrittenBlock(bs[k]))
             = 2 + (Len(g[k - 1]) + Len(WrittenBlock(bs[k])))
      BY <3>1, <3>2, Zenon
    <3> QED
      BY <3>2, <3>4, <3>5, Zenon
  <2> QED
    BY <2>2, <2>4
<1>8. 0 .. N \subseteq T
  <2> HIDE DEF T
  <2> QED
    BY <1>6, <1>7, UpTo
<1>9. ASSUME NEW k \in 1 .. N + 1 PROVE at[k] = 2 + Len(g[k - 1]) /\ at[k] \in Nat
  <2>1. k - 1 \in 0 .. N /\ (k - 1) + 1 = k
    OBVIOUS
  <2>2. at[(k - 1) + 1] = 2 + Len(g[k - 1])
    BY <1>8, <2>1
  <2>3. Len(g[k - 1]) \in Nat
    BY <2>1
  <2> QED
    BY <2>1, <2>2, <2>3
<1>10. at \in Seq(Nat) /\ Len(at) = N + 1
  <2>1. at \in [1 .. N + 1 -> Nat]
    <3>1. at = [k \in 1 .. N + 1 |-> at[k]]
      <4> DEFINE D == 1 .. N + 1
                 X(k) == IF k = 1 THEN 2 ELSE at[k - 1] + Len(WrittenBlock(bs[k - 1]))
      <4>1. at = [k \in D |-> X(k)]
        BY <1>4
      <4> HIDE DEF X, D
      <4>2. at = [k \in D |-> at[k]]
        BY <4>1
      <4> QED
        BY <4>2 DEF D
    <3> QED
      BY <1>9, <3>1
  <2> QED
    BY <2>1, FunctionIsSeq
<1> QED
  BY <1>1, <1>9, <1>10

\* Where the registers of each block and the end marker are in the map.
Laid(g) ==
    /\ g[0] = <<>>
    /\ \A k \in 1 .. Len(blocks) : /\ WrittenBlock(blocks[k]) \in Seq(Word)
                                   /\ g[k] = g[k - 1] \o WrittenBlock(blocks[k])
    /\ Len(g[Len(blocks)]) + 4 <= MapSize
    /\ \A k \in 1 .. Len(blocks) : \A j \in 1 .. Len(WrittenBlock(blocks[k])) :
          /\ 2 + Len(g[k - 1]) + j <= MapSize - 2
          /\ tab[2 + Len(g[k - 1]) + j] = WrittenBlock(blocks[k])[j]
    /\ tab[2 + Len(g[Len(blocks)]) + 1] = MaxWord
    /\ tab[2 + Len(g[Len(blocks)]) + 2] = 0

LEMMA MapLaid ==
    ASSUME IInv, Filled, WellWritten(blocks)
    PROVE  \E g \in [0 .. Len(blocks) -> Seq(Word)] : Laid(g)
<1> DEFINE N == Len(blocks)
           w == [k \in 1 .. N |-> WrittenBlock(blocks[k])]
<1>1. blocks \in DataBlockLists /\ N \in Nat
  BY BlocksFacts DEF IInv
<1>2. \A k \in 1 .. N : WrittenBlock(blocks[k]) \in Seq(Word)
  <2>1. 0 \in Byte
    BY WordFacts
  <2> QED
    BY <1>1, <2>1, ImageWritten
<1>3. w \in Seq(Seq(Word)) /\ Len(w) = N /\ \A k \in 1 .. N : w[k] = WrittenBlock(blocks[k])
  <2> DEFINE S == Seq(Word)
  <2>1. w \in [1 .. N -> S]
    BY <1>2
  <2>2. \A k \in 1 .. N : w[k] = WrittenBlock(blocks[k])
    OBVIOUS
  <2> HIDE DEF S, w
  <2>3. w \in Seq(S) /\ Len(w) = N
    BY <1>1, <2>1, FunctionIsSeq
  <2> QED
    BY <2>2, <2>3 DEF S
<1>4. Written(blocks) = FlattenSeq(w)
  BY DEF Written
<1> HIDE DEF w
<1>5. PICK g \in [0 .. N -> Seq(Word)] : Runs(g, w) /\ Written(blocks) = g[N]
  BY <1>3, <1>4, Flatten
<1>6. g[0] = <<>> /\ \A k \in 1 .. N : g[k] = g[k - 1] \o WrittenBlock(blocks[k])
  BY <1>3, <1>5 DEF Runs
<1> DEFINE all == Written(blocks)
           image == Image(blocks)
<1>7. all \in Seq(Word) /\ Len(all) \in Nat /\ Len(all) + 4 <= MapSize /\ MapSize \in Nat
  <2>1. all \in Seq(Word) /\ Len(all) + 4 <= MapSize
    BY <1>1, <1>5 DEF WellWritten
  <2> HIDE DEF all
  <2>2. Len(all) \in Nat
    BY <2>1
  <2> QED
    BY <2>1, <2>2, ServerAssumption
<1>8. /\ Len(image) = Len(all) + 4
      /\ \A j \in 1 .. Len(all) : image[2 + j] = all[j]
      /\ image[2 + Len(all) + 1] = MaxWord /\ image[2 + Len(all) + 2] = 0
  <2> DEFINE end == <<MaxWord, 0>>
             front == Signature \o all
  <2>1. /\ front \in Seq(Word) /\ Len(front) = 2 + Len(all)
        /\ \A j \in 1 .. Len(all) : front[2 + j] = all[j]
    <3> HIDE DEF all
    <3>1. Signature \in Seq(Word) /\ all \in Seq(Word) /\ Len(Signature) = 2
      BY <1>7, WordFacts
    <3>2. /\ Signature \o all \in Seq(Word) /\ Len(Signature \o all) = Len(Signature) + Len(all)
          /\ \A j \in 1 .. Len(all) : (Signature \o all)[Len(Signature) + j] = all[j]
      BY <3>1, Concat
    <3> QED
      BY <3>1, <3>2
  <2>2. end \in Seq(Word) /\ Len(end) = 2 /\ end[1] = MaxWord /\ end[2] = 0
    BY WordFacts
  <2>3. image = front \o end
    BY DEF Image
  <2> HIDE DEF all, front, end
  <2>4. /\ Len(front \o end) = Len(front) + Len(end)
        /\ \A j \in 1 .. Len(front) : (front \o end)[j] = front[j]
        /\ \A j \in 1 .. Len(end) : (front \o end)[Len(front) + j] = end[j]
    <3>1. PICK x \in Seq(Word), y \in Seq(Word) : x = front /\ y = end
      BY <2>1, <2>2
    <3>2. /\ Len(x \o y) = Len(x) + Len(y)
          /\ \A j \in 1 .. Len(x) : (x \o y)[j] = x[j]
          /\ \A j \in 1 .. Len(y) : (x \o y)[Len(x) + j] = y[j]
      BY Concat
    <3> QED
      BY <3>1, <3>2, Zenon
  <2> HIDE DEF image
  <2>5. Len(image) = Len(all) + 4
    BY <1>7, <2>1, <2>2, <2>3, <2>4
  <2>6. \A j \in 1 .. Len(all) : image[2 + j] = all[j]
    <3>1. \A j \in 1 .. Len(all) : 2 + j \in 1 .. Len(front)
      BY <1>7, <2>1
    <3> QED
      BY <2>1, <2>3, <2>4, <3>1
  <2>7. image[2 + Len(all) + 1] = MaxWord /\ image[2 + Len(all) + 2] = 0
    <3>1. 1 \in 1 .. Len(end) /\ 2 \in 1 .. Len(end)
      BY <2>2
    <3>2. image[Len(front) + 1] = end[1] /\ image[Len(front) + 2] = end[2]
      BY <2>3, <2>4, <3>1
    <3> QED
      BY <2>1, <2>2, <3>2
  <2> QED
    BY <2>5, <2>6, <2>7
<1>9. \A a \in 1 .. MapSize : a <= Len(image) => tab[a] = image[a]
  BY MapHolds
<1> HIDE DEF all, image
<1>10. \A a \in 1 .. Len(all) + 4 : a \in 1 .. MapSize /\ a <= Len(image) /\ tab[a] = image[a]
  BY <1>7, <1>8, <1>9
<1>11. tab[2 + Len(all) + 1] = MaxWord /\ tab[2 + Len(all) + 2] = 0
  <2>1. 2 + Len(all) + 1 \in 1 .. Len(all) + 4 /\ 2 + Len(all) + 2 \in 1 .. Len(all) + 4
    BY <1>7
  <2> QED
    BY <1>8, <1>10, <2>1
<1>12. ASSUME NEW k \in 1 .. N, NEW j \in 1 .. Len(w[k])
       PROVE  /\ 2 + Len(g[k - 1]) + j <= MapSize - 2
              /\ tab[2 + Len(g[k - 1]) + j] = w[k][j]
  <2>1. /\ k \in 0 .. N /\ N \in k .. N /\ k - 1 \in 0 .. N /\ g[k] \in Seq(Word)
        /\ g[k - 1] \in Seq(Word) /\ w[k] \in Seq(Word)
    <3>1. k \in 0 .. N /\ N \in k .. N /\ k - 1 \in 0 .. N
      BY <1>1
    <3>2. w[k] \in Seq(Word)
      BY <1>2, <1>3
    <3>3. \A i \in 0 .. N : g[i] \in Seq(Word)
      OBVIOUS
    <3> QED
      BY <3>1, <3>2, <3>3
  <2>2. /\ Len(g[k]) <= Len(g[N]) /\ \A i \in 1 .. Len(g[k]) : g[N][i] = g[k][i]
    <3>1. /\ g \in [0 .. Len(w) -> Seq(Word)] /\ Runs(g, w) /\ w \in Seq(Seq(Word))
          /\ k \in 0 .. Len(w) /\ N \in k .. Len(w)
      <4>1. Len(w) = N /\ w \in Seq(Seq(Word)) /\ Runs(g, w) /\ g \in [0 .. N -> Seq(Word)]
        BY <1>3, <1>5
      <4> HIDE DEF N
      <4> QED
        BY <2>1, <4>1, Zenon
    <3>2. PICK s \in Seq(Seq(Word)) : s = w
      BY <3>1
    <3>3. g \in [0 .. Len(s) -> Seq(Word)] /\ Runs(g, s)
      BY <3>1, <3>2
    <3>4. \A a \in 0 .. Len(s) : \A m \in a .. Len(s) :
              /\ Len(g[a]) <= Len(g[m])
              /\ \A i \in 1 .. Len(g[a]) : g[m][i] = g[a][i]
      BY <3>3, RunsGrow
    <3> QED
      BY <3>1, <3>2, <3>4
  <2>3. g[k] = g[k - 1] \o w[k]
    BY <1>3, <1>6
  <2>4. /\ Len(g[k - 1] \o w[k]) = Len(g[k - 1]) + Len(w[k])
        /\ (g[k - 1] \o w[k])[Len(g[k - 1]) + j] = w[k][j]
    <3>1. PICK x \in Seq(Word), y \in Seq(Word) : x = g[k - 1] /\ y = w[k]
      BY <2>1
    <3>2. /\ Len(x \o y) = Len(x) + Len(y)
          /\ \A i \in 1 .. Len(y) : (x \o y)[Len(x) + i] = y[i]
      BY Concat
    <3>3. j \in 1 .. Len(y)
      BY <3>1
    <3> QED
      BY <3>1, <3>2, <3>3, Zenon
  <2>5. g[N] = all
    BY <1>5 DEF all
  <2>6. PICK m \in Nat, n \in Nat : m = Len(g[k - 1]) /\ n = Len(w[k])
    <3>1. \A x \in Seq(Word) : Len(x) \in Nat
      OBVIOUS
    <3> QED
      BY <2>1, <3>1
  <2>7. Len(g[k]) = m + n /\ m + n <= Len(all) /\ g[k][m + j] = w[k][j] /\ j \in 1 .. n
    <3>1. g[k][Len(g[k - 1]) + j] = w[k][j] /\ Len(g[k]) = Len(g[k - 1]) + Len(w[k])
      BY <2>3, <2>4, Zenon
    <3>2. Len(g[k]) <= Len(all)
      BY <2>2, <2>5, Zenon
    <3> QED
      BY <2>6, <3>1, <3>2
  <2>8. m + j \in 1 .. m + n /\ m + j \in 1 .. Len(all)
    <3>1. m + n \in Nat /\ m + j \in Nat /\ 1 <= m + j /\ m + j <= m + n
      BY <2>7
    <3> QED
      BY <1>7, <2>7, <3>1
  <2>9. all[m + j] = w[k][j]
    BY <2>2, <2>5, <2>7, <2>8
  <2>10. /\ 2 + m + j = 2 + (m + j) /\ 2 + (m + j) \in 1 .. Len(all) + 4
         /\ 2 + m + j <= MapSize - 2
    BY <1>7, <2>8
  <2>11. tab[2 + (m + j)] = w[k][j]
    BY <1>8, <1>10, <2>8, <2>9, <2>10
  <2> QED
    BY <2>6, <2>10, <2>11
<1>13. g[N] = all
  BY <1>5 DEF all
<1>14. Laid(g)
  <2>1. \A k \in 1 .. N : \A j \in 1 .. Len(WrittenBlock(blocks[k])) :
           /\ 2 + Len(g[k - 1]) + j <= MapSize - 2
           /\ tab[2 + Len(g[k - 1]) + j] = WrittenBlock(blocks[k])[j]
    BY <1>3, <1>12
  <2> QED
    BY <1>2, <1>6, <1>7, <1>11, <1>13, <2>1 DEF Laid
<1> QED
  BY <1>14

\* The served map by offset from the signature's first register.
LEMMA ServedMap ==
    ASSUME IInv
    PROVE  /\ MapSize \in Nat /\ MapSize >= 4
           /\ DOMAIN Served.mem = 0 .. MapSize - 1
           /\ \A a \in 0 .. MapSize - 1 : Served.mem[a] = tab[a + 1] /\ tab[a + 1] \in Word
<1>1. MapSize \in Nat /\ MapSize >= 4 /\ tab \in [1 .. MapSize -> Word]
  BY ServerAssumption DEF IInv, TypeOK
<1>2. \A a \in 0 .. MapSize - 1 : a + 1 \in 1 .. MapSize
  BY <1>1
<1>3. Served.mem = [a \in 0 .. MapSize - 1 |-> tab[a + 1]]
  BY DEF Served
<1> QED
  BY <1>1, <1>2, <1>3

\* A block with a right header leads the client to the next one.
LEMMA BlockChained ==
    ASSUME IInv, NEW s \in Nat, NEW w \in Seq(Word),
           Len(w) >= 2, w[1] # 0, w[2] = Len(w) - 2, ~(w[1] = MaxWord /\ w[2] = 0),
           \A j \in 1 .. Len(w) : s + j <= MapSize - 2 /\ tab[s + j] = w[j]
    PROVE  /\ Continues(Served, s)
           /\ Header(Served, s).len = Len(w) - 2
           /\ Len(w) <= MapSize
<1>1. PICK n \in Nat : n = Len(w)
  OBVIOUS
<1>2. /\ MapSize \in Nat /\ s + n <= MapSize - 2 /\ n >= 2 /\ n <= MapSize
      /\ 1 \in 1 .. n /\ 2 \in 1 .. n /\ n \in 1 .. n
  <2>1. n >= 2 /\ 1 \in 1 .. n /\ 2 \in 1 .. n /\ n \in 1 .. n
    BY <1>1
  <2>2. s + n <= MapSize - 2 /\ MapSize \in Nat
    BY <1>1, <2>1, ServedMap
  <2> QED
    BY <2>1, <2>2
<1>3. s \in 0 .. MapSize - 1 /\ s + 1 \in 0 .. MapSize - 1 /\ s + 1 + 1 = s + 2
  BY <1>2
<1>4. Served.mem[s] = w[1] /\ Served.mem[s + 1] = w[2]
  <2>1. tab[s + 1] = w[1] /\ tab[s + 2] = w[2]
    BY <1>1, <1>2
  <2> QED
    BY <1>3, <2>1, ServedMap
<1>5. Header(Served, s).did = w[1] /\ Header(Served, s).len = n - 2
  BY <1>1, <1>4 DEF Header
<1>6. \A m \in Nat : m <= n => Readable(Served, s, m)
  <2>1. \A m \in Nat : m <= n => s .. s + m - 1 \subseteq 0 .. MapSize - 1
    BY <1>2
  <2> QED
    BY <2>1, ServedMap DEF Readable
<1>7. Header(Served, s).len + 2 = n
  BY <1>5
<1>8. Readable(Served, s, 2) /\ Readable(Served, s, Header(Served, s).len + 2)
  BY <1>2, <1>6, <1>7
<1>9. ~IsEndMarker(Header(Served, s))
  BY <1>1, <1>5 DEF IsEndMarker
<1> QED
  BY <1>1, <1>2, <1>5, <1>8, <1>9 DEF Continues

\* Well written blocks with right headers make a device.
LEMMA DeviceLaid ==
    ASSUME IInv, WellWritten(blocks), Announced(blocks),
           NEW g \in [0 .. Len(blocks) -> Seq(Word)], Laid(g)
    PROVE  IsDevice(Served, MapSize) /\ IsEndMarker(Header(Served, Last(Served.start)))
<1> DEFINE N == Len(blocks)
           start == Starts(blocks)
<1>1. N \in Nat
  BY BlocksFacts DEF IInv
<1>2. start \in Seq(Nat) /\ Len(start) = N + 1
      /\ \A k \in 1 .. N + 1 : start[k] = 2 + Len(g[k - 1])
  <2>1. PICK bs : bs = blocks
    OBVIOUS
  <2>2. PICK n \in Nat : n = N
    BY <1>1
  <2>3. PICK f \in [0 .. n -> Seq(Word)] : f = g
    BY <2>2
  <2>4. /\ Len(bs) = n /\ f[0] = <<>>
        /\ \A k \in 1 .. n : /\ WrittenBlock(bs[k]) \in Seq(Word)
                             /\ f[k] = f[k - 1] \o WrittenBlock(bs[k])
    BY <2>1, <2>2, <2>3 DEF Laid
  <2> HIDE DEF N
  <2>5. /\ Starts(bs) \in Seq(Nat) /\ Len(Starts(bs)) = n + 1
        /\ \A k \in 1 .. n + 1 : Starts(bs)[k] = 2 + Len(f[k - 1])
    BY <2>4, StartsFacts
  <2> QED
    BY <2>1, <2>2, <2>3, <2>5
<1> HIDE DEF start
<1>3. Served.start = start
  BY DEF Served, start
<1>4. \A i \in 0 .. N : g[i] \in Seq(Word) /\ Len(g[i]) \in Nat
  OBVIOUS
<1>5. \A k \in 1 .. N : k \in 1 .. N + 1 /\ k + 1 \in 1 .. N + 1
                        /\ k \in 0 .. N /\ k - 1 \in 0 .. N /\ k + 1 - 1 = k
  BY <1>1
<1>6. ASSUME NEW k \in 1 .. N
      PROVE  /\ Continues(Served, start[k])
             /\ start[k + 1] = start[k] + Header(Served, start[k]).len + 2
             /\ Header(Served, start[k]).len + 2 <= MapSize
  <2>1. PICK w \in Seq(Word) : w = WrittenBlock(blocks[k])
    BY DEF Laid
  <2>2. PICK s \in Nat : s = 2 + Len(g[k - 1]) /\ start[k] = s
    BY <1>2, <1>4, <1>5
  <2>3. Len(w) >= 2 /\ w[1] # 0 /\ w[2] = Len(w) - 2 /\ ~(w[1] = MaxWord /\ w[2] = 0)
    BY <2>1 DEF Announced
  <2>4. \A j \in 1 .. Len(w) : s + j <= MapSize - 2 /\ tab[s + j] = w[j]
    BY <2>1, <2>2 DEF Laid
  <2>5. /\ Continues(Served, s) /\ Header(Served, s).len = Len(w) - 2
        /\ Len(w) <= MapSize
    BY <2>3, <2>4, BlockChained
  <2>6. Len(g[k]) = Len(g[k - 1]) + Len(w)
    <3>1. g[k - 1] \in Seq(Word) /\ g[k] = g[k - 1] \o w
      BY <1>4, <1>5, <2>1 DEF Laid
    <3> QED
      BY <3>1, Concat
  <2>7. start[k + 1] = 2 + Len(g[k])
    BY <1>2, <1>5
  <2>8. PICK n \in Nat, m \in Nat : n = Len(w) /\ m = Len(g[k - 1])
    <3>1. Len(w) \in Nat
      OBVIOUS
    <3>2. k - 1 \in 0 .. N
      BY <1>5, Zenon
    <3>3. Len(g[k - 1]) \in Nat
      BY <1>4, <3>2, Zenon
    <3> QED
      BY <3>1, <3>3, Zenon
  <2>9. MapSize \in Nat
    BY ServerAssumption
  <2> HIDE DEF N
  <2>10. start[k + 1] = s + Header(Served, s).len + 2 /\ Header(Served, s).len + 2 <= MapSize
    <3>1. Header(Served, s).len + 2 = n
      BY <2>5, <2>8
    <3>2. start[k + 1] = 2 + (m + n) /\ s = 2 + m
      BY <2>2, <2>6, <2>7, <2>8
    <3>3. Header(Served, s).len = n - 2
      BY <2>5, <2>8
    <3>4. 2 + (m + n) = (2 + m) + (n - 2) + 2
      OBVIOUS
    <3> QED
      BY <2>5, <2>8, <3>1, <3>2, <3>3, <3>4
  <2> QED
    BY <2>2, <2>5, <2>10
<1>7. PICK e \in Nat : e = 2 + Len(g[N]) /\ start[N + 1] = e
  <2>1. N + 1 \in 1 .. N + 1 /\ N + 1 - 1 = N /\ N \in 0 .. N
    BY <1>1
  <2> QED
    BY <1>2, <1>4, <2>1
<1>8. Header(Served, e).did = MaxWord /\ Header(Served, e).len = 0
  <2>1. e + 2 <= MapSize /\ tab[e + 1] = MaxWord /\ tab[e + 2] = 0 /\ MapSize \in Nat
    <3>1. N \in 0 .. N /\ Len(g[N]) \in Nat
      BY <1>1, <1>4
    <3>2. Len(g[N]) + 4 <= MapSize /\ tab[2 + Len(g[N]) + 1] = MaxWord
          /\ tab[2 + Len(g[N]) + 2] = 0
      BY DEF Laid
    <3> HIDE DEF N
    <3> QED
      BY <1>7, <3>1, <3>2, ServerAssumption
  <2>2. e \in 0 .. MapSize - 1 /\ e + 1 \in 0 .. MapSize - 1 /\ e + 1 + 1 = e + 2
    BY <2>1
  <2>3. Served.mem[e] = MaxWord /\ Served.mem[e + 1] = 0
    BY <2>1, <2>2, ServedMap
  <2> QED
    BY <2>3 DEF Header
<1>9. IsEndMarker(Header(Served, e)) /\ ~Continues(Served, e)
  BY <1>8 DEF IsEndMarker, Continues
<1> HIDE DEF N
<1>10. start # <<>> /\ start[1] = 2 /\ Last(start) = e
  <2>1. Len(start) # 0 /\ 1 \in 1 .. N + 1 /\ 1 - 1 = 0
    BY <1>1, <1>2
  <2>2. g[0] = <<>> /\ Len(<<>>) = 0
    BY DEF Laid
  <2>3. start[1] = 2
    BY <1>2, <2>1, <2>2
  <2> QED
    BY <1>2, <1>7, <2>1, <2>3 DEF Last
<1>11. IsChain(Served)
  <2>1. Len(start) - 1 = N
    BY <1>1, <1>2
  <2> QED
    BY <1>2, <1>3, <1>6, <1>7, <1>9, <1>10, <2>1 DEF IsChain
<1>12. FitsBuffer(Served, MapSize)
  <2>1. MapSize >= 2 /\ MapSize \in Nat
    BY ServerAssumption
  <2>2. \A k \in 1 .. N + 1 : Header(Served, start[k]).len + 2 <= MapSize
    <3> TAKE k \in 1 .. N + 1
    <3>1. CASE k \in 1 .. N
      BY <1>6, <3>1
    <3>2. CASE k = N + 1
      BY <1>7, <1>8, <2>1, <3>2
    <3> QED
      BY <1>1, <3>1, <3>2
  <2> QED
    BY <1>2, <1>3, <2>1, <2>2 DEF FitsBuffer
<1>13. Served.window \in [Windows -> {<<>>} \union (Word \X Word)]
  <2>1. Served.window = << <<>>, Signature, <<>>, <<>> >>
    BY DEF Served
  <2>2. Signature \in Word \X Word
    <3>1. 21365 \in Word /\ 28243 \in Word
      BY WordFacts DEF Signature
    <3> QED
      BY <3>1 DEF Signature
  <2> DEFINE S == {<<>>} \union (Word \X Word)
  <2>3. <<>> \in S /\ Signature \in S
    BY <2>2
  <2> HIDE DEF S
  <2>4. << <<>>, Signature, <<>>, <<>> >> \in [1 .. 4 -> S]
    BY <2>3
  <2>5. Served.window \in [Windows -> S]
    BY <2>1, <2>4, Zenon DEF Windows
  <2> QED
    BY <2>5, Zenon DEF S
<1>14. DOMAIN Served.mem \subseteq Nat /\ \A o \in DOMAIN Served.mem : Served.mem[o] \in Word
  <2>1. PICK D : D = 0 .. MapSize - 1
    OBVIOUS
  <2>2. D \subseteq Nat
    BY <2>1, ServedMap
  <2>3. DOMAIN Served.mem = D /\ \A a \in D : Served.mem[a] = tab[a + 1] /\ tab[a + 1] \in Word
    BY <2>1, ServedMap, Zenon
  <2> QED
    BY <2>2, <2>3, Zenon
<1> QED
  BY <1>3, <1>9, <1>10, <1>11, <1>12, <1>13, <1>14 DEF IsDevice

\* As long as it serves, the server's map is a device that the client reads to
\* its end, if the data blocks have right headers.
THEOREM ServesDevice == Spec => []IsReadableDevice
<1>1. IInv => IsReadableDevice
  <2> SUFFICES ASSUME IInv, pc \in {"listen", "accept", "receive", "reply"},
                      WellWritten(blocks), Announced(blocks)
               PROVE  /\ IsDevice(Served, MapSize)
                      /\ IsEndMarker(Header(Served, Last(Served.start)))
    BY DEF IsReadableDevice
  <2>1. Filled
    BY DEF IInv, MapInv
  <2>2. PICK g \in [0 .. Len(blocks) -> Seq(Word)] : Laid(g)
    BY <2>1, MapLaid
  <2> QED
    BY <2>2, DeviceLaid
<1> QED
  BY <1>1, Invariant, PTL

=============================================================================

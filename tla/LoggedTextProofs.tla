-------------------------- MODULE LoggedTextProofs --------------------------
(***************************************************************************)
(* What is written is what was meant, for all values, widths, scale        *)
(* factors, times and zones: the values of LoggedValues, printed by the    *)
(* client or read back by the logger host, and the timestamps of           *)
(* Timestamps.  What all need is that a text of digits made of a number is *)
(* read as that number.                                                    *)
(*                                                                         *)
(* For timestamps, the argument is where the parser is in a text of        *)
(* RFC 3339: the parts of such a text begin and end at places that are     *)
(* known before it is read, the field that is being read is copied so far, *)
(* and those before it are their numbers.  For logged values, the text     *)
(* that the client writes is an integer, so that its reader only ever is   *)
(* in one, and scanning it again undoes the sign that the type's width     *)
(* gave it.  For printed values, every form of the text has a sign, the    *)
(* digits of the number, with zeros in front or behind, and a point and an *)
(* exponent that make up for where the point stands.                       *)
(*                                                                         *)
(* Timestamps is here under the name Stamps; of LoggedValues it shares pc  *)
(* and Texts by name only, no formula below being about both.              *)
(***************************************************************************)
EXTENDS LoggedValues, LeastElement, SequenceTheorems

CONSTANTS Times, HostZones
VARIABLES zone, target, written, text, at, state, tmp, tm, sign, unixtime, usec

Stamps == INSTANCE Timestamps

-----------------------------------------------------------------------------
\* Characters and numbers

DigitChars == {Digits[d] : d \in DOMAIN Digits}

LEMMA DigitFacts ==
    /\ \A c : IsDigit(c) <=> c \in DigitChars
    /\ \A v \in 0 .. 9 : Digits[v + 1] \in DigitChars /\ DigitValue(Digits[v + 1]) = v
    /\ \A c \in DigitChars :
          DigitValue(c) \in 0 .. 9 /\ Digits[DigitValue(c) + 1] = c
    /\ \A c \in {"-", "+", ".", "e", ":", "T", "Z"} : c \notin DigitChars
<1>1. DOMAIN Digits = 1 .. 10
  BY DEF Digits
<1>2. \A c : IsDigit(c) <=> c \in DigitChars
  BY DEF IsDigit, DigitChars
<1>3. \A u, v \in 0 .. 9 : Digits[u + 1] = Digits[v + 1] => u = v
  BY DEF Digits
<1>4. \A v \in 0 .. 9 : DigitValue(Digits[v + 1]) = v
  BY <1>3 DEF DigitValue
<1>5. \A v \in 0 .. 9 : Digits[v + 1] \in DigitChars
  <2>1. \A v \in 0 .. 9 : v + 1 \in 1 .. 10
    OBVIOUS
  <2> QED
    BY <1>1, <2>1 DEF DigitChars
<1>6. \A c \in DigitChars : \E v \in 0 .. 9 : c = Digits[v + 1]
  <2>1. ASSUME NEW d \in 1 .. 10 PROVE d - 1 \in 0 .. 9 /\ (d - 1) + 1 = d
    OBVIOUS
  <2> QED
    BY <1>1, <2>1 DEF DigitChars
<1>7. \A c \in {"-", "+", ".", "e", ":", "T", "Z"} : \A v \in 0 .. 9 : Digits[v + 1] # c
  <2>1. \A v \in 0 .. 9 : Digits[v + 1] \in {"0", "1", "2", "3", "4", "5", "6", "7", "8", "9"}
    BY DEF Digits
  <2> QED
    BY <2>1
<1> QED
  BY <1>2, <1>4, <1>5, <1>6, <1>7

\* NatOf() digit by digit.
Digitwise(v, s, n) ==
    /\ v \in [0 .. n -> Nat] /\ v[0] = 0 /\ v[n] = NatOf(s)
    /\ \A k \in 1 .. n : v[k] = 10 * v[k - 1] + DigitValue(s[k])

LEMMA NatOfSteps ==
    ASSUME NEW s \in Seq(DigitChars), NEW n \in Nat, n = Len(s)
    PROVE  \E v : Digitwise(v, s, n)
<1> DEFINE step == [k \in 1 .. n |-> [x \in Nat |-> 10 * x + DigitValue(s[k])]]
           F(h) == [k \in 0 .. n |->
                       IF k = 0 THEN 0 ELSE 10 * h[k - 1] + DigitValue(s[k])]
           val == CHOOSE h : h = F(h)
<1>1. \A k \in 1 .. n : DigitValue(s[k]) \in Nat
  <2>1. \A k \in 1 .. n : s[k] \in DigitChars
    OBVIOUS
  <2>2. \A c \in DigitChars : DigitValue(c) \in 0 .. 9
    BY DigitFacts
  <2>3. \A m \in 0 .. 9 : m \in Nat
    OBVIOUS
  <2> QED
    BY ONLY <2>1, <2>2, <2>3
<1>2. \A k \in 1 .. n : \A x \in Nat : step[k][x] \in Nat
  BY <1>1
<1>3. PICK f \in [0 .. n -> Nat] : Follows(f, 0, step, n)
  <2> HIDE DEF step
  <2> QED
    BY <1>2, Recursion
<1>4. f = F(f)
  <2>1. \A k \in 1 .. n : f[k] = 10 * f[k - 1] + DigitValue(s[k])
    <3>1. ASSUME NEW k \in 1 .. n PROVE k - 1 \in 0 .. n /\ f[k - 1] \in Nat
      OBVIOUS
    <3> QED
      BY <1>3, <3>1 DEF Follows
  <2>2. \A k \in 0 .. n : f[k] = F(f)[k]
    BY <1>3, <2>1 DEF Follows
  <2> QED
    BY <2>2
<1>5. val = F(val)
  BY <1>4
<1>6. NatOf(s) = val[n]
  BY DEF NatOf
<1> HIDE DEF val
<1>7. /\ \A k \in 0 .. n : val[k] = IF k = 0 THEN 0 ELSE 10 * val[k - 1] + DigitValue(s[k])
      /\ val = [k \in 0 .. n |-> val[k]]
  BY <1>5
<1>8. \A k \in 0 .. n : val[k] \in Nat
  <2> DEFINE T == {k \in 0 .. n : val[k] \in Nat}
  <2>1. 0 \in T
    BY <1>7
  <2>2. ASSUME NEW k \in 1 .. n, k - 1 \in T PROVE k \in T
    <3>1. k \in 0 .. n /\ k # 0 /\ val[k - 1] \in Nat /\ DigitValue(s[k]) \in Nat
      BY <1>1, <2>2
    <3>2. val[k] = 10 * val[k - 1] + DigitValue(s[k])
      BY <1>7, <3>1
    <3> QED
      BY <3>1, <3>2
  <2> HIDE DEF T
  <2>3. 0 .. n \subseteq T
    BY <2>1, <2>2, UpTo
  <2> QED
    BY <2>3 DEF T
<1>9. val \in [0 .. n -> Nat]
  BY <1>7, <1>8
<1>10. val[0] = 0 /\ \A k \in 1 .. n : val[k] = 10 * val[k - 1] + DigitValue(s[k])
  <2>1. \A k \in 1 .. n : k \in 0 .. n /\ k # 0
    OBVIOUS
  <2> QED
    BY <1>7, <2>1
<1> QED
  BY <1>6, <1>9, <1>10 DEF Digitwise

Appended(s, c, u) == u = Append(s, c)

LEMMA AppendFacts ==
    ASSUME NEW S, NEW s \in Seq(S), NEW c \in S, NEW u, Appended(s, c, u)
    PROVE  /\ u \in Seq(S) /\ u # <<>> /\ Len(u) = Len(s) + 1
           /\ \A k \in 1 .. Len(u) : u[k] = IF k <= Len(s) THEN s[k] ELSE c
<1>1. u \in Seq(S) /\ Len(u) = Len(s) + 1 /\ Len(s) \in Nat
  BY DEF Appended
<1>2. \A k \in 1 .. Len(s) : u[k] = s[k]
  BY DEF Appended
<1>3. u[Len(s) + 1] = c
  BY DEF Appended
<1>4. Len(<<>>) = 0
  OBVIOUS
<1> QED
  BY <1>1, <1>2, <1>3, <1>4

LEMMA NatOfAppend ==
    ASSUME NEW s \in Seq(DigitChars), NEW c \in DigitChars, NEW u, Appended(s, c, u)
    PROVE  /\ NatOf(<<>>) = 0 /\ NatOf(s) \in Nat
           /\ NatOf(u) = 10 * NatOf(s) + DigitValue(c)
<1>1. NatOf(<<>>) = 0
  <2>1. <<>> \in Seq(DigitChars) /\ Len(<<>>) = 0
    OBVIOUS
  <2> QED
    BY <2>1, NatOfSteps DEF Digitwise
<1>2. PICK n \in Nat : n = Len(s)
  OBVIOUS
<1>3. PICK v : Digitwise(v, s, n)
  BY <1>2, NatOfSteps
<1>5. /\ u \in Seq(DigitChars) /\ Len(u) = n + 1 /\ u[n + 1] = c
      /\ \A k \in 1 .. n : u[k] = s[k]
  BY <1>2 DEF Appended
<1>6. PICK w : Digitwise(w, u, n + 1)
  <2>1. n + 1 \in Nat /\ n + 1 = Len(u)
    BY <1>5
  <2> QED
    BY <1>5, <2>1, NatOfSteps
<1>7. w[n] = v[n]
  <2> DEFINE T == {k \in 0 .. n : w[k] = v[k]}
  <2>1. 0 \in T
    BY <1>3, <1>6 DEF Digitwise
  <2>2. ASSUME NEW k \in 1 .. n, k - 1 \in T PROVE k \in T
    BY <1>3, <1>5, <1>6, <2>2 DEF Digitwise
  <2> HIDE DEF T
  <2>3. 0 .. n \subseteq T
    BY <2>1, <2>2, UpTo
  <2> QED
    BY <2>3 DEF T
<1>8. w[n + 1] = 10 * w[n] + DigitValue(c)
  BY <1>5, <1>6 DEF Digitwise
<1> QED
  BY <1>1, <1>3, <1>6, <1>7, <1>8 DEF Digitwise

LEMMA DigitOf ==
    ASSUME NEW n \in Nat
    PROVE  /\ Digits[(n % 10) + 1] \in DigitChars /\ DigitValue(Digits[(n % 10) + 1]) = n % 10
           /\ n \div 10 \in Nat /\ n = 10 * (n \div 10) + (n % 10)
           /\ n >= 10 => n \div 10 < n
           /\ n < 10 => n % 10 = n
<1>1. n % 10 \in 0 .. 9
  OBVIOUS
<1>2. /\ n \div 10 \in Nat /\ n = 10 * (n \div 10) + (n % 10)
      /\ n >= 10 => n \div 10 < n
      /\ n < 10 => n % 10 = n
  OBVIOUS
<1> QED
  BY <1>1, <1>2, DigitFacts

\* The recursion of NatText is one.
LEMMA NatTextStep ==
    ASSUME NEW n \in Nat
    PROVE  /\ NatText[n] \in Seq(DigitChars)
           /\ n < 10  => Appended(<<>>, Digits[(n % 10) + 1], NatText[n])
           /\ n >= 10 => Appended(NatText[n \div 10], Digits[(n % 10) + 1], NatText[n])
<1> DEFINE S == Seq(DigitChars)
           size == [x \in Nat |-> x]
           base == [x \in Nat |-> <<Digits[(x % 10) + 1]>>]
           down == [x \in Nat |-> x \div 10]
           step == [x \in Nat |-> [y \in S |-> Append(y, Digits[(x % 10) + 1])]]
           F(f) == [x \in Nat |->
                       IF x < 10 THEN <<Digits[x + 1]>>
                       ELSE Append(f[x \div 10], Digits[(x % 10) + 1])]
<1>1. size \in [Nat -> Nat] /\ down \in [Nat -> Nat] /\ 0 .. 9 \in SUBSET Nat
  BY DigitOf
<1>2. base \in [Nat -> S]
  BY DigitOf
<1>3. \A x \in Nat \ (0 .. 9) : size[down[x]] < size[x]
  <2>1. ASSUME NEW x \in Nat \ (0 .. 9) PROVE x \in Nat /\ x >= 10 /\ x \div 10 \in Nat /\ x \div 10 < x
    BY DigitOf
  <2> QED
    BY <2>1
<1>4. \A x \in Nat : \A y \in S : step[x][y] \in S
  BY DigitOf
<1>5. PICK f \in [Nat -> S] :
         f = [x \in Nat |-> IF x \in 0 .. 9 THEN base[x] ELSE step[x][f[down[x]]]]
  <2> HIDE DEF S, size, base, down, step
  <2>1. \E f \in [Nat -> S] : Descends(f, Nat, 0 .. 9, base, down, step)
    BY <1>1, <1>2, <1>3, <1>4, Descent
  <2> QED
    BY <2>1 DEF Descends
<1>6. ASSUME NEW x \in Nat PROVE f[x] = F(f)[x]
  <2>1. CASE x < 10
    <3>1. x \in 0 .. 9 /\ x % 10 = x
      BY <2>1, DigitOf
    <3> QED
      BY <1>5, <2>1, <3>1
  <2>2. CASE ~(x < 10)
    <3>1. x \notin 0 .. 9 /\ x \div 10 \in Nat /\ f[x \div 10] \in S
      BY <2>2, DigitOf
    <3> QED
      BY <1>5, <2>2, <3>1
  <2> QED
    BY <2>1, <2>2
<1>7. f = F(f)
  BY <1>6
<1>8. NatText = F(NatText)
  BY <1>7 DEF NatText
<1>9. NatText[n] = F(NatText)[n]
  BY <1>8
<1>10. \A x \in Nat : NatText[x] \in S
  <2> DEFINE Bad == {x \in Nat : NatText[x] \notin S}
  <2>1. SUFFICES ASSUME Bad # {} PROVE FALSE
    OBVIOUS
  <2>2. PICK x \in Bad : \A y \in Bad : x <= y
    <3>1. Bad \in SUBSET Nat
      OBVIOUS
    <3> HIDE DEF Bad
    <3> QED
      BY <2>1, <3>1, NatLeast
  <2>3. x \in Nat /\ NatText[x] \notin S
    BY <2>2
  <2>4. NatText[x] = IF x < 10 THEN <<Digits[x + 1]>>
                     ELSE Append(NatText[x \div 10], Digits[(x % 10) + 1])
    BY <1>8, <2>3
  <2>5. Digits[(x % 10) + 1] \in DigitChars /\ (x < 10 => x % 10 = x)
    BY <2>3, DigitOf
  <2>6. x >= 10 /\ NatText[x \div 10] \notin S
    <3>1. CASE x < 10
      BY <2>3, <2>4, <2>5, <3>1
    <3>2. CASE ~(x < 10)
      <4>1. NatText[x] = Append(NatText[x \div 10], Digits[(x % 10) + 1])
        BY <2>4, <3>2
      <4> QED
        BY <2>3, <2>5, <3>2, <4>1
    <3> QED
      BY <3>1, <3>2
  <2>7. x \div 10 \in Nat /\ x \div 10 < x
    BY <2>3, <2>6, DigitOf
  <2> QED
    BY <2>2, <2>3, <2>6, <2>7
<1>11. ASSUME n < 10 PROVE Appended(<<>>, Digits[(n % 10) + 1], NatText[n])
  BY <1>9, <1>11, DigitOf DEF Appended
<1>12. ASSUME n >= 10
       PROVE  Appended(NatText[n \div 10], Digits[(n % 10) + 1], NatText[n])
  <2>1. ~(n < 10)
    BY <1>12
  <2>2. NatText[n] = IF n < 10 THEN <<Digits[n + 1]>>
                     ELSE Append(NatText[n \div 10], Digits[(n % 10) + 1])
    BY <1>9
  <2> QED
    BY ONLY <2>1, <2>2 DEF Appended
<1> QED
  BY <1>10, <1>11, <1>12

\* What "%d" writes, NatOf() reads.
LEMMA NatTextRead ==
    ASSUME NEW n \in Nat
    PROVE  NatOf(NatText[n]) = n /\ NatText[n] # <<>> /\ Len(NatText[n]) \in Nat
<1>1. ASSUME NEW x \in Nat, x < 10 PROVE NatOf(NatText[x]) = x /\ NatText[x] # <<>>
  <2>1. Appended(<<>>, Digits[(x % 10) + 1], NatText[x])
    BY <1>1, NatTextStep
  <2>2. <<>> \in Seq(DigitChars)
    OBVIOUS
  <2>3. Digits[(x % 10) + 1] \in DigitChars /\ DigitValue(Digits[(x % 10) + 1]) = x
    BY <1>1, DigitOf
  <2>4. NatOf(NatText[x]) = 10 * NatOf(<<>>) + x /\ NatOf(<<>>) = 0
    BY <2>1, <2>2, <2>3, NatOfAppend
  <2>5. NatText[x] # <<>>
    BY <2>1, <2>2, <2>3 DEF Appended
  <2> QED
    BY <2>4, <2>5
<1>2. ASSUME NEW x \in Nat, x >= 10
      PROVE  /\ NatOf(NatText[x]) = 10 * NatOf(NatText[x \div 10]) + (x % 10)
             /\ NatText[x] # <<>>
  <2>1. Appended(NatText[x \div 10], Digits[(x % 10) + 1], NatText[x])
    BY <1>2, NatTextStep
  <2>2. NatText[x \div 10] \in Seq(DigitChars)
    BY NatTextStep, DigitOf
  <2>3. Digits[(x % 10) + 1] \in DigitChars /\ DigitValue(Digits[(x % 10) + 1]) = x % 10
    BY DigitOf
  <2>4. NatOf(NatText[x]) = 10 * NatOf(NatText[x \div 10]) + (x % 10)
    BY <2>1, <2>2, <2>3, NatOfAppend
  <2>5. NatText[x] # <<>>
    BY <2>1, <2>2, <2>3, AppendFacts
  <2> QED
    BY <2>4, <2>5
<1> DEFINE Bad == {x \in Nat : NatOf(NatText[x]) # x}
<1>3. Bad = {}
  <2>1. SUFFICES ASSUME Bad # {} PROVE FALSE
    OBVIOUS
  <2>2. PICK x \in Bad : \A y \in Bad : x <= y
    <3>1. Bad \in SUBSET Nat
      OBVIOUS
    <3> HIDE DEF Bad
    <3> QED
      BY <2>1, <3>1, NatLeast
  <2>3. x \in Nat /\ x >= 10 /\ NatOf(NatText[x]) # x
    BY <1>1, <2>2
  <2>4. x \div 10 \in Nat /\ x = 10 * (x \div 10) + (x % 10) /\ x \div 10 < x
    BY <2>3, DigitOf
  <2>5. NatOf(NatText[x \div 10]) = x \div 10
    BY <2>2, <2>3, <2>4
  <2> QED
    BY <1>2, <2>3, <2>4, <2>5
<1>4. NatText[n] # <<>>
  BY <1>1, <1>2
<1>5. NatOf(NatText[n]) = n
  BY <1>3
<1> QED
  BY <1>4, <1>5, NatTextStep

-----------------------------------------------------------------------------
\* Parts of sequences

\* u is the part of s from m to n, of l elements.
IsPart(u, s, m, n, l) ==
    /\ u = SubSeq(s, m, n)
    /\ m \in Nat /\ n \in Int /\ m >= 1 /\ m <= n + 1 /\ n <= Len(s) /\ l = n - m + 1

PartIs(S, u, s, m, l) ==
    /\ u \in Seq(S) /\ Len(u) = l /\ l \in Nat
    /\ \A k \in 1 .. l : u[k] = s[m + k - 1]

LEMMA PartFacts ==
    ASSUME NEW S, NEW s \in Seq(S), NEW m, NEW n, NEW l, NEW u, IsPart(u, s, m, n, l)
    PROVE  PartIs(S, u, s, m, l)
<1>1. m \in 1 .. Len(s) + 1 /\ n \in m - 1 .. Len(s) /\ l = n - m + 1 /\ l \in Nat
  BY DEF IsPart
<1>2. u = SubSeq(s, m, n)
  BY DEF IsPart
<1> QED
  BY <1>1, <1>2, SubSeqProperties DEF PartIs

LEMMA SameSequence ==
    ASSUME NEW S, NEW s \in Seq(S), NEW t \in Seq(S), Len(s) = Len(t),
           \A k \in 1 .. Len(s) : s[k] = t[k]
    PROVE  s = t
  OBVIOUS

LEMMA PartGrows ==
    ASSUME NEW S, NEW s \in Seq(S), NEW m \in Nat, NEW n \in Nat,
           m >= 1, m <= n, n <= Len(s)
    PROVE  Appended(SubSeq(s, m, n - 1), s[n], SubSeq(s, m, n))
<1>1. PICK a \in Int : a = n - 1
  OBVIOUS
<1>2. PICK l \in Nat : l = a - m + 1
  BY <1>1
<1>3. PICK h \in Nat : h = n - m + 1
  OBVIOUS
<1>4. PICK t : t = SubSeq(s, m, a)
  OBVIOUS
<1>5. t \in Seq(S) /\ Len(t) = l /\ \A k \in 1 .. l : t[k] = s[m + k - 1]
  <2>1. IsPart(t, s, m, a, l)
    BY <1>1, <1>2, <1>4 DEF IsPart
  <2>2. PartIs(S, t, s, m, l)
    BY <2>1, PartFacts
  <2> QED
    BY <2>2 DEF PartIs
<1>6. PICK u : u = SubSeq(s, m, n)
  OBVIOUS
<1>7. u \in Seq(S) /\ Len(u) = h /\ \A k \in 1 .. h : u[k] = s[m + k - 1]
  <2>1. IsPart(u, s, m, n, h)
    BY <1>3, <1>6 DEF IsPart
  <2>2. PartIs(S, u, s, m, h)
    BY <2>1, PartFacts
  <2> QED
    BY <2>2 DEF PartIs
<1>8. PICK w : Appended(t, s[n], w)
  BY DEF Appended
<1>9. s[n] \in S
  OBVIOUS
<1>10. /\ w \in Seq(S) /\ Len(w) = Len(t) + 1
       /\ \A k \in 1 .. Len(w) : w[k] = IF k <= Len(t) THEN t[k] ELSE s[n]
  BY <1>5, <1>8, <1>9, AppendFacts
<1>11. h = l + 1 /\ m + h - 1 = n
  BY <1>1, <1>2, <1>3
<1>12. \A k \in 1 .. h : w[k] = s[m + k - 1]
  <2>1. ASSUME NEW k \in 1 .. l PROVE w[k] = s[m + k - 1]
    BY <1>5, <1>10
  <2>2. w[h] = s[n]
    BY <1>5, <1>10, <1>11
  <2>3. \A k \in 1 .. h : k \in 1 .. l \/ k = h
    BY <1>11
  <2> QED
    BY <1>11, <2>1, <2>2, <2>3
<1>13. u = w
  <2>1. Len(u) = Len(w)
    BY <1>5, <1>7, <1>10, <1>11
  <2>2. \A k \in 1 .. Len(u) : u[k] = w[k]
    BY <1>7, <1>12
  <2> QED
    <3>1. u \in Seq(S) /\ w \in Seq(S)
      BY <1>7, <1>10
    <3> QED
      BY <3>1, <2>1, <2>2, SameSequence
<1> QED
  BY <1>1, <1>4, <1>6, <1>8, <1>13

-----------------------------------------------------------------------------
\* Timestamps: what one consists of

LEMMA SameNumbers ==
    /\ Stamps!Digits = Digits /\ Stamps!NatText = NatText
    /\ \A s : Stamps!NatOf(s) = NatOf(s)
    /\ \A c : Stamps!IsDigit(c) <=> c \in DigitChars
    /\ \A s : Stamps!IsText(s) <=> IsText(s)
<1>1. Stamps!Digits = Digits /\ Stamps!NatText = NatText
  BY DEF Stamps!NatText, NatText, Stamps!Digits, Digits
<1>2. \A c : Stamps!DigitValue(c) = DigitValue(c)
  BY <1>1 DEF Stamps!DigitValue, DigitValue
<1>3. \A s : Stamps!NatOf(s) = NatOf(s)
  BY <1>2 DEF Stamps!NatOf, NatOf
<1>4. \A c : Stamps!IsDigit(c) <=> c \in DigitChars
  BY <1>1 DEF Stamps!IsDigit, DigitChars
<1> QED
  BY <1>1, <1>3, <1>4 DEF Stamps!IsText, IsText

Number(t, m, n) == NatOf(SubSeq(t, m, n))

\* Where the fixed fields of a timestamp are, with the zone from q on.
Fields(t) ==
    /\ \A k \in {1, 2, 3, 4, 6, 7, 9, 10, 12, 13, 15, 16, 18, 19} : t[k] \in DigitChars
    /\ t[5] = "-" /\ t[8] = "-" /\ t[11] = "T" /\ t[14] = ":" /\ t[17] = ":"

FractionTo(t, q) ==
    \/ q = 20
    \/ q >= 22 /\ t[20] = "." /\ \A k \in 21 .. q - 1 : t[k] \in DigitChars

ZoneFrom(t, q) ==
    \/ Len(t) = q /\ t[q] = "Z"
    \/ /\ Len(t) = q + 5
       /\ t[q] \in {"+", "-"} /\ t[q + 3] = ":"
       /\ \A k \in {q + 1, q + 2, q + 4, q + 5} : t[k] \in DigitChars

Fraction(t, q) == IF q = 20 THEN <<>> ELSE SubSeq(t, 21, q - 1)

Parts(t, q) ==
    /\ q \in 20 .. Len(t)
    /\ Fields(t) /\ FractionTo(t, q) /\ ZoneFrom(t, q)
    /\ Stamps!FractionDigits(t) = Fraction(t, q)
    /\ Stamps!ZoneOf(t) = SubSeq(t, q, Len(t))

LEMMA FractionFound ==
    ASSUME NEW S, NEW t \in Seq(S), Len(t) >= 20, t[20] = "."
    PROVE  \E q \in 21 .. Len(t) + 1 :
              /\ Stamps!FractionDigits(t) = SubSeq(t, 21, q - 1)
              /\ \A k \in 21 .. q - 1 : t[k] \in DigitChars
<1> DEFINE rest == SubSeq(t, 21, Len(t))
           I == {k \in 1 .. Len(rest) : ~Stamps!IsDigit(rest[k])}
           stop == Stamps!SelectInSeq(rest, LAMBDA c : ~Stamps!IsDigit(c))
<1>1. PICK n \in Nat : n = Len(t)
  OBVIOUS
<1>2. /\ rest \in Seq(S) /\ Len(rest) = n - 20
      /\ \A k \in 1 .. n - 20 : rest[k] = t[20 + k]
  <2>1. PICK l \in Nat : l = n - 21 + 1
    BY <1>1
  <2>2. 21 <= n + 1 /\ n <= Len(t) /\ l = n - 20 /\ \A k \in Int : 21 + k - 1 = 20 + k
    BY <1>1, <2>1
  <2>3. IsPart(rest, t, 21, n, l)
    BY <1>1, <2>1, <2>2 DEF IsPart
  <2> HIDE DEF rest
  <2>4. rest \in Seq(S) /\ Len(rest) = l /\ \A k \in 1 .. l : rest[k] = t[21 + k - 1]
    BY <2>3, PartFacts DEF PartIs
  <2> QED
    BY <2>2, <2>4
<1>3. stop = IF I # {} THEN Stamps!Min(I) ELSE 0
  BY DEF Stamps!SelectInSeq
<1>4. Stamps!FractionDigits(t) = SubSeq(rest, 1, IF stop = 0 THEN Len(rest) ELSE stop - 1)
  <2>1. Len(t) > 19
    OBVIOUS
  <2> QED
    BY ONLY <2>1, t[20] = ".", Zenon DEF Stamps!FractionDigits
<1> HIDE DEF rest, stop
<1>5. PICK m \in 0 .. n - 20 :
         /\ m = IF stop = 0 THEN Len(rest) ELSE stop - 1
         /\ \A k \in 1 .. m : rest[k] \in DigitChars
  <2>1. CASE I = {}
    <3>1. stop = 0
      BY <1>3, <2>1
    <3>2. \A k \in 1 .. n - 20 : rest[k] \in DigitChars
      BY <1>2, <2>1, SameNumbers
    <3>3. n - 20 \in 0 .. n - 20
      BY <1>1
    <3> QED
      BY <1>2, <3>1, <3>2, <3>3
  <2>2. CASE I # {}
    <3>1. I \in SUBSET Nat
      OBVIOUS
    <3>2. stop \in I /\ \A k \in I : stop <= k
      <4> HIDE DEF I
      <4>1. \E x \in I : \A y \in I : x <= y
        BY <2>2, <3>1, NatLeast
      <4> QED
        BY <1>3, <2>2, <4>1 DEF Stamps!Min
    <3>3. stop \in 1 .. n - 20
      BY <1>2, <3>2
    <3>4. \A k \in 1 .. stop - 1 : k \in 1 .. Len(rest) /\ k \notin I
      BY <1>2, <3>2, <3>3
    <3>5. \A k \in 1 .. stop - 1 : rest[k] \in DigitChars
      BY <3>4, SameNumbers
    <3>6. stop - 1 \in 0 .. n - 20 /\ stop # 0
      BY <3>3
    <3> QED
      BY <3>5, <3>6
  <2> QED
    BY <2>1, <2>2
<1>6. SubSeq(rest, 1, m) = SubSeq(t, 21, 20 + m)
  <2>1. PICK x : x = SubSeq(rest, 1, m)
    OBVIOUS
  <2>2. x \in Seq(S) /\ Len(x) = m /\ \A k \in 1 .. m : x[k] = rest[k]
    <3>1. IsPart(x, rest, 1, m, m)
      BY <1>2, <2>1 DEF IsPart
    <3>2. \A k \in Int : 1 + k - 1 = k
      OBVIOUS
    <3> QED
      BY <1>2, <3>1, <3>2, PartFacts DEF PartIs
  <2>3. PICK y : y = SubSeq(t, 21, 20 + m)
    OBVIOUS
  <2>4. y \in Seq(S) /\ Len(y) = m /\ \A k \in 1 .. m : y[k] = t[20 + k]
    <3>1. PICK a : a = 20 + m
      OBVIOUS
    <3>2. IsPart(y, t, 21, a, m)
      BY <1>1, <2>3, <3>1 DEF IsPart
    <3>3. \A k \in Int : 21 + k - 1 = 20 + k
      OBVIOUS
    <3> QED
      BY <3>2, <3>3, PartFacts DEF PartIs
  <2>5. \A k \in 1 .. m : x[k] = y[k]
    <3>1. \A k \in 1 .. m : k \in 1 .. n - 20
      OBVIOUS
    <3> QED
      BY <1>2, <2>2, <2>4, <3>1
  <2>6. x = y
    BY <2>2, <2>4, <2>5, SameSequence
  <2> QED
    BY <2>1, <2>3, <2>6
<1>7. \A k \in 21 .. 20 + m : t[k] \in DigitChars
  <2>1. ASSUME NEW k \in 21 .. 20 + m PROVE t[k] \in DigitChars
    <3>1. k - 20 \in 1 .. m /\ 20 + (k - 20) = k /\ k - 20 \in 1 .. n - 20
      BY <1>1
    <3> QED
      BY <1>2, <1>5, <3>1
  <2> QED
    BY <2>1
<1>8. 21 + m \in 21 .. Len(t) + 1 /\ (21 + m) - 1 = 20 + m
  BY <1>1
<1> QED
  BY <1>4, <1>5, <1>6, <1>7, <1>8

Shifted(i, m, a) == a = m + i - 1

LEMMA PartOfPart ==
    ASSUME NEW S, NEW t \in Seq(S), NEW m, NEW n, NEW l, NEW u, IsPart(u, t, m, n, l),
           NEW i, NEW j, NEW h, NEW v, IsPart(v, u, i, j, h),
           NEW a, Shifted(i, m, a), NEW b, Shifted(j, m, b)
    PROVE  IsPart(v, t, a, b, h)
<1>1. PartIs(S, u, t, m, l)
  BY PartFacts
<1>2. u \in Seq(S) /\ Len(u) = l /\ \A k \in 1 .. l : u[k] = t[m + k - 1]
  BY <1>1 DEF PartIs
<1>3. PartIs(S, v, u, i, h)
  BY <1>2, PartFacts
<1>4. v \in Seq(S) /\ Len(v) = h /\ h \in Nat /\ \A k \in 1 .. h : v[k] = u[i + k - 1]
  BY <1>3 DEF PartIs
<1>5. a = m + i - 1 /\ a \in Int
  BY DEF IsPart, Shifted
<1>6. b = m + j - 1 /\ b \in Int
  BY DEF IsPart, Shifted
<1>7. PICK w : w = SubSeq(t, a, b)
  OBVIOUS
<1>8. /\ m \in Nat /\ i \in Nat /\ m >= 1 /\ i >= 1 /\ j <= l /\ h = j - i + 1
      /\ j \in Int /\ n \in Int /\ n <= Len(t) /\ l = n - m + 1
  BY <1>2 DEF IsPart
<1>9. IsPart(w, t, a, b, h)
  BY <1>4, <1>5, <1>6, <1>7, <1>8 DEF IsPart
<1>10. PartIs(S, w, t, a, h)
  BY <1>9, PartFacts
<1>11. w \in Seq(S) /\ Len(w) = h /\ \A k \in 1 .. h : w[k] = t[a + k - 1]
  BY <1>10 DEF PartIs
<1>12. ASSUME NEW k \in 1 .. h PROVE v[k] = w[k]
  <2>1. PICK e \in Int : e = i + k - 1
    BY <1>4, <1>8
  <2>2. e \in 1 .. l /\ m + e - 1 = a + k - 1
    BY <1>4, <1>5, <1>8, <2>1
  <2>3. v[k] = u[e] /\ u[e] = t[m + e - 1]
    BY <1>2, <1>4, <2>1, <2>2
  <2> QED
    BY <1>11, <2>2, <2>3
<1>13. v = w
  BY <1>4, <1>11, <1>12, SameSequence
<1> QED
  BY <1>9, <1>13

\* What the zone of a timestamp of RFC 3339 is.
ZoneBehind(t, q, z) ==
    /\ Len(t) >= 20 /\ q \in 20 .. Len(t) + 1 /\ z = SubSeq(t, q, Len(t))
    /\ z = <<"Z">> \/ Stamps!IsNumericZone(z)

ZoneIs(t, q, z) ==
    /\ q \in 20 .. Len(t) /\ ZoneFrom(t, q) /\ z[1] = t[q]
    /\ z = <<"Z">> <=> Len(t) = q
    /\ Len(t) # q => /\ SubSeq(z, 2, 3) = SubSeq(t, q + 1, q + 2)
                     /\ SubSeq(z, 5, 6) = SubSeq(t, q + 4, q + 5)

LEMMA ZoneFound ==
    ASSUME NEW S, NEW t \in Seq(S), NEW q, NEW z, ZoneBehind(t, q, z)
    PROVE  ZoneIs(t, q, z)
<1> USE DEF ZoneBehind, ZoneIs
<1>1. PICK n \in Nat : n = Len(t)
  OBVIOUS
<1>2. PICK l \in Nat : l = n - q + 1
  BY <1>1
<1>3. IsPart(z, t, q, n, l)
  BY <1>1, <1>2 DEF IsPart
<1>4. z \in Seq(S) /\ Len(z) = l /\ \A k \in 1 .. l : z[k] = t[q + k - 1]
  <2>1. PartIs(S, z, t, q, l)
    BY <1>3, PartFacts
  <2> QED
    BY <2>1 DEF PartIs
<1>5. CASE z = <<"Z">>
  <2>1. l = 1 /\ n = q /\ z[1] = "Z" /\ z[1] = t[q + 1 - 1] /\ q + 1 - 1 = q
    <3>1. Len(z) = 1 /\ z[1] = "Z"
      BY <1>5
    <3>2. l = 1
      BY <1>4, <3>1
    <3> QED
      BY <1>2, <1>4, <3>1, <3>2
  <2> QED
    BY <1>1, <1>5, <2>1 DEF ZoneFrom
<1>6. CASE z # <<"Z">>
  <2>1. /\ l = 6 /\ n = q + 5 /\ z[1] \in {"+", "-"} /\ z[4] = ":"
        /\ \A k \in {2, 3, 5, 6} : z[k] \in DigitChars
    BY <1>2, <1>4, <1>6, SameNumbers DEF Stamps!IsNumericZone, Stamps!AllDigits
  <2>2. z[1] = t[q] /\ z[4] = t[q + 3]
    <3>1. 1 \in 1 .. l /\ 4 \in 1 .. l /\ q + 1 - 1 = q /\ q + 4 - 1 = q + 3
      BY <2>1
    <3> QED
      BY <1>4, <3>1
  <2>3. z[2] = t[q + 1] /\ z[3] = t[q + 2] /\ z[5] = t[q + 4] /\ z[6] = t[q + 5]
    <3>1. /\ {2, 3, 5, 6} \subseteq 1 .. l
          /\ q + 2 - 1 = q + 1 /\ q + 3 - 1 = q + 2 /\ q + 5 - 1 = q + 4 /\ q + 6 - 1 = q + 5
      BY <2>1
    <3> QED
      BY <1>4, <3>1
  <2>4. ZoneFrom(t, q)
    BY <1>1, <2>1, <2>2, <2>3 DEF ZoneFrom
  <2>5. SubSeq(z, 2, 3) = SubSeq(t, q + 1, q + 2)
    <3>1. PICK v : v = SubSeq(z, 2, 3)
      OBVIOUS
    <3>2. IsPart(v, z, 2, 3, 2)
      BY <1>4, <2>1, <3>1 DEF IsPart
    <3>3. PICK a : a = q + 1
      OBVIOUS
    <3>4. PICK b : b = q + 2
      OBVIOUS
    <3>5. Shifted(2, q, a) /\ Shifted(3, q, b)
      BY <3>3, <3>4 DEF Shifted
    <3>6. IsPart(v, t, a, b, 2)
      BY <1>3, <3>2, <3>5, PartOfPart
    <3> QED
      BY <3>1, <3>3, <3>4, <3>6 DEF IsPart
  <2>6. SubSeq(z, 5, 6) = SubSeq(t, q + 4, q + 5)
    <3>1. PICK v : v = SubSeq(z, 5, 6)
      OBVIOUS
    <3>2. IsPart(v, z, 5, 6, 2)
      BY <1>4, <2>1, <3>1 DEF IsPart
    <3>3. PICK a : a = q + 4
      OBVIOUS
    <3>4. PICK b : b = q + 5
      OBVIOUS
    <3>5. Shifted(5, q, a) /\ Shifted(6, q, b)
      BY <3>3, <3>4 DEF Shifted
    <3>6. IsPart(v, t, a, b, 2)
      BY <1>3, <3>2, <3>5, PartOfPart
    <3> QED
      BY <3>1, <3>3, <3>4, <3>6 DEF IsPart
  <2>7. q \in 20 .. Len(t) /\ Len(t) # q
    BY <1>1, <2>1
  <2> QED
    BY <1>6, <2>2, <2>4, <2>5, <2>6, <2>7
<1> QED
  BY <1>5, <1>6

\* A timestamp of RFC 3339 and the instant it denotes.
ZoneHour(t, q) == IF Len(t) = q THEN 0 ELSE Number(t, q + 1, q + 2)
ZoneMinute(t, q) == IF Len(t) = q THEN 0 ELSE Number(t, q + 4, q + 5)
Offset(t, q) == (ZoneHour(t, q) * 60 + ZoneMinute(t, q)) * 60
DayTime(t) ==
    [YEAR |-> Number(t, 1, 4), MON |-> Number(t, 6, 7), MDAY |-> Number(t, 9, 10),
     HOUR |-> Number(t, 12, 13), MIN |-> Number(t, 15, 16), SEC |-> Number(t, 18, 19)]

LEMMA Anatomy ==
    ASSUME NEW t, IsText(t), Stamps!IsRfc3339(t)
    PROVE  \E q : Parts(t, q)
<1> DEFINE S == {t[k] : k \in DOMAIN t}
           z == Stamps!ZoneOf(t)
<1>1. t \in Seq(S)
  BY DEF IsText
<1> HIDE DEF S
<1>2. /\ Len(t) >= 20 /\ Fields(t)
      /\ z = <<"Z">> \/ Stamps!IsNumericZone(z)
  BY SameNumbers DEF Stamps!IsRfc3339, Stamps!AllDigits, Fields
<1>3. CASE t[20] # "."
  <2>1. Stamps!FractionDigits(t) = <<>>
    BY <1>3 DEF Stamps!FractionDigits
  <2>2. z = SubSeq(t, 20, Len(t))
    BY <2>1 DEF Stamps!ZoneOf
  <2> HIDE DEF z
  <2>3. ZoneBehind(t, 20, z)
    BY <1>1, <1>2, <2>2 DEF ZoneBehind
  <2>4. 20 \in 20 .. Len(t) /\ ZoneFrom(t, 20)
    BY <1>1, <2>3, ZoneFound DEF ZoneIs
  <2>5. Parts(t, 20)
    BY <1>2, <2>1, <2>2, <2>4 DEF Parts, FractionTo, Fraction, z
  <2> QED
    BY <2>5
<1>4. CASE t[20] = "."
  <2>1. PICK q \in 21 .. Len(t) + 1 :
           /\ Stamps!FractionDigits(t) = SubSeq(t, 21, q - 1)
           /\ \A k \in 21 .. q - 1 : t[k] \in DigitChars
    BY <1>1, <1>2, <1>4, FractionFound
  <2>2. PICK n \in Nat : n = Len(t)
    BY <1>1
  <2>3. PICK f : f = Stamps!FractionDigits(t)
    OBVIOUS
  <2>4. PICK a \in Int : a = q - 1
    BY <2>1
  <2>5. PICK l \in Nat : l = q - 21
    BY <2>1
  <2>6. IsPart(f, t, 21, a, l)
    BY <1>1, <2>1, <2>2, <2>3, <2>4, <2>5 DEF IsPart
  <2>7. f \in Seq(S) /\ Len(f) = l
    BY <1>1, <2>6, PartFacts DEF PartIs
  <2>8. f # <<>>
    <3>1. SUFFICES ASSUME f = <<>> PROVE FALSE
      OBVIOUS
    <3>2. z = SubSeq(t, 20, Len(t))
      BY <2>3, <3>1 DEF Stamps!ZoneOf
    <3> HIDE DEF z
    <3>3. ZoneBehind(t, 20, z)
      BY <1>1, <1>2, <3>2 DEF ZoneBehind
    <3>4. ZoneFrom(t, 20)
      BY <1>1, <3>3, ZoneFound DEF ZoneIs
    <3> QED
      BY <1>4, <3>4 DEF ZoneFrom
  <2>9. z = SubSeq(t, q, Len(t))
    <3>1. 20 + (1 + Len(f)) = q
      BY <2>5, <2>7, <2>1
    <3> QED
      BY <2>3, <2>8, <3>1 DEF Stamps!ZoneOf
  <2> HIDE DEF z
  <2>10. ZoneBehind(t, q, z)
    BY <1>2, <2>1, <2>2, <2>9 DEF ZoneBehind
  <2>11. q \in 20 .. Len(t) /\ ZoneFrom(t, q)
    BY <1>1, <2>10, ZoneFound DEF ZoneIs
  <2>12. q >= 22
    <3>1. l # 0
      <4>1. \A s \in Seq(S) : Len(s) = 0 => s = <<>>
        OBVIOUS
      <4> QED
        BY <2>7, <2>8, <4>1
    <3> QED
      BY <2>1, <2>5, <3>1
  <2>13. Parts(t, q)
    BY <1>2, <1>4, <2>1, <2>9, <2>11, <2>12 DEF Parts, FractionTo, Fraction, z
  <2> QED
    BY <2>13
<1> QED
  BY <1>3, <1>4

LEMMA DenotedInstant ==
    ASSUME NEW t, IsText(t), Stamps!IsRfc3339(t), NEW q, Parts(t, q)
    PROVE  /\ Stamps!FractionDigits(t) = Fraction(t, q)
           /\ Stamps!Denoted(t) =
                 Stamps!TimeOf(DayTime(t))
                 - (IF t[q] = "-" THEN -Offset(t, q) ELSE Offset(t, q))
<1> DEFINE S == {t[k] : k \in DOMAIN t}
           z == Stamps!ZoneOf(t)
<1>1. t \in Seq(S)
  BY DEF IsText
<1> HIDE DEF S
<1>2. Len(t) >= 20 /\ (z = <<"Z">> \/ Stamps!IsNumericZone(z))
  BY DEF Stamps!IsRfc3339
<1>3. q \in 20 .. Len(t) + 1 /\ z = SubSeq(t, q, Len(t)) /\ q \in Nat
  BY <1>1 DEF Parts
<1>4. ZoneIs(t, q, z)
  <2> HIDE DEF z
  <2>1. ZoneBehind(t, q, z)
    BY <1>2, <1>3 DEF ZoneBehind
  <2> QED
    BY <1>1, <2>1, ZoneFound
<1>5. PICK offset : offset = IF z = <<"Z">> THEN 0
                             ELSE (Stamps!NatOf(SubSeq(z, 2, 3)) * 60
                                   + Stamps!NatOf(SubSeq(z, 5, 6))) * 60
  OBVIOUS
<1>6. Stamps!Denoted(t) = Stamps!TimeOf(DayTime(t)) - (IF z[1] = "-" THEN -offset ELSE offset)
  BY <1>5, SameNumbers DEF Stamps!Denoted, DayTime, Number
<1>7. offset = Offset(t, q)
  <2> HIDE DEF z
  <2>1. CASE Len(t) = q
    BY <1>4, <1>5, <2>1 DEF ZoneIs, ZoneHour, ZoneMinute, Offset
  <2>2. CASE Len(t) # q
    BY <1>4, <1>5, <2>2, SameNumbers DEF ZoneIs, ZoneHour, ZoneMinute, Number, Offset
  <2> QED
    BY <2>1, <2>2
<1> QED
  BY <1>4, <1>6, <1>7 DEF ZoneIs, Parts

-----------------------------------------------------------------------------
\* Timestamps: how far the parser is in one of RFC 3339

States == DOMAIN Stamps!Zeroed
DateFields == {"YEAR", "MON", "MDAY", "HOUR", "MIN", "SEC"}
ZoneFields == {"ZONE_HOUR", "ZONE_MIN"}

\* Where a field begins, and the place behind it.
From(q) ==
    [YEAR |-> 1, MON |-> 6, MDAY |-> 9, HOUR |-> 12, MIN |-> 15, SEC |-> 18,
     SUBSEC |-> 21, ZONE_HOUR |-> q + 1, ZONE_MIN |-> q + 4]
Behind(q) ==
    [YEAR |-> 5, MON |-> 8, MDAY |-> 11, HOUR |-> 14, MIN |-> 17, SEC |-> 20,
     SUBSEC |-> q, ZONE_HOUR |-> q + 3, ZONE_MIN |-> q + 6]

\* The fields that a timestamp has.
Present(t, q) ==
    DateFields \cup (IF q = 20 THEN {} ELSE {"SUBSEC"})
               \cup (IF Len(t) = q THEN {} ELSE ZoneFields)

Progress(q) ==
    /\ state \in Present(text, q) \cup {"END"}
    /\ state # "END" =>
          /\ From(q)[state] <= at /\ at <= Behind(q)[state]
          /\ tmp = SubSeq(text, From(q)[state], at - 1)
    /\ state = "END" => at = IF Len(text) = q THEN q + 1 ELSE q + 7
    /\ \A f \in DateFields \cup ZoneFields :
          /\ at > Behind(q)[f] => tm[f] = Number(text, From(q)[f], Behind(q)[f] - 1)
          /\ at <= Behind(q)[f] /\ f \in ZoneFields => tm[f] = 0
    /\ usec = IF q # 20 /\ at > q THEN Stamps!Microseconds(Fraction(text, q)) ELSE 0
    /\ sign = IF at > q /\ text[q] = "-" THEN -1 ELSE 1

StampTypes ==
    /\ state \in States \cup {"END"} /\ at \in Nat
    /\ tmp \in Seq(DigitChars) /\ tm \in [States -> Nat] /\ zone \in Int
    /\ IsText(text)

StampInv ==
    /\ StampTypes
    /\ pc = "start" =>
          /\ at = 1 /\ state = "YEAR" /\ tmp = <<>> /\ sign = 1 /\ usec = 0
          /\ tm.ZONE_HOUR = 0 /\ tm.ZONE_MIN = 0 /\ written = {}
    /\ \A time \in written : time \in Nat /\ text = Stamps!Written(time, 0)
    /\ pc \in {"parsing", "accepted"} => \A q : Parts(text, q) => Progress(q)
    /\ pc = "accepted" =>
          /\ state = "END"
          /\ target = "device" =>
                unixtime = Stamps!TimeOf(tm) - zone
                           - sign * (tm.ZONE_HOUR * 3600 + tm.ZONE_MIN * 60)

LEMMA States9 ==
    /\ States = DateFields \cup ZoneFields \cup {"SUBSEC"}
    /\ "END" \notin States
    /\ \A q : DOMAIN From(q) = States /\ DOMAIN Behind(q) = States
<1>1. States = DateFields \cup ZoneFields \cup {"SUBSEC"}
  BY DEF States, DateFields, ZoneFields, Stamps!Zeroed
<1> QED
  BY <1>1 DEF From, Behind, DateFields, ZoneFields

FieldTable(q) ==
    /\ From(q)["YEAR"] = 1 /\ Behind(q)["YEAR"] = 5
    /\ From(q)["MON"] = 6 /\ Behind(q)["MON"] = 8
    /\ From(q)["MDAY"] = 9 /\ Behind(q)["MDAY"] = 11
    /\ From(q)["HOUR"] = 12 /\ Behind(q)["HOUR"] = 14
    /\ From(q)["MIN"] = 15 /\ Behind(q)["MIN"] = 17
    /\ From(q)["SEC"] = 18 /\ Behind(q)["SEC"] = 20
    /\ From(q)["SUBSEC"] = 21 /\ Behind(q)["SUBSEC"] = q
    /\ From(q)["ZONE_HOUR"] = q + 1 /\ Behind(q)["ZONE_HOUR"] = q + 3
    /\ From(q)["ZONE_MIN"] = q + 4 /\ Behind(q)["ZONE_MIN"] = q + 6

LEMMA FieldPlaces ==
    ASSUME NEW q
    PROVE  FieldTable(q)
  BY DEF FieldTable, From, Behind

\* The digits of a field and what is behind them.
DigitsFrom(t, a, b) ==
    /\ a \in Nat /\ b \in Nat /\ 1 <= a /\ a < b /\ b <= Len(t) + 1
    /\ \A k \in a .. b - 1 : t[k] \in DigitChars
    /\ b <= Len(t) => t[b] \notin DigitChars

Placed(t, q, f) ==
    /\ DigitsFrom(t, From(q)[f], Behind(q)[f])
    /\ Behind(q)[f] = Len(t) + 1 <=> f = "ZONE_MIN"

LEMMA Places ==
    ASSUME NEW S, NEW t \in Seq(S), NEW q, Parts(t, q), NEW f \in Present(t, q)
    PROVE  f \in States /\ Placed(t, q, f)
<1>1. /\ q \in Nat /\ q >= 20 /\ Len(t) \in Nat /\ q <= Len(t)
      /\ Fields(t) /\ FractionTo(t, q) /\ ZoneFrom(t, q)
  BY DEF Parts
<1>2. t[q] \notin DigitChars /\ t[20] \notin DigitChars
  BY <1>1, DigitFacts DEF ZoneFrom, FractionTo
<1>3. \A c \in {"-", ":", "T"} : c \notin DigitChars
  BY DigitFacts
<1>4. FieldTable(q)
  BY FieldPlaces
<1>5. CASE f \in DateFields
  <2>1. /\ t[1] \in DigitChars /\ t[2] \in DigitChars /\ t[3] \in DigitChars
        /\ t[4] \in DigitChars /\ t[6] \in DigitChars /\ t[7] \in DigitChars
        /\ t[9] \in DigitChars /\ t[10] \in DigitChars /\ t[12] \in DigitChars
        /\ t[13] \in DigitChars /\ t[15] \in DigitChars /\ t[16] \in DigitChars
        /\ t[18] \in DigitChars /\ t[19] \in DigitChars
        /\ t[5] \notin DigitChars /\ t[8] \notin DigitChars /\ t[11] \notin DigitChars
        /\ t[14] \notin DigitChars /\ t[17] \notin DigitChars
    BY <1>1, <1>3 DEF Fields
  <2>2. f \in States /\ f # "ZONE_MIN"
    BY <1>5, States9 DEF DateFields
  <2>3. PICK n \in Nat : n = Len(t) /\ n >= 20
    BY <1>1
  <2>4. /\ DigitsFrom(t, 1, 5) /\ DigitsFrom(t, 6, 8) /\ DigitsFrom(t, 9, 11)
        /\ DigitsFrom(t, 12, 14) /\ DigitsFrom(t, 15, 17) /\ DigitsFrom(t, 18, 20)
    <3>1. /\ \A k \in 1 .. 5 - 1 : k = 1 \/ k = 2 \/ k = 3 \/ k = 4
          /\ \A k \in 6 .. 8 - 1 : k = 6 \/ k = 7
          /\ \A k \in 9 .. 11 - 1 : k = 9 \/ k = 10
          /\ \A k \in 12 .. 14 - 1 : k = 12 \/ k = 13
          /\ \A k \in 15 .. 17 - 1 : k = 15 \/ k = 16
          /\ \A k \in 18 .. 20 - 1 : k = 18 \/ k = 19
      OBVIOUS
    <3>2. \A k \in {5, 8, 11, 14, 17, 20} : k <= Len(t) + 1
      BY <2>3
    <3> QED
      BY <1>2, <2>1, <3>1, <3>2 DEF DigitsFrom
  <2>5. \A k \in {5, 8, 11, 14, 17, 20} : k # Len(t) + 1
    BY <2>3
  <2> QED
    BY <1>4, <1>5, <2>2, <2>4, <2>5, Zenon DEF FieldTable, DateFields, Placed
<1>6. CASE f = "SUBSEC"
  <2>1. q # 20
    BY <1>6 DEF Present, DateFields, ZoneFields
  <2>2. DigitsFrom(t, 21, q) /\ q # Len(t) + 1
    BY <1>1, <1>2, <2>1 DEF DigitsFrom, FractionTo
  <2>3. f \in States /\ f # "ZONE_MIN"
    BY <1>6, States9
  <2> QED
    BY <1>4, <1>6, <2>2, <2>3, Zenon DEF FieldTable, Placed
<1>7. CASE f \in ZoneFields
  <2>1. Len(t) = q + 5 /\ t[q + 3] = ":" /\ \A k \in {q + 1, q + 2, q + 4, q + 5} : t[k] \in DigitChars
    BY <1>1, <1>7 DEF Present, DateFields, ZoneFields, ZoneFrom
  <2>2. /\ t[q + 1] \in DigitChars /\ t[q + 2] \in DigitChars /\ t[q + 3] \notin DigitChars
        /\ t[q + 4] \in DigitChars /\ t[q + 5] \in DigitChars
    BY <1>3, <2>1
  <2>3. /\ \A k \in q + 1 .. (q + 3) - 1 : k = q + 1 \/ k = q + 2
        /\ \A k \in q + 4 .. (q + 6) - 1 : k = q + 4 \/ k = q + 5
    BY <1>1
  <2>4. DigitsFrom(t, q + 1, q + 3) /\ q + 3 # Len(t) + 1
    BY <1>1, <2>1, <2>2, <2>3 DEF DigitsFrom
  <2>5. DigitsFrom(t, q + 4, q + 6) /\ q + 6 = Len(t) + 1
    BY <1>1, <2>1, <2>2, <2>3 DEF DigitsFrom
  <2>6. f \in States
    BY <1>7, States9
  <2>7. CASE f = "ZONE_HOUR"
    <3>1. f # "ZONE_MIN"
      BY <2>7
    <3> QED
      BY <1>4, <2>4, <2>6, <2>7, <3>1, Zenon DEF FieldTable, Placed
  <2>8. CASE f = "ZONE_MIN"
    BY <1>4, <2>5, <2>6, <2>8, Zenon DEF FieldTable, Placed
  <2> QED
    BY <1>7, <2>7, <2>8 DEF ZoneFields
<1> QED
  BY <1>5, <1>6, <1>7 DEF Present

Separated(t, q) ==
    /\ q \in Nat /\ q >= 20 /\ q <= Len(t)
    /\ \A f \in States : \A k \in 1 .. Len(t) :
          t[k] \in DigitChars => k # Behind(q)[f] /\ k # q
    /\ \A f \in States : Behind(q)[f] \in Nat /\ From(q)[f] \in Nat
    /\ \A f \in DateFields \cup ZoneFields : \A g \in Present(t, q) :
          Behind(q)[f] = Behind(q)[g] => f = g
    /\ \A g \in Present(t, q) : Behind(q)[g] = q /\ q # 20 => g = "SUBSEC"

LEMMA Separators ==
    ASSUME NEW S, NEW t \in Seq(S), NEW q, Parts(t, q)
    PROVE  Separated(t, q)
<1>0. FieldTable(q)
  BY FieldPlaces
<1>1. /\ q \in Nat /\ q >= 20 /\ Len(t) \in Nat /\ q <= Len(t)
      /\ Fields(t) /\ FractionTo(t, q) /\ ZoneFrom(t, q)
  BY DEF Parts
<1>2. t[q] \notin DigitChars /\ t[20] \notin DigitChars
  BY <1>1, DigitFacts DEF ZoneFrom, FractionTo
<1>3. \A c \in {"-", ":", "T"} : c \notin DigitChars
  BY DigitFacts
<1>4. \A f \in States : Behind(q)[f] \in Nat /\ From(q)[f] \in Nat
  <2>1. q + 1 \in Nat /\ q + 3 \in Nat /\ q + 4 \in Nat /\ q + 6 \in Nat
    BY <1>1
  <2>2. \A k \in 1 .. 21 : k \in Nat
    OBVIOUS
  <2>3. {1, 5, 6, 8, 9, 11, 12, 14, 15, 17, 18, 20, 21} \subseteq 1 .. 21
    OBVIOUS
  <2>4. /\ 1 \in Nat /\ 5 \in Nat /\ 6 \in Nat /\ 8 \in Nat /\ 9 \in Nat /\ 11 \in Nat
        /\ 12 \in Nat /\ 14 \in Nat /\ 15 \in Nat /\ 17 \in Nat /\ 18 \in Nat /\ 20 \in Nat
        /\ 21 \in Nat
    BY <2>2, <2>3
  <2>5. ASSUME NEW f \in DateFields PROVE Behind(q)[f] \in Nat /\ From(q)[f] \in Nat
    BY <1>0, <2>4, Zenon DEF FieldTable, DateFields
  <2>6. ASSUME NEW f \in ZoneFields \cup {"SUBSEC"}
        PROVE  Behind(q)[f] \in Nat /\ From(q)[f] \in Nat
    BY <1>0, <1>1, <2>1, <2>4, Zenon DEF FieldTable, ZoneFields
  <2> QED
    BY <2>5, <2>6, States9
<1>5. ASSUME NEW f \in States, NEW k \in 1 .. Len(t), t[k] \in DigitChars
      PROVE  k # Behind(q)[f] /\ k # q
  <2>1. Len(t) = q \/ (Len(t) = q + 5 /\ t[q + 3] = ":")
    BY <1>1 DEF ZoneFrom
  <2>2. CASE f \in DateFields
    <3>1. /\ t[5] \notin DigitChars /\ t[8] \notin DigitChars /\ t[11] \notin DigitChars
          /\ t[14] \notin DigitChars /\ t[17] \notin DigitChars
      BY <1>1, <1>3 DEF Fields
    <3> QED
      BY <1>0, <1>2, <1>5, <2>2, <3>1 DEF DateFields, FieldTable
  <2>3. CASE f = "SUBSEC"
    BY <1>0, <1>2, <1>5, <2>3 DEF FieldTable
  <2>4. CASE f \in ZoneFields
    BY <1>0, <1>1, <1>2, <1>3, <1>5, <2>1, <2>4 DEF ZoneFields, FieldTable
  <2> QED
    BY <2>2, <2>3, <2>4, States9
<1>6. q = 20 \/ q >= 22
  BY <1>1 DEF FractionTo
<1>7. ASSUME NEW f \in States
      PROVE  \/ (f = "YEAR" /\ Behind(q)[f] = 5) \/ (f = "MON" /\ Behind(q)[f] = 8)
             \/ (f = "MDAY" /\ Behind(q)[f] = 11) \/ (f = "HOUR" /\ Behind(q)[f] = 14)
             \/ (f = "MIN" /\ Behind(q)[f] = 17) \/ (f = "SEC" /\ Behind(q)[f] = 20)
             \/ (f = "SUBSEC" /\ Behind(q)[f] = q)
             \/ (f = "ZONE_HOUR" /\ Behind(q)[f] = q + 3)
             \/ (f = "ZONE_MIN" /\ Behind(q)[f] = q + 6)
  BY <1>0, States9, Zenon DEF FieldTable, DateFields, ZoneFields
<1>8. Present(t, q) \subseteq States /\ (q = 20 => "SUBSEC" \notin Present(t, q))
  BY States9 DEF Present, DateFields, ZoneFields
<1>9. ASSUME NEW f \in DateFields \cup ZoneFields, NEW g \in Present(t, q),
             Behind(q)[f] = Behind(q)[g]
      PROVE  f = g
  <2>1. PICK b \in Nat : b = Behind(q)[f] /\ b = Behind(q)[g]
    BY <1>4, <1>8, <1>9
  <2>2. f # "SUBSEC" /\ f \in States /\ g \in States
    BY <1>8, States9 DEF DateFields, ZoneFields
  <2>3. \/ (f = "YEAR" /\ b = 5) \/ (f = "MON" /\ b = 8) \/ (f = "MDAY" /\ b = 11)
        \/ (f = "HOUR" /\ b = 14) \/ (f = "MIN" /\ b = 17) \/ (f = "SEC" /\ b = 20)
        \/ (f = "ZONE_HOUR" /\ b = q + 3) \/ (f = "ZONE_MIN" /\ b = q + 6)
    BY <1>7, <2>1, <2>2, Zenon
  <2>4. \/ (g = "YEAR" /\ b = 5) \/ (g = "MON" /\ b = 8) \/ (g = "MDAY" /\ b = 11)
        \/ (g = "HOUR" /\ b = 14) \/ (g = "MIN" /\ b = 17) \/ (g = "SEC" /\ b = 20)
        \/ (g = "SUBSEC" /\ b = q) \/ (g = "ZONE_HOUR" /\ b = q + 3)
        \/ (g = "ZONE_MIN" /\ b = q + 6)
    BY <1>7, <2>1, <2>2, Zenon
  <2>5. g = "SUBSEC" => b >= 22
    BY <1>1, <1>6, <1>8, <2>4
  <2> QED
    BY <1>1, <2>3, <2>4, <2>5
<1>10. ASSUME NEW g \in Present(t, q), Behind(q)[g] = q, q # 20 PROVE g = "SUBSEC"
  <2>1. q >= 22 /\ g \in States
    BY <1>6, <1>8, <1>10
  <2>2. \/ (g = "YEAR" /\ q = 5) \/ (g = "MON" /\ q = 8) \/ (g = "MDAY" /\ q = 11)
        \/ (g = "HOUR" /\ q = 14) \/ (g = "MIN" /\ q = 17) \/ (g = "SEC" /\ q = 20)
        \/ g = "SUBSEC" \/ (g = "ZONE_HOUR" /\ q = q + 3)
        \/ (g = "ZONE_MIN" /\ q = q + 6)
    BY <1>7, <1>10, <2>1, Zenon
  <2> QED
    BY <1>1, <2>1, <2>2
<1> QED
  BY <1>1, <1>4, <1>5, <1>9, <1>10 DEF Separated

\* Where the parser is in a field, and what it has of it.
InField(q, a, b) ==
    /\ state \in Present(text, q) /\ state \in States
    /\ a = From(q)[state] /\ b = Behind(q)[state] /\ DigitsFrom(text, a, b)
    /\ b = Len(text) + 1 <=> state = "ZONE_MIN"
    /\ a <= at /\ at <= b /\ tmp = SubSeq(text, a, at - 1)

LEMMA AtField ==
    ASSUME StampTypes, NEW q, Parts(text, q), Progress(q), state # "END"
    PROVE  \E a, b \in Nat : InField(q, a, b)
<1>1. state \in Present(text, q)
  BY DEF Progress
<1>2. \E S : text \in Seq(S)
  BY DEF StampTypes, IsText
<1>3. state \in States /\ Placed(text, q, state)
  BY <1>1, <1>2, Places
<1>4. From(q)[state] \in Nat /\ Behind(q)[state] \in Nat
  BY <1>3 DEF Placed, DigitsFrom
<1>5. /\ From(q)[state] <= at /\ at <= Behind(q)[state]
      /\ tmp = SubSeq(text, From(q)[state], at - 1)
  BY DEF Progress
<1>6. InField(q, From(q)[state], Behind(q)[state])
  BY <1>1, <1>3, <1>5 DEF InField, Placed
<1> QED
  BY <1>4, <1>6

\* One more digit of a field.
LEMMA DigitMoves ==
    ASSUME StampTypes, NEW q, Parts(text, q), Progress(q), state # "END",
           at <= Len(text), text[at] \in DigitChars,
           Appended(tmp, text[at], tmp'), at' = at + 1, UNCHANGED <<text, state, tm, sign, usec>>
    PROVE  Progress(q)'
<1>1. PICK a \in Nat, b \in Nat : InField(q, a, b)
  BY AtField
<1>2. PICK S : text \in Seq(S)
  BY DEF StampTypes, IsText
<1>3. at \in Nat /\ at >= 1 /\ a >= 1 /\ a <= at /\ at <= b /\ at \in 1 .. Len(text)
  BY <1>1, <1>2 DEF StampTypes, InField, DigitsFrom
<1>4. /\ q \in Nat /\ \A f \in States : at # Behind(q)[f] /\ Behind(q)[f] \in Nat
      /\ at # q
  <2>1. Separated(text, q)
    BY <1>2, Separators
  <2>2. \E f \in States : TRUE
    BY States9 DEF ZoneFields
  <2> QED
    BY <1>3, <2>1, <2>2 DEF Separated
<1>5. at + 1 <= b /\ b = Behind(q)[state] /\ a = From(q)[state]
  BY <1>1, <1>3, <1>4 DEF InField
<1>6. tmp' = SubSeq(text, a, at)
  <2>1. Appended(SubSeq(text, a, at - 1), text[at], SubSeq(text, a, at))
    BY <1>2, <1>3, PartGrows
  <2> QED
    BY <1>1, <2>1 DEF Appended, InField
<1>7. \A f \in DateFields \cup ZoneFields :
         /\ f \in States
         /\ at + 1 > Behind(q)[f] <=> at > Behind(q)[f]
         /\ at + 1 <= Behind(q)[f] <=> at <= Behind(q)[f]
  BY <1>3, <1>4, States9
<1>8. at + 1 > q <=> at > q
  BY <1>3, <1>4
<1>9. at + 1 - 1 = at
  BY <1>3
<1>10. state \in Present(text, q)
  BY <1>1 DEF InField
<1>11. \A f \in DateFields \cup ZoneFields :
          /\ at' > Behind(q)[f] => tm'[f] = Number(text', From(q)[f], Behind(q)[f] - 1)
          /\ at' <= Behind(q)[f] /\ f \in ZoneFields => tm'[f] = 0
  BY <1>7 DEF Progress
<1>12. /\ usec' = IF q # 20 /\ at' > q THEN Stamps!Microseconds(Fraction(text', q)) ELSE 0
       /\ sign' = IF at' > q /\ text'[q] = "-" THEN -1 ELSE 1
  BY <1>8 DEF Progress
<1>13. From(q)[state'] <= at' /\ at' <= Behind(q)[state'] /\ tmp' = SubSeq(text', From(q)[state'], at' - 1)
  BY <1>3, <1>5, <1>6, <1>9
<1> QED
  BY <1>10, <1>11, <1>12, <1>13 DEF Progress

LEMMA AtBehind ==
    ASSUME StampTypes, NEW q, Parts(text, q), Progress(q), state # "END",
           at > Len(text) \/ text[at] \notin DigitChars
    PROVE  /\ state \in Present(text, q) /\ state \in States
           /\ at = Behind(q)[state] /\ (at = Len(text) + 1 <=> state = "ZONE_MIN")
           /\ tmp = SubSeq(text, From(q)[state], Behind(q)[state] - 1)
<1>1. PICK a \in Nat, b \in Nat : InField(q, a, b)
  BY AtField
<1>2. PICK S : text \in Seq(S)
  BY DEF StampTypes, IsText
<1>3. PICK n \in Nat : n = Len(text)
  BY <1>2
<1>4. at \in Nat /\ a <= at /\ at <= b /\ b <= n + 1
  BY <1>1, <1>3 DEF StampTypes, InField, DigitsFrom
<1>5. at = b
  <2>1. SUFFICES ASSUME at # b PROVE FALSE
    OBVIOUS
  <2>2. at \in a .. b - 1 /\ at <= n
    BY <1>4, <2>1
  <2>3. text[at] \in DigitChars
    BY <1>1, <2>2 DEF InField, DigitsFrom
  <2> QED
    BY <1>3, <2>2, <2>3
<1> QED
  BY <1>1, <1>5 DEF InField

\* One field ended and the next begun.
LEMMA FieldMoves ==
    ASSUME StampTypes, NEW q, Parts(text, q), Progress(q), state # "END",
           at > Len(text) \/ text[at] \notin DigitChars,
           NEW next, NEW newSign, Stamps!Field(next, newSign), pc' # "refused",
           next \in Present(text, q) \cup {"END"},
           next # "END" => From(q)[next] = at + 1,
           next = "END" => at + 1 = IF Len(text) = q THEN q + 1 ELSE q + 7,
           newSign = IF at + 1 > q /\ text[q] = "-" THEN -1 ELSE 1
    PROVE  Progress(q)'
<1>1. /\ state \in Present(text, q) /\ state \in States
      /\ at = Behind(q)[state] /\ (at = Len(text) + 1 <=> state = "ZONE_MIN")
      /\ tmp = SubSeq(text, From(q)[state], Behind(q)[state] - 1)
  BY AtBehind
<1>2. PICK S : text \in Seq(S)
  BY DEF StampTypes, IsText
<1>3. Separated(text, q)
  BY <1>2, Separators
<1>4. /\ IF state = "SUBSEC"
         THEN usec' = Stamps!Microseconds(tmp) /\ UNCHANGED tm
         ELSE tm' = [tm EXCEPT ![state] = NatOf(tmp)] /\ UNCHANGED usec
      /\ state' = next /\ sign' = newSign /\ tmp' = <<>> /\ at' = at + 1 /\ UNCHANGED text
  BY SameNumbers DEF Stamps!Field, Stamps!Refuse
<1>5. at \in Nat /\ q \in Nat /\ \A f \in States : Behind(q)[f] \in Nat
  BY <1>3 DEF StampTypes, Separated
<1>6. ASSUME NEW f \in DateFields \cup ZoneFields
      PROVE  /\ at' > Behind(q)[f] => tm'[f] = Number(text', From(q)[f], Behind(q)[f] - 1)
             /\ at' <= Behind(q)[f] /\ f \in ZoneFields => tm'[f] = 0
  <2>1. f \in States /\ f # "SUBSEC"
    BY <1>6, States9 DEF DateFields, ZoneFields
  <2>2. Behind(q)[f] \in Nat
    BY <1>5, <2>1
  <2>3. CASE f = state
    <3>1. tm'[f] = NatOf(tmp)
      BY <1>1, <1>4, <2>1, <2>3 DEF StampTypes
    <3>2. ~(at' <= Behind(q)[f])
      BY <1>1, <1>4, <1>5, <2>3
    <3> QED
      BY <1>1, <1>4, <2>3, <3>1, <3>2 DEF Number
  <2>4. CASE f # state
    <3>1. tm'[f] = tm[f]
      BY <1>4, <2>1, <2>4 DEF StampTypes
    <3>2. Behind(q)[f] # at
      BY <1>1, <1>3, <2>4 DEF Separated
    <3>3. (at' > Behind(q)[f] => at > Behind(q)[f]) /\ (at' <= Behind(q)[f] => at <= Behind(q)[f])
      BY <1>4, <1>5, <2>2, <3>2
    <3> QED
      BY <1>4, <3>1, <3>3 DEF Progress
  <2> QED
    BY <2>3, <2>4
<1>7. usec' = IF q # 20 /\ at' > q THEN Stamps!Microseconds(Fraction(text', q)) ELSE 0
  <2>1. CASE state = "SUBSEC"
    <3>1. q # 20
      BY <1>1, <2>1 DEF Present, DateFields, ZoneFields
    <3>2. Behind(q)["SUBSEC"] = q /\ From(q)["SUBSEC"] = 21
      BY FieldPlaces DEF FieldTable
    <3>3. at = q /\ at' > q
      BY <1>1, <1>4, <1>5, <2>1, <3>2
    <3>4. tmp = Fraction(text, q)
      BY <1>1, <2>1, <3>1, <3>2 DEF Fraction
    <3> QED
      BY <1>4, <2>1, <3>1, <3>3, <3>4
  <2>2. CASE state # "SUBSEC"
    <3>1. q # 20 => at # q
      BY <1>1, <1>3, <2>2 DEF Separated
    <3>2. q # 20 => (at' > q <=> at > q)
      BY <1>4, <1>5, <3>1
    <3>3. usec' = usec /\ text' = text
      BY <1>4, <2>2
    <3>4. usec = IF q # 20 /\ at > q THEN Stamps!Microseconds(Fraction(text, q)) ELSE 0
      BY DEF Progress
    <3> QED
      BY <3>2, <3>3, <3>4
  <2> QED
    BY <2>1, <2>2
<1>8. sign' = IF at' > q /\ text'[q] = "-" THEN -1 ELSE 1
  BY <1>4
<1>9. state' \in Present(text', q) \cup {"END"}
  BY <1>4
<1>10. ASSUME state' # "END"
       PROVE  /\ From(q)[state'] <= at' /\ at' <= Behind(q)[state']
              /\ tmp' = SubSeq(text', From(q)[state'], at' - 1)
  <2>1. next \in Present(text, q) /\ next # "END"
    BY <1>4, <1>10
  <2>2. Placed(text, q, next)
    BY <1>2, <2>1, Places
  <2>3. PICK a \in Nat, b \in Nat : a = From(q)[next] /\ b = Behind(q)[next] /\ a < b
    BY <2>2 DEF Placed, DigitsFrom
  <2>4. at' = a
    BY <1>4, <2>1, <2>3
  <2>5. SubSeq(text, a, a - 1) = <<>>
    BY <1>2, <2>3
  <2> QED
    BY <1>4, <2>3, <2>4, <2>5
<1>11. state' = "END" => at' = IF Len(text') = q THEN q + 1 ELSE q + 7
  BY <1>4
<1> QED
  BY <1>6, <1>7, <1>8, <1>9, <1>10, <1>11 DEF Progress

\* What a character behind a field does.
LEMMA CharMoves ==
    ASSUME StampTypes, NEW q, Parts(text, q), Progress(q), pc = "parsing", pc' # "refused",
           \/ Stamps!Minus \/ Stamps!LetterT \/ Stamps!Colon \/ Stamps!Plus \/ Stamps!Dot
           \/ Stamps!LetterZ \/ Stamps!EndOfText
    PROVE  Progress(q)'
<1>1. PICK n \in Nat : n = Len(text) /\ n >= 20
  <2>1. \E S : text \in Seq(S)
    BY DEF StampTypes, IsText
  <2>2. q \in 20 .. Len(text)
    BY DEF Parts
  <2> QED
    BY <2>1, <2>2
<1>2. /\ q \in Nat /\ q >= 20 /\ q <= n /\ at \in Nat
      /\ Fields(text) /\ FractionTo(text, q) /\ ZoneFrom(text, q)
  BY <1>1 DEF Parts, StampTypes
<1>3. /\ state # "END"
      /\ at > n \/ (at <= n /\ text[at] \notin DigitChars)
  BY <1>1, <1>2, DigitFacts
     DEF Stamps!Minus, Stamps!LetterT, Stamps!Colon, Stamps!Plus, Stamps!Dot, Stamps!LetterZ,
         Stamps!EndOfText, Stamps!Reads, Stamps!AtEnd, Stamps!Char
<1>4. /\ state \in Present(text, q) /\ state \in States
      /\ at = Behind(q)[state] /\ (at = n + 1 <=> state = "ZONE_MIN")
  BY <1>1, <1>3, AtBehind
<1>5. sign = IF at > q /\ text[q] = "-" THEN -1 ELSE 1
  BY DEF Progress
<1>6. FieldTable(q)
  BY FieldPlaces
<1>7. /\ text[20] = "." => q # 20
      /\ text[20] # "." => q = 20
      /\ q # 20 => q >= 22
  BY <1>2 DEF FractionTo, ZoneFrom
<1>8. \/ n = q /\ text[q] = "Z" /\ ZoneFields \cap Present(text, q) = {}
      \/ n = q + 5 /\ text[q] \in {"+", "-"} /\ text[q + 3] = ":" /\ ZoneFields \subseteq Present(text, q)
  BY <1>1, <1>2 DEF ZoneFrom, Present, ZoneFields, DateFields
<1>9. DateFields \subseteq Present(text, q) /\ (q # 20 => "SUBSEC" \in Present(text, q))
  BY DEF Present
<1> DEFINE Goes(c, from, next, to, newSign, s) ==
              at <= n /\ text[at] = c /\ state = from /\ next = to /\ newSign = s
           Turn(next, newSign) ==
              \/ Goes("-", "YEAR", next, "MON", newSign, sign)
              \/ Goes("-", "MON", next, "MDAY", newSign, sign)
              \/ Goes("-", "SEC", next, "ZONE_HOUR", newSign, -1)
              \/ Goes("T", "MDAY", next, "HOUR", newSign, sign)
              \/ Goes(":", "HOUR", next, "MIN", newSign, sign)
              \/ Goes(":", "MIN", next, "SEC", newSign, sign)
              \/ Goes(":", "ZONE_HOUR", next, "ZONE_MIN", newSign, sign)
              \/ Goes("+", "SEC", next, "ZONE_HOUR", newSign, 1)
              \/ Goes("+", "SUBSEC", next, "ZONE_HOUR", newSign, 1)
              \/ Goes(".", "SEC", next, "SUBSEC", newSign, sign)
              \/ Goes("Z", "SEC", next, "END", newSign, sign)
              \/ Goes("Z", "SUBSEC", next, "END", newSign, sign)
              \/ at > n /\ next = "END" /\ newSign = sign
<1>10. SUFFICES ASSUME NEW next, NEW newSign, Stamps!Field(next, newSign), Turn(next, newSign)
                PROVE  Progress(q)'
  <2> USE <1>1, <1>2, <1>10 DEF Stamps!Reads, Stamps!AtEnd, Stamps!Char, Stamps!Refuse
  <2>1. CASE Stamps!Minus
    BY <2>1 DEF Stamps!Minus
  <2>2. CASE Stamps!LetterT
    BY <2>2 DEF Stamps!LetterT
  <2>3. CASE Stamps!Colon
    BY <2>3 DEF Stamps!Colon
  <2>4. CASE Stamps!Plus
    BY <2>4 DEF Stamps!Plus
  <2>5. CASE Stamps!Dot
    BY <2>5 DEF Stamps!Dot
  <2>6. CASE Stamps!LetterZ
    BY <2>6 DEF Stamps!LetterZ
  <2>7. CASE Stamps!EndOfText
    BY <2>7 DEF Stamps!EndOfText
  <2> QED
    BY <2>1, <2>2, <2>3, <2>4, <2>5, <2>6, <2>7
<1> DEFINE Lands ==
              /\ next \in Present(text, q) \cup {"END"}
              /\ next # "END" => From(q)[next] = at + 1
              /\ next = "END" => at + 1 = IF n = q THEN q + 1 ELSE q + 7
              /\ newSign = IF at + 1 > q /\ text[q] = "-" THEN -1 ELSE 1
<1>11. SUFFICES Lands
  BY <1>1, <1>3, <1>10, FieldMoves
<1>12. \A f \in {"MON", "MDAY", "HOUR", "MIN", "SEC"} : f \in Present(text, q)
  BY <1>9 DEF DateFields
<1>13. /\ Behind(q)["YEAR"] = 5 /\ Behind(q)["MON"] = 8 /\ Behind(q)["MDAY"] = 11
       /\ Behind(q)["HOUR"] = 14 /\ Behind(q)["MIN"] = 17 /\ Behind(q)["SEC"] = 20
       /\ Behind(q)["SUBSEC"] = q /\ Behind(q)["ZONE_HOUR"] = q + 3
       /\ Behind(q)["ZONE_MIN"] = q + 6
  BY <1>6 DEF FieldTable
<1>14. /\ From(q)["MON"] = 6 /\ From(q)["MDAY"] = 9 /\ From(q)["HOUR"] = 12
       /\ From(q)["MIN"] = 15 /\ From(q)["SEC"] = 18 /\ From(q)["SUBSEC"] = 21
       /\ From(q)["ZONE_HOUR"] = q + 1 /\ From(q)["ZONE_MIN"] = q + 4
  BY <1>6 DEF FieldTable
<1>15. sign = (IF at + 1 > q /\ text[q] = "-" THEN -1 ELSE 1) \/ (at = q /\ text[q] = "-")
  BY <1>2, <1>5
<1>16. ASSUME NEW from \in {"YEAR", "MON", "MDAY", "HOUR", "MIN"}, NEW k \in {5, 8, 11, 14, 17},
              NEW to \in {"MON", "MDAY", "HOUR", "MIN", "SEC"}, at = k, From(q)[to] = k + 1,
              next = to, newSign = sign
       PROVE  Lands
  <2>1. at < q /\ next # "END"
    BY <1>2, <1>16
  <2> QED
    BY <1>12, <1>15, <1>16, <2>1
<1>17. ASSUME at = q, text[q] \in {"+", "-"}, next = "ZONE_HOUR",
              newSign = IF text[q] = "-" THEN -1 ELSE 1
       PROVE  Lands
  <2>1. "ZONE_HOUR" \in Present(text, q) /\ at + 1 > q
    BY <1>2, <1>8, <1>17 DEF ZoneFields
  <2> QED
    BY <1>14, <1>17, <2>1
<1>18. ASSUME at = q, text[q] = "Z", next = "END", newSign = sign
       PROVE  Lands
  <2>1. n = q
    BY <1>8, <1>18
  <2> QED
    BY <1>15, <1>18, <2>1
<1> HIDE DEF Lands
<1>19. CASE Goes("-", "YEAR", next, "MON", newSign, sign)
  BY <1>4, <1>13, <1>14, <1>16, <1>19
<1>20. CASE Goes("-", "MON", next, "MDAY", newSign, sign)
  BY <1>4, <1>13, <1>14, <1>16, <1>20
<1>21. CASE Goes("T", "MDAY", next, "HOUR", newSign, sign)
  BY <1>4, <1>13, <1>14, <1>16, <1>21
<1>22. CASE Goes(":", "HOUR", next, "MIN", newSign, sign)
  BY <1>4, <1>13, <1>14, <1>16, <1>22
<1>23. CASE Goes(":", "MIN", next, "SEC", newSign, sign)
  BY <1>4, <1>13, <1>14, <1>16, <1>23
<1>24. CASE Goes("-", "SEC", next, "ZONE_HOUR", newSign, -1)
  <2>1. q = 20 /\ at = q
    BY <1>4, <1>7, <1>13, <1>24
  <2> QED
    BY <1>17, <1>24, <2>1
<1>25. CASE Goes(":", "ZONE_HOUR", next, "ZONE_MIN", newSign, sign)
  <2>1. at = q + 3 /\ "ZONE_MIN" \in Present(text, q) /\ next = "ZONE_MIN" /\ newSign = sign
    BY <1>4, <1>8, <1>13, <1>25 DEF ZoneFields
  <2>2. From(q)[next] = at + 1 /\ next # "END"
    BY <1>2, <1>14, <2>1
  <2>3. newSign = IF at + 1 > q /\ text[q] = "-" THEN -1 ELSE 1
    BY <1>2, <1>15, <2>1
  <2> QED
    BY <2>1, <2>2, <2>3 DEF Lands
<1>26. CASE Goes("+", "SEC", next, "ZONE_HOUR", newSign, 1)
  <2>1. q = 20 /\ at = q
    BY <1>4, <1>7, <1>13, <1>26
  <2> QED
    BY <1>17, <1>26, <2>1
<1>27. CASE Goes("+", "SUBSEC", next, "ZONE_HOUR", newSign, 1)
  <2>1. at = q
    BY <1>4, <1>13, <1>27
  <2> QED
    BY <1>17, <1>27, <2>1
<1>28. CASE Goes(".", "SEC", next, "SUBSEC", newSign, sign)
  <2>1. at = 20 /\ q >= 22 /\ next = "SUBSEC" /\ newSign = sign
    BY <1>4, <1>7, <1>13, <1>28
  <2>2. From(q)[next] = at + 1 /\ next # "END" /\ next \in Present(text, q)
    BY <1>9, <1>14, <2>1
  <2>3. newSign = IF at + 1 > q /\ text[q] = "-" THEN -1 ELSE 1
    BY <1>2, <1>15, <2>1
  <2> QED
    BY <2>2, <2>3 DEF Lands
<1>29. CASE Goes("Z", "SEC", next, "END", newSign, sign)
  <2>1. q = 20 /\ at = q
    BY <1>4, <1>7, <1>13, <1>29
  <2> QED
    BY <1>18, <1>29, <2>1
<1>30. CASE Goes("Z", "SUBSEC", next, "END", newSign, sign)
  <2>1. at = q
    BY <1>4, <1>13, <1>30
  <2> QED
    BY <1>18, <1>30, <2>1
<1>31. CASE at > n /\ next = "END" /\ newSign = sign
  <2>1. Placed(text, q, state)
    <3>1. \E S : text \in Seq(S)
      BY DEF StampTypes, IsText
    <3> QED
      BY <1>4, <3>1, Places
  <2>2. at <= n + 1
    BY <1>1, <1>4, <2>1 DEF Placed, DigitsFrom
  <2>3. state = "ZONE_MIN"
    BY <1>1, <1>2, <1>4, <1>31, <2>2
  <2>4. n = q + 5 /\ at = q + 6
    BY <1>4, <1>8, <1>13, <2>3 DEF ZoneFields
  <2>5. newSign = IF at + 1 > q /\ text[q] = "-" THEN -1 ELSE 1
    BY <1>2, <1>15, <1>31, <2>4
  <2>6. at + 1 = IF n = q THEN q + 1 ELSE q + 7
    BY <1>2, <2>4
  <2> QED
    BY <1>31, <2>5, <2>6 DEF Lands
<1> QED
  BY <1>10, <1>19, <1>20, <1>21, <1>22, <1>23, <1>24, <1>25, <1>26, <1>27, <1>28, <1>29, <1>30, <1>31

-----------------------------------------------------------------------------
\* Timestamps: the client's own

LEMMA NatTextLength ==
    ASSUME NEW n \in Nat
    PROVE  /\ NatText[n] \in Seq(DigitChars)
           /\ n < 10 => Len(NatText[n]) = 1
           /\ n >= 10 /\ n < 100 => Len(NatText[n]) = 2
           /\ n >= 1000 => Len(NatText[n]) >= 4
<1>1. ASSUME NEW x \in Nat
      PROVE  /\ Len(NatText[x]) \in Nat /\ Len(NatText[x]) >= 1
             /\ x < 10 => Len(NatText[x]) = 1
             /\ x >= 10 => Len(NatText[x]) = Len(NatText[x \div 10]) + 1
             /\ x \div 10 \in Nat
  <2>1. NatText[x] \in Seq(DigitChars) /\ NatText[x] # <<>> /\ x \div 10 \in Nat
    BY NatTextStep, NatTextRead, DigitOf
  <2>2. NatText[x \div 10] \in Seq(DigitChars)
    BY <2>1, NatTextStep
  <2>3. PICK d \in DigitChars : d = Digits[(x % 10) + 1]
    BY DigitOf
  <2>4. Len(NatText[x]) \in Nat /\ Len(NatText[x]) >= 1
    <3>1. \A s \in Seq(DigitChars) : s # <<>> => Len(s) \in Nat /\ Len(s) >= 1
      OBVIOUS
    <3> QED
      BY <2>1, <3>1
  <2>5. ASSUME x < 10 PROVE Len(NatText[x]) = 1
    <3>1. Appended(<<>>, d, NatText[x])
      BY <2>3, <2>5, NatTextStep
    <3> QED
      BY <2>3, <3>1 DEF Appended
  <2>6. ASSUME x >= 10 PROVE Len(NatText[x]) = Len(NatText[x \div 10]) + 1
    <3>1. Appended(NatText[x \div 10], d, NatText[x])
      BY <2>3, <2>6, NatTextStep
    <3>2. PICK u \in Seq(DigitChars) : u = NatText[x \div 10]
      BY <2>2
    <3>3. PICK c : c = NatText[x]
      OBVIOUS
    <3>4. Appended(u, d, c)
      BY <3>1, <3>2, <3>3
    <3>5. Len(c) = Len(u) + 1
      BY <3>4 DEF Appended
    <3> QED
      BY <3>2, <3>3, <3>5
  <2> QED
    BY <2>1, <2>4, <2>5, <2>6
<1>2. n >= 10 /\ n < 100 => n \div 10 < 10
  OBVIOUS
<1>3. PICK a \in Nat : a = n \div 10
  BY <1>1
<1>4. PICK b \in Nat : b = a \div 10
  BY <1>1
<1>5. n >= 1000 => a >= 100 /\ b >= 10
  BY <1>3, <1>4
<1>6. ASSUME n >= 1000 PROVE Len(NatText[n]) >= 4
  <2>1. Len(NatText[n]) = Len(NatText[a]) + 1
    BY <1>1, <1>3, <1>6
  <2>2. Len(NatText[a]) = Len(NatText[b]) + 1
    BY <1>1, <1>4, <1>5, <1>6
  <2>3. PICK c \in Nat : c = b \div 10
    BY <1>1
  <2>4. Len(NatText[b]) = Len(NatText[c]) + 1 /\ Len(NatText[c]) \in Nat /\ Len(NatText[c]) >= 1
    BY <1>1, <1>5, <1>6, <2>3
  <2> QED
    BY <2>1, <2>2, <2>4
<1>7. ASSUME n >= 10, n < 100 PROVE Len(NatText[n]) = 2
  <2>1. Len(NatText[n]) = Len(NatText[a]) + 1
    BY <1>1, <1>3, <1>7
  <2>2. Len(NatText[a]) = 1
    BY <1>1, <1>2, <1>3, <1>7
  <2> QED
    BY <2>1, <2>2
<1> QED
  BY <1>1, <1>6, <1>7, NatTextStep

LEMMA Pad2Read ==
    ASSUME NEW n \in 0 .. 99
    PROVE  /\ Stamps!Pad2(n) \in Seq(DigitChars) /\ Len(Stamps!Pad2(n)) = 2
           /\ NatOf(Stamps!Pad2(n)) = n
<1>1. Stamps!Pad2(n) = IF n < 10 THEN <<"0">> \o NatText[n] ELSE NatText[n]
  BY SameNumbers DEF Stamps!Pad2
<1>2. CASE n < 10
  <2>1. PICK d \in DigitChars : d = Digits[(n % 10) + 1] /\ DigitValue(d) = n
    BY <1>2, DigitOf
  <2>2. PICK none \in Seq(DigitChars) : none = <<>> /\ Len(none) = 0
    <3>1. <<>> \in Seq(DigitChars) /\ Len(<<>>) = 0
      OBVIOUS
    <3> QED
      BY <3>1, Zenon
  <2>3. PICK zero \in DigitChars : zero = "0" /\ DigitValue(zero) = 0
    <3>1. 0 \in 0 .. 9 /\ Digits[0 + 1] = "0"
      BY DEF Digits
    <3> QED
      BY <3>1, DigitFacts
  <2>4. PICK v : Appended(none, d, v)
    BY DEF Appended
  <2>5. PICK z : Appended(none, zero, z)
    BY DEF Appended
  <2>6. PICK u : Appended(z, d, u)
    BY DEF Appended
  <2>7. v = NatText[n]
    <3>1. n \in Nat
      OBVIOUS
    <3>2. Appended(<<>>, Digits[(n % 10) + 1], NatText[n])
      BY <1>2, <3>1, NatTextStep
    <3> QED
      BY <2>1, <2>2, <2>4, <3>2 DEF Appended
  <2>8. z = <<"0">>
    BY <2>2, <2>3, <2>5 DEF Appended
  <2>9. z \in Seq(DigitChars) /\ Len(z) = 1 /\ NatOf(z) = 0
    <3>1. z \in Seq(DigitChars) /\ Len(z) = Len(none) + 1
      BY <2>5, AppendFacts
    <3>2. NatOf(z) = 10 * NatOf(none) + DigitValue(zero)
      BY <2>5, NatOfAppend
    <3>3. NatOf(none) = 0
      BY <2>2, <2>5, NatOfAppend
    <3> QED
      BY <2>2, <2>3, <3>1, <3>2, <3>3
  <2>10. u \in Seq(DigitChars) /\ Len(u) = 2
    <3>1. u \in Seq(DigitChars) /\ Len(u) = Len(z) + 1
      BY <2>6, <2>9 DEF Appended
    <3> QED
      BY <2>9, <3>1
  <2>11. NatOf(u) = n
    <3>1. NatOf(u) = 10 * NatOf(z) + DigitValue(d)
      BY <2>6, <2>9, NatOfAppend
    <3> QED
      BY <2>1, <2>9, <3>1
  <2>12. z \o v = u
    BY <2>2, <2>4, <2>6, <2>9 DEF Appended
  <2> QED
    BY <1>1, <1>2, <2>7, <2>8, <2>10, <2>11, <2>12
<1>3. CASE ~(n < 10)
  BY <1>1, <1>3, NatTextLength, NatTextRead
<1> QED
  BY <1>2, <1>3

\* The calendar and back.
LEMMA SameTime ==
    ASSUME NEW time \in Nat
    PROVE  /\ Stamps!TimeOf(Stamps!Gmtime(time)) = time
           /\ Stamps!Gmtime(time).YEAR \in Nat /\ Stamps!Gmtime(time).YEAR >= 1970
           /\ \A f \in {"MON", "MDAY", "HOUR", "MIN", "SEC"} : Stamps!Gmtime(time)[f] \in 0 .. 99
<1>1. PICK minutes \in Nat : minutes = time \div 60
  OBVIOUS
<1>2. PICK hours \in Nat : hours = minutes \div 60
  OBVIOUS
<1>3. PICK days \in Nat : days = hours \div 24
  OBVIOUS
<1>4. PICK months \in Nat : months = days \div 31
  OBVIOUS
<1>5. PICK years \in Nat : years = months \div 12
  OBVIOUS
<1>6. hours = time \div 3600 /\ days = time \div 86400 /\ years = days \div 372
  BY <1>1, <1>2, <1>3, <1>4, <1>5
<1>7. Stamps!Gmtime(time) =
         [YEAR |-> 1970 + years, MON |-> (months % 12) + 1, MDAY |-> (days % 31) + 1,
          HOUR |-> hours % 24, MIN |-> minutes % 60, SEC |-> time % 60]
  BY <1>1, <1>4, <1>6 DEF Stamps!Gmtime
<1>8. PICK month \in 0 .. 11 : month = months % 12 /\ months = years * 12 + month
  BY <1>5
<1>9. PICK day \in 0 .. 30 : day = days % 31 /\ days = months * 31 + day
  BY <1>4
<1>10. PICK hour \in 0 .. 23 : hour = hours % 24 /\ hours = days * 24 + hour
  BY <1>3
<1>11. PICK minute \in 0 .. 59 : minute = minutes % 60 /\ minutes = hours * 60 + minute
  BY <1>2
<1>12. PICK second \in 0 .. 59 : second = time % 60 /\ time = minutes * 60 + second
  BY <1>1
<1>13. PICK g : g = Stamps!Gmtime(time)
  OBVIOUS
<1>14. /\ g.YEAR = 1970 + years /\ g.MON = month + 1 /\ g.MDAY = day + 1
       /\ g.HOUR = hour /\ g.MIN = minute /\ g.SEC = second
  BY <1>7, <1>8, <1>9, <1>10, <1>11, <1>12, <1>13
<1>15. Stamps!TimeOf(g) = time
  <2>1. Stamps!TimeOf(g) =
           (((((1970 + years) - 1970) * 12 + (month + 1) - 1) * 31 + (day + 1) - 1) * 1440
            + hour * 60 + minute) * 60 + second
    BY <1>14 DEF Stamps!TimeOf, Stamps!Minutes
  <2> QED
    BY <1>8, <1>9, <1>10, <1>11, <1>12, <2>1
<1>16. \A f \in {"MON", "MDAY", "HOUR", "MIN", "SEC"} : g[f] \in 0 .. 99
  <2>1. month + 1 \in 0 .. 99 /\ day + 1 \in 0 .. 99 /\ hour \in 0 .. 99 /\ minute \in 0 .. 99
        /\ second \in 0 .. 99
    OBVIOUS
  <2> QED
    BY <1>14, <2>1
<1>17. g.YEAR \in Nat /\ g.YEAR >= 1970
  BY <1>14
<1> QED
  BY <1>13, <1>15, <1>16, <1>17

Joined(s, u, c) == c = s \o u
Starts(s, w) == Len(s) <= Len(w) /\ \A k \in 1 .. Len(s) : w[k] = s[k]
\* c, with which w begins, is s up to m and u from there to n.
Joint(s, u, c, w, m, n) ==
    /\ Joined(s, u, c) /\ Starts(c, w)
    /\ m \in Nat /\ n \in Nat /\ Len(s) = m /\ Len(u) = n - m
JointIs(s, u, w, m, n) ==
    /\ Starts(s, w) /\ n <= Len(w)
    /\ u = SubSeq(w, m + 1, n)
    /\ \A k \in 1 .. n - m : w[m + k] = u[k]

LEMMA JointFacts ==
    ASSUME NEW S, NEW s \in Seq(S), NEW u \in Seq(S), NEW w \in Seq(S),
           NEW c, NEW m, NEW n, Joint(s, u, c, w, m, n)
    PROVE  JointIs(s, u, w, m, n)
<1>1. m \in Nat /\ n \in Nat /\ Len(s) = m /\ Len(u) = n - m /\ m <= n
  BY DEF Joint
<1>2. /\ c \in Seq(S) /\ Len(c) = n
      /\ \A k \in 1 .. m : c[k] = s[k]
      /\ \A k \in 1 .. n - m : c[m + k] = u[k]
  <2>1. c = s \o u
    BY DEF Joint, Joined
  <2>2. c \in Seq(S) /\ Len(c) = Len(s) + Len(u)
    BY <2>1
  <2>3. \A k \in 1 .. Len(s) : c[k] = s[k]
    BY <2>1
  <2>4. \A k \in 1 .. Len(u) : c[Len(s) + k] = u[k]
    BY <2>1
  <2> QED
    BY <1>1, <2>2, <2>3, <2>4
<1>3. n <= Len(w) /\ \A k \in 1 .. n : w[k] = c[k]
  BY <1>2 DEF Joint, Starts
<1>4. \A k \in 1 .. m : k \in 1 .. n
  BY <1>1
<1>5. Starts(s, w)
  BY <1>1, <1>2, <1>3, <1>4 DEF Starts
<1>6. ASSUME NEW k \in 1 .. n - m PROVE w[m + k] = u[k]
  <2>1. m + k \in 1 .. n
    BY <1>1
  <2> QED
    BY <1>2, <1>3, <2>1
<1>7. u = SubSeq(w, m + 1, n)
  <2>1. PICK a \in Nat : a = m + 1
    BY <1>1
  <2>2. PICK l \in Nat : l = n - m
    BY <1>1
  <2>3. PICK v : v = SubSeq(w, a, n)
    OBVIOUS
  <2>4. IsPart(v, w, a, n, l)
    BY <1>1, <1>3, <2>1, <2>2, <2>3 DEF IsPart
  <2>5. PartIs(S, v, w, a, l)
    BY <2>4, PartFacts
  <2>6. v \in Seq(S) /\ Len(v) = l /\ \A k \in 1 .. l : v[k] = w[a + k - 1]
    BY <2>5 DEF PartIs
  <2>7. ASSUME NEW k \in 1 .. l PROVE v[k] = u[k]
    <3>1. a + k - 1 = m + k
      BY <1>1, <2>1
    <3> QED
      BY <1>6, <2>2, <2>6, <3>1
  <2>8. v = u
    BY <1>1, <2>2, <2>6, <2>7, SameSequence
  <2> QED
    BY <2>1, <2>3, <2>8
<1> QED
  BY <1>3, <1>5, <1>6, <1>7 DEF JointIs

JoinedIs(S, s, u, c) == c \in Seq(S) /\ Len(c) = Len(s) + Len(u)

LEMMA Concatenated ==
    ASSUME NEW S, NEW s \in Seq(S), NEW u \in Seq(S), NEW c, Joined(s, u, c)
    PROVE  JoinedIs(S, s, u, c)
  BY DEF Joined, JoinedIs

LEMMA TextsAre ==
    ASSUME NEW S, NEW t \in Seq(S)
    PROVE  IsText(t)
  BY DEF IsText

LEMMA WrittenParts ==
    ASSUME NEW time \in Nat, NEW w, w = Stamps!Written(time, 0)
    PROVE  /\ IsText(w)
           /\ Stamps!IsRfc3339(w) =>
                 /\ Len(w) = 20 /\ w[20] = "Z"
                 /\ DayTime(w) = Stamps!Gmtime(time)
<1> DEFINE S == DigitChars \cup {"-", "T", ":", "Z"}
<1>1. PICK g : g = Stamps!Gmtime(time)
  OBVIOUS
<1>2. /\ g.YEAR \in Nat /\ g.YEAR >= 1970
      /\ \A f \in {"MON", "MDAY", "HOUR", "MIN", "SEC"} : g[f] \in 0 .. 99
  BY <1>1, SameTime
<1>3. PICK y : y = NatText[g.YEAR]
  OBVIOUS
<1>4. y \in Seq(DigitChars) /\ Len(y) \in Nat /\ Len(y) >= 4 /\ NatOf(y) = g.YEAR
  BY <1>2, <1>3, NatTextLength, NatTextRead
<1> DEFINE P(f) == Stamps!Pad2(g[f])
<1>5. \A f \in {"MON", "MDAY", "HOUR", "MIN", "SEC"} :
         P(f) \in Seq(DigitChars) /\ Len(P(f)) = 2 /\ NatOf(P(f)) = g[f]
  <2>1. ASSUME NEW f \in {"MON", "MDAY", "HOUR", "MIN", "SEC"}
        PROVE  P(f) \in Seq(DigitChars) /\ Len(P(f)) = 2 /\ NatOf(P(f)) = g[f]
    <3>1. PICK n \in 0 .. 99 : n = g[f]
      BY <1>2
    <3> QED
      BY <3>1, Pad2Read
  <2> QED
    BY <2>1
<1>6. PICK two \in [{"MON", "MDAY", "HOUR", "MIN", "SEC"} -> Seq(DigitChars)] :
         \A f \in {"MON", "MDAY", "HOUR", "MIN", "SEC"} :
            two[f] = P(f) /\ Len(two[f]) = 2 /\ NatOf(two[f]) = g[f]
  <2> HIDE DEF P
  <2>1. [f \in {"MON", "MDAY", "HOUR", "MIN", "SEC"} |-> P(f)]
           \in [{"MON", "MDAY", "HOUR", "MIN", "SEC"} -> Seq(DigitChars)]
    BY <1>5
  <2> QED
    BY <1>5, <2>1
<1>7. w = ((((((((((((y \o <<"-">>) \o two["MON"]) \o <<"-">>) \o two["MDAY"]) \o <<"T">>) \o two["HOUR"])
             \o <<":">>) \o two["MIN"]) \o <<":">>) \o two["SEC"]) \o <<"Z">>) \o <<>>)
  <2>1. w = Stamps!NatText[g.YEAR] \o <<"-">> \o Stamps!Pad2(g.MON) \o <<"-">> \o Stamps!Pad2(g.MDAY)
            \o <<"T">> \o Stamps!Pad2(g.HOUR) \o <<":">> \o Stamps!Pad2(g.MIN) \o <<":">>
            \o Stamps!Pad2(g.SEC) \o <<"Z">> \o <<>>
    BY <1>1 DEF Stamps!Written
  <2> QED
    BY <1>3, <1>6, <2>1, SameNumbers
<1> DEFINE One(c, s) == s \in Seq(S) /\ s = <<c>> /\ Len(s) = 1 /\ s[1] = c
<1>8. \A c \in S : One(c, <<c>>)
  OBVIOUS
<1>9. {"-", "T", ":", "Z"} \subseteq S /\ DigitChars \subseteq S
  OBVIOUS
<1>10. PICK dash : One("-", dash)
  BY <1>8, <1>9
<1>11. PICK letterT : One("T", letterT)
  BY <1>8, <1>9
<1>12. PICK colon : One(":", colon)
  BY <1>8, <1>9
<1>13. PICK letterZ : One("Z", letterZ)
  BY <1>8, <1>9
<1>14. PICK none \in Seq(S) : none = <<>> /\ Len(none) = 0
  <2>1. <<>> \in Seq(S) /\ Len(<<>>) = 0
    OBVIOUS
  <2> QED
    BY <2>1, Zenon
<1>15. PICK L \in Nat : L = Len(y) /\ L >= 4
  BY <1>4
<1> HIDE DEF S
<1>16. /\ y \in Seq(S) /\ Len(y) = L
       /\ \A f \in {"MON", "MDAY", "HOUR", "MIN", "SEC"} : two[f] \in Seq(S) /\ Len(two[f]) = 2
  <2>1. \A s \in Seq(DigitChars) : s \in Seq(S)
    BY <1>9
  <2> QED
    BY <1>4, <1>6, <1>15, <2>1
<1>17. PICK c1 : Joined(y, dash, c1) /\ c1 \in Seq(S) /\ Len(c1) = L + 1
  <2>1. y \in Seq(S) /\ Len(y) = L /\ dash \in Seq(S) /\ Len(dash) = 1
    BY <1>16, <1>10
  <2>2. PICK c : Joined(y, dash, c)
    BY DEF Joined
  <2>3. JoinedIs(S, y, dash, c)
    BY <2>1, <2>2, Concatenated
  <2> QED
    BY <2>1, <2>2, <2>3 DEF JoinedIs
<1>18. PICK c2 : Joined(c1, two["MON"], c2) /\ c2 \in Seq(S) /\ Len(c2) = L + 3
  <2>1. c1 \in Seq(S) /\ Len(c1) = L + 1 /\ two["MON"] \in Seq(S) /\ Len(two["MON"]) = 2
    BY <1>17, <1>16
  <2>2. PICK c : Joined(c1, two["MON"], c)
    BY DEF Joined
  <2>3. JoinedIs(S, c1, two["MON"], c)
    BY <2>1, <2>2, Concatenated
  <2> QED
    BY <2>1, <2>2, <2>3 DEF JoinedIs
<1>19. PICK c3 : Joined(c2, dash, c3) /\ c3 \in Seq(S) /\ Len(c3) = L + 4
  <2>1. c2 \in Seq(S) /\ Len(c2) = L + 3 /\ dash \in Seq(S) /\ Len(dash) = 1
    BY <1>18, <1>10
  <2>2. PICK c : Joined(c2, dash, c)
    BY DEF Joined
  <2>3. JoinedIs(S, c2, dash, c)
    BY <2>1, <2>2, Concatenated
  <2> QED
    BY <2>1, <2>2, <2>3 DEF JoinedIs
<1>20. PICK c4 : Joined(c3, two["MDAY"], c4) /\ c4 \in Seq(S) /\ Len(c4) = L + 6
  <2>1. c3 \in Seq(S) /\ Len(c3) = L + 4 /\ two["MDAY"] \in Seq(S) /\ Len(two["MDAY"]) = 2
    BY <1>19, <1>16
  <2>2. PICK c : Joined(c3, two["MDAY"], c)
    BY DEF Joined
  <2>3. JoinedIs(S, c3, two["MDAY"], c)
    BY <2>1, <2>2, Concatenated
  <2> QED
    BY <2>1, <2>2, <2>3 DEF JoinedIs
<1>21. PICK c5 : Joined(c4, letterT, c5) /\ c5 \in Seq(S) /\ Len(c5) = L + 7
  <2>1. c4 \in Seq(S) /\ Len(c4) = L + 6 /\ letterT \in Seq(S) /\ Len(letterT) = 1
    BY <1>20, <1>11
  <2>2. PICK c : Joined(c4, letterT, c)
    BY DEF Joined
  <2>3. JoinedIs(S, c4, letterT, c)
    BY <2>1, <2>2, Concatenated
  <2> QED
    BY <2>1, <2>2, <2>3 DEF JoinedIs
<1>22. PICK c6 : Joined(c5, two["HOUR"], c6) /\ c6 \in Seq(S) /\ Len(c6) = L + 9
  <2>1. c5 \in Seq(S) /\ Len(c5) = L + 7 /\ two["HOUR"] \in Seq(S) /\ Len(two["HOUR"]) = 2
    BY <1>21, <1>16
  <2>2. PICK c : Joined(c5, two["HOUR"], c)
    BY DEF Joined
  <2>3. JoinedIs(S, c5, two["HOUR"], c)
    BY <2>1, <2>2, Concatenated
  <2> QED
    BY <2>1, <2>2, <2>3 DEF JoinedIs
<1>23. PICK c7 : Joined(c6, colon, c7) /\ c7 \in Seq(S) /\ Len(c7) = L + 10
  <2>1. c6 \in Seq(S) /\ Len(c6) = L + 9 /\ colon \in Seq(S) /\ Len(colon) = 1
    BY <1>22, <1>12
  <2>2. PICK c : Joined(c6, colon, c)
    BY DEF Joined
  <2>3. JoinedIs(S, c6, colon, c)
    BY <2>1, <2>2, Concatenated
  <2> QED
    BY <2>1, <2>2, <2>3 DEF JoinedIs
<1>24. PICK c8 : Joined(c7, two["MIN"], c8) /\ c8 \in Seq(S) /\ Len(c8) = L + 12
  <2>1. c7 \in Seq(S) /\ Len(c7) = L + 10 /\ two["MIN"] \in Seq(S) /\ Len(two["MIN"]) = 2
    BY <1>23, <1>16
  <2>2. PICK c : Joined(c7, two["MIN"], c)
    BY DEF Joined
  <2>3. JoinedIs(S, c7, two["MIN"], c)
    BY <2>1, <2>2, Concatenated
  <2> QED
    BY <2>1, <2>2, <2>3 DEF JoinedIs
<1>25. PICK c9 : Joined(c8, colon, c9) /\ c9 \in Seq(S) /\ Len(c9) = L + 13
  <2>1. c8 \in Seq(S) /\ Len(c8) = L + 12 /\ colon \in Seq(S) /\ Len(colon) = 1
    BY <1>24, <1>12
  <2>2. PICK c : Joined(c8, colon, c)
    BY DEF Joined
  <2>3. JoinedIs(S, c8, colon, c)
    BY <2>1, <2>2, Concatenated
  <2> QED
    BY <2>1, <2>2, <2>3 DEF JoinedIs
<1>26. PICK c10 : Joined(c9, two["SEC"], c10) /\ c10 \in Seq(S) /\ Len(c10) = L + 15
  <2>1. c9 \in Seq(S) /\ Len(c9) = L + 13 /\ two["SEC"] \in Seq(S) /\ Len(two["SEC"]) = 2
    BY <1>25, <1>16
  <2>2. PICK c : Joined(c9, two["SEC"], c)
    BY DEF Joined
  <2>3. JoinedIs(S, c9, two["SEC"], c)
    BY <2>1, <2>2, Concatenated
  <2> QED
    BY <2>1, <2>2, <2>3 DEF JoinedIs
<1>27. PICK c11 : Joined(c10, letterZ, c11) /\ c11 \in Seq(S) /\ Len(c11) = L + 16
  <2>1. c10 \in Seq(S) /\ Len(c10) = L + 15 /\ letterZ \in Seq(S) /\ Len(letterZ) = 1
    BY <1>26, <1>13
  <2>2. PICK c : Joined(c10, letterZ, c)
    BY DEF Joined
  <2>3. JoinedIs(S, c10, letterZ, c)
    BY <2>1, <2>2, Concatenated
  <2> QED
    BY <2>1, <2>2, <2>3 DEF JoinedIs
<1>28. PICK c12 : Joined(c11, none, c12) /\ c12 \in Seq(S) /\ Len(c12) = L + 16
  <2>1. c11 \in Seq(S) /\ Len(c11) = L + 16 /\ none \in Seq(S) /\ Len(none) = 0
    BY <1>27, <1>14
  <2>2. PICK c : Joined(c11, none, c)
    BY DEF Joined
  <2>3. JoinedIs(S, c11, none, c)
    BY <2>1, <2>2, Concatenated
  <2> QED
    BY <2>1, <2>2, <2>3 DEF JoinedIs
<1>29. w = c12 /\ w \in Seq(S) /\ Starts(c12, w)
  <2>1. w = ((((((((((((y \o dash) \o two["MON"]) \o dash) \o two["MDAY"]) \o letterT) \o two["HOUR"])
               \o colon) \o two["MIN"]) \o colon) \o two["SEC"]) \o letterZ) \o none)
    BY <1>7, <1>10, <1>11, <1>12, <1>13, <1>14
  <2>2. w = (((((((((c3 \o two["MDAY"]) \o letterT) \o two["HOUR"])
               \o colon) \o two["MIN"]) \o colon) \o two["SEC"]) \o letterZ) \o none)
    BY <1>17, <1>18, <1>19, <2>1, Zenon DEF Joined
  <2>3. w = (((((c7 \o two["MIN"]) \o colon) \o two["SEC"]) \o letterZ) \o none)
    BY <1>20, <1>21, <1>22, <1>23, <2>2, Zenon DEF Joined
  <2>4. w = c12
    BY <1>24, <1>25, <1>26, <1>27, <1>28, <2>3, Zenon DEF Joined
  <2>5. Len(c12) <= Len(c12) /\ c12 \in Seq(S)
    BY <1>28
  <2> QED
    BY <2>4, <2>5, Zenon DEF Starts
<1>30. JointIs(c11, none, w, L + 16, L + 16)
  <2>1. Starts(c12, w)
    BY <1>29
  <2>2. c11 \in Seq(S) /\ none \in Seq(S) /\ Joint(c11, none, c12, w, L + 16, L + 16)
    BY <2>1, <1>28, <1>27, <1>14 DEF Joint
  <2> QED
    BY <1>29, <2>2, JointFacts
<1>31. JointIs(c10, letterZ, w, L + 15, L + 16)
  <2>1. Starts(c11, w)
    BY <1>30 DEF JointIs
  <2>2. c10 \in Seq(S) /\ letterZ \in Seq(S) /\ Joint(c10, letterZ, c11, w, L + 15, L + 16)
    BY <2>1, <1>27, <1>26, <1>13 DEF Joint
  <2> QED
    BY <1>29, <2>2, JointFacts
<1>32. JointIs(c9, two["SEC"], w, L + 13, L + 15)
  <2>1. Starts(c10, w)
    BY <1>31 DEF JointIs
  <2>2. c9 \in Seq(S) /\ two["SEC"] \in Seq(S) /\ Joint(c9, two["SEC"], c10, w, L + 13, L + 15)
    BY <2>1, <1>26, <1>25, <1>16 DEF Joint
  <2> QED
    BY <1>29, <2>2, JointFacts
<1>33. JointIs(c8, colon, w, L + 12, L + 13)
  <2>1. Starts(c9, w)
    BY <1>32 DEF JointIs
  <2>2. c8 \in Seq(S) /\ colon \in Seq(S) /\ Joint(c8, colon, c9, w, L + 12, L + 13)
    BY <2>1, <1>25, <1>24, <1>12 DEF Joint
  <2> QED
    BY <1>29, <2>2, JointFacts
<1>34. JointIs(c7, two["MIN"], w, L + 10, L + 12)
  <2>1. Starts(c8, w)
    BY <1>33 DEF JointIs
  <2>2. c7 \in Seq(S) /\ two["MIN"] \in Seq(S) /\ Joint(c7, two["MIN"], c8, w, L + 10, L + 12)
    BY <2>1, <1>24, <1>23, <1>16 DEF Joint
  <2> QED
    BY <1>29, <2>2, JointFacts
<1>35. JointIs(c6, colon, w, L + 9, L + 10)
  <2>1. Starts(c7, w)
    BY <1>34 DEF JointIs
  <2>2. c6 \in Seq(S) /\ colon \in Seq(S) /\ Joint(c6, colon, c7, w, L + 9, L + 10)
    BY <2>1, <1>23, <1>22, <1>12 DEF Joint
  <2> QED
    BY <1>29, <2>2, JointFacts
<1>36. JointIs(c5, two["HOUR"], w, L + 7, L + 9)
  <2>1. Starts(c6, w)
    BY <1>35 DEF JointIs
  <2>2. c5 \in Seq(S) /\ two["HOUR"] \in Seq(S) /\ Joint(c5, two["HOUR"], c6, w, L + 7, L + 9)
    BY <2>1, <1>22, <1>21, <1>16 DEF Joint
  <2> QED
    BY <1>29, <2>2, JointFacts
<1>37. JointIs(c4, letterT, w, L + 6, L + 7)
  <2>1. Starts(c5, w)
    BY <1>36 DEF JointIs
  <2>2. c4 \in Seq(S) /\ letterT \in Seq(S) /\ Joint(c4, letterT, c5, w, L + 6, L + 7)
    BY <2>1, <1>21, <1>20, <1>11 DEF Joint
  <2> QED
    BY <1>29, <2>2, JointFacts
<1>38. JointIs(c3, two["MDAY"], w, L + 4, L + 6)
  <2>1. Starts(c4, w)
    BY <1>37 DEF JointIs
  <2>2. c3 \in Seq(S) /\ two["MDAY"] \in Seq(S) /\ Joint(c3, two["MDAY"], c4, w, L + 4, L + 6)
    BY <2>1, <1>20, <1>19, <1>16 DEF Joint
  <2> QED
    BY <1>29, <2>2, JointFacts
<1>39. JointIs(c2, dash, w, L + 3, L + 4)
  <2>1. Starts(c3, w)
    BY <1>38 DEF JointIs
  <2>2. c2 \in Seq(S) /\ dash \in Seq(S) /\ Joint(c2, dash, c3, w, L + 3, L + 4)
    BY <2>1, <1>19, <1>18, <1>10 DEF Joint
  <2> QED
    BY <1>29, <2>2, JointFacts
<1>40. JointIs(c1, two["MON"], w, L + 1, L + 3)
  <2>1. Starts(c2, w)
    BY <1>39 DEF JointIs
  <2>2. c1 \in Seq(S) /\ two["MON"] \in Seq(S) /\ Joint(c1, two["MON"], c2, w, L + 1, L + 3)
    BY <2>1, <1>18, <1>17, <1>16 DEF Joint
  <2> QED
    BY <1>29, <2>2, JointFacts
<1>41. JointIs(y, dash, w, L, L + 1)
  <2>1. Starts(c1, w)
    BY <1>40 DEF JointIs
  <2>2. y \in Seq(S) /\ dash \in Seq(S) /\ Joint(y, dash, c1, w, L, L + 1)
    BY <2>1, <1>17, <1>16, <1>10 DEF Joint
  <2> QED
    BY <1>29, <2>2, JointFacts
<1>42. IsText(w) /\ Len(w) = L + 16
  BY <1>29, <1>28, TextsAre
<1>43. SUFFICES ASSUME Stamps!IsRfc3339(w)
       PROVE  Len(w) = 20 /\ w[20] = "Z" /\ DayTime(w) = g
  BY <1>1, <1>42
<1>44. L = 4
  <2>1. w[5] = "-"
    BY <1>43 DEF Stamps!IsRfc3339
  <2>2. ~(L >= 5)
    <3> SUFFICES ASSUME L >= 5 PROVE FALSE
      OBVIOUS
    <3>1. w[5] = y[5]
      BY <1>16, <1>41 DEF JointIs, Starts
    <3>2. y[5] \in DigitChars
      BY <1>4, <1>15
    <3> QED
      BY <2>1, <3>1, <3>2, DigitFacts
  <2>3. L \in Nat /\ L >= 4
    BY <1>15
  <2> QED
    BY ONLY <2>2, <2>3
<1>45. Len(w) = 20 /\ w[20] = "Z"
  <2>1. \A k \in 1 .. (L + 16) - (L + 15) : w[(L + 15) + k] = letterZ[k]
    BY <1>31 DEF JointIs
  <2>2. 1 \in 1 .. (L + 16) - (L + 15) /\ (L + 15) + 1 = 20
    BY <1>44
  <2> QED
    BY <1>13, <1>42, <1>44, <2>1, <2>2
<1>46. y = SubSeq(w, 1, 4)
  <2>1. PICK v : v = SubSeq(w, 1, 4)
    OBVIOUS
  <2>2. IsPart(v, w, 1, 4, 4)
    BY <1>45, <2>1 DEF IsPart
  <2>3. PartIs(S, v, w, 1, 4)
    BY <1>29, <2>2, PartFacts
  <2>4. v \in Seq(S) /\ Len(v) = 4 /\ \A k \in 1 .. 4 : v[k] = w[1 + k - 1]
    BY <2>3 DEF PartIs
  <2>5. \A k \in 1 .. 4 : w[k] = y[k]
    BY <1>16, <1>41, <1>44 DEF JointIs, Starts
  <2>6. \A k \in 1 .. 4 : v[k] = y[k]
    <3>1. \A k \in 1 .. 4 : 1 + k - 1 = k
      OBVIOUS
    <3> QED
      BY <2>4, <2>5, <3>1
  <2>7. v = y
    <3>1. y \in Seq(S) /\ Len(v) = Len(y) /\ \A k \in 1 .. Len(v) : v[k] = y[k]
      BY <1>16, <1>44, <2>4, <2>6
    <3> QED
      BY <2>4, <3>1, SameSequence
  <2> QED
    BY <2>1, <2>7
<1>47. two["MON"] = SubSeq(w, 6, 7)
  <2>1. two["MON"] = SubSeq(w, (L + 1) + 1, L + 3)
    BY <1>40 DEF JointIs
  <2>2. (L + 1) + 1 = 6 /\ L + 3 = 7
    BY <1>44
  <2> QED
    BY <2>1, <2>2
<1>48. two["MDAY"] = SubSeq(w, 9, 10)
  <2>1. two["MDAY"] = SubSeq(w, (L + 4) + 1, L + 6)
    BY <1>38 DEF JointIs
  <2>2. (L + 4) + 1 = 9 /\ L + 6 = 10
    BY <1>44
  <2> QED
    BY <2>1, <2>2
<1>49. two["HOUR"] = SubSeq(w, 12, 13)
  <2>1. two["HOUR"] = SubSeq(w, (L + 7) + 1, L + 9)
    BY <1>36 DEF JointIs
  <2>2. (L + 7) + 1 = 12 /\ L + 9 = 13
    BY <1>44
  <2> QED
    BY <2>1, <2>2
<1>50. two["MIN"] = SubSeq(w, 15, 16)
  <2>1. two["MIN"] = SubSeq(w, (L + 10) + 1, L + 12)
    BY <1>34 DEF JointIs
  <2>2. (L + 10) + 1 = 15 /\ L + 12 = 16
    BY <1>44
  <2> QED
    BY <2>1, <2>2
<1>51. two["SEC"] = SubSeq(w, 18, 19)
  <2>1. two["SEC"] = SubSeq(w, (L + 13) + 1, L + 15)
    BY <1>32 DEF JointIs
  <2>2. (L + 13) + 1 = 18 /\ L + 15 = 19
    BY <1>44
  <2> QED
    BY <2>1, <2>2
<1>52. /\ Number(w, 1, 4) = g.YEAR /\ Number(w, 6, 7) = g.MON /\ Number(w, 9, 10) = g.MDAY
       /\ Number(w, 12, 13) = g.HOUR /\ Number(w, 15, 16) = g.MIN /\ Number(w, 18, 19) = g.SEC
  BY <1>4, <1>6, <1>46, <1>47, <1>48, <1>49, <1>50, <1>51 DEF Number
<1>53. g = [YEAR |-> g.YEAR, MON |-> g.MON, MDAY |-> g.MDAY, HOUR |-> g.HOUR, MIN |-> g.MIN, SEC |-> g.SEC]
  BY <1>1 DEF Stamps!Gmtime
<1>54. DayTime(w) = g
  BY <1>52, <1>53 DEF DayTime
<1> QED
  BY <1>45, <1>54

-----------------------------------------------------------------------------
\* Timestamps: the invariant

\* What Timestamps assumes of its parameters.
StampParameters ==
    Times \subseteq Nat /\ HostZones \subseteq Int /\ \A t \in Texts : IsText(t)

LEMMA StampStart ==
    ASSUME StampParameters, Stamps!Init
    PROVE  StampInv
<1> USE DEF Stamps!Init
<1>1. StampTypes
  <2>1. state \in States /\ Stamps!Zeroed \in [States -> Nat]
    BY DEF States, Stamps!Zeroed
  <2>2. tmp \in Seq(DigitChars) /\ IsText(text)
    BY DEF IsText
  <2> QED
    BY <2>1, <2>2 DEF StampTypes, StampParameters
<1>2. Stamps!Zeroed.ZONE_HOUR = 0 /\ Stamps!Zeroed.ZONE_MIN = 0
  BY DEF Stamps!Zeroed
<1> QED
  BY <1>1, <1>2 DEF StampInv

\* A new text, of which nothing is read.
LEMMA StampFirst ==
    ASSUME StampInv, pc = "start", pc' = "parsing", IsText(text'),
           \A time \in written' : time \in Nat /\ text' = Stamps!Written(time, 0),
           UNCHANGED <<zone, at, state, tmp, tm, sign, unixtime, usec>>
    PROVE  StampInv'
<1>1. /\ StampTypes /\ at = 1 /\ state = "YEAR" /\ tmp = <<>> /\ sign = 1 /\ usec = 0
      /\ tm.ZONE_HOUR = 0 /\ tm.ZONE_MIN = 0
  BY DEF StampInv
<1>2. StampTypes'
  BY <1>1 DEF StampTypes
<1>3. ASSUME NEW q, Parts(text', q) PROVE Progress(q)'
  <2>1. PICK S : text' \in Seq(S)
    BY DEF IsText
  <2>2. Separated(text', q)
    BY <1>3, <2>1, Separators
  <2>3. q \in Nat /\ q >= 20 /\ \A f \in States : Behind(q)[f] \in Nat
    BY <2>2 DEF Separated
  <2>4. FieldTable(q)
    BY FieldPlaces
  <2>5. From(q)["YEAR"] = 1 /\ Behind(q)["YEAR"] = 5 /\ "YEAR" \in Present(text', q)
    BY <2>4 DEF FieldTable, Present, DateFields
  <2>6. \A f \in {5, 8, 11, 14, 17, 20, q + 3, q + 6} : ~(1 > f)
    BY <2>3
  <2>7. ASSUME NEW f \in DateFields \cup ZoneFields PROVE ~(1 > Behind(q)[f])
    BY <2>4, <2>6, Zenon DEF FieldTable, DateFields, ZoneFields
  <2>8. ASSUME NEW f \in ZoneFields PROVE tm[f] = 0
    BY <1>1 DEF ZoneFields
  <2>9. SubSeq(text', 1, 1 - 1) = <<>>
    BY <2>1
  <2>10. ~(1 > q) /\ 1 <= 5 /\ "YEAR" # "END"
    BY <2>3
  <2> QED
    BY <1>1, <2>5, <2>7, <2>8, <2>9, <2>10 DEF Progress
<1> QED
  BY <1>2, <1>3 DEF StampInv

LEMMA StampRefused ==
    ASSUME StampInv, pc = "parsing", Stamps!Refuse
    PROVE  StampInv'
<1>1. StampTypes'
  BY DEF StampInv, StampTypes, Stamps!Refuse, Stamps!parserVars
<1> QED
  BY <1>1 DEF StampInv, Stamps!Refuse

\* A field is read, or a digit of it.
LEMMA StampParsed ==
    ASSUME StampInv, pc = "parsing", pc' = "parsing", StampTypes',
           UNCHANGED <<text, written>>, \A q : Parts(text, q) => Progress(q)'
    PROVE  StampInv'
  BY DEF StampInv

LEMMA StampField ==
    ASSUME StampInv, pc = "parsing", state \in States, NEW next, NEW newSign,
           next \in States \cup {"END"}, Stamps!Field(next, newSign), pc' # "refused"
    PROVE  StampTypes' /\ pc' = "parsing" /\ UNCHANGED <<text, written>>
<1>1. /\ tm' = tm \/ tm' = [tm EXCEPT ![state] = NatOf(tmp)]
      /\ state' = next /\ tmp' = <<>> /\ at' = at + 1
      /\ UNCHANGED <<pc, zone, text, written>>
  BY SameNumbers DEF Stamps!Field, Stamps!Refuse
<1>2. StampTypes
  BY DEF StampInv
<1>3. NatOf(tmp) \in Nat
  <2>1. PICK n \in Nat : n = Len(tmp)
    BY <1>2 DEF StampTypes
  <2>2. PICK v : Digitwise(v, tmp, n)
    BY <1>2, <2>1, NatOfSteps DEF StampTypes
  <2> QED
    BY <2>1, <2>2 DEF Digitwise
<1>4. tm' \in [States -> Nat]
  BY <1>1, <1>2, <1>3 DEF StampTypes
<1>5. tmp' \in Seq(DigitChars) /\ at' \in Nat /\ state' \in States \cup {"END"}
  BY <1>1, <1>2 DEF StampTypes
<1> QED
  BY <1>1, <1>2, <1>4, <1>5 DEF StampTypes

\* A step on a character behind a field.
FieldStep ==
    \/ Stamps!Minus \/ Stamps!LetterT \/ Stamps!Colon \/ Stamps!Plus \/ Stamps!Dot
    \/ Stamps!LetterZ \/ Stamps!EndOfText

LEMMA FieldEnds ==
    ASSUME FieldStep
    PROVE  /\ pc = "parsing" /\ state # "END"
           /\ \/ Stamps!Refuse
              \/ \E next \in States \cup {"END"} : \E newSign : Stamps!Field(next, newSign)
<1>1. {"MON", "MDAY", "HOUR", "MIN", "SEC", "SUBSEC", "ZONE_HOUR", "ZONE_MIN"} \subseteq States
  BY States9 DEF DateFields, ZoneFields
<1>2. CASE Stamps!Minus
  BY <1>1, <1>2 DEF Stamps!Minus, Stamps!Reads
<1>3. CASE Stamps!LetterT
  BY <1>1, <1>3 DEF Stamps!LetterT, Stamps!Reads
<1>4. CASE Stamps!Colon
  BY <1>1, <1>4 DEF Stamps!Colon, Stamps!Reads
<1>5. CASE Stamps!Plus
  BY <1>1, <1>5 DEF Stamps!Plus, Stamps!Reads
<1>6. CASE Stamps!Dot
  BY <1>1, <1>6 DEF Stamps!Dot, Stamps!Reads
<1>7. CASE Stamps!LetterZ
  BY <1>7 DEF Stamps!LetterZ, Stamps!Reads
<1>8. CASE Stamps!EndOfText
  BY <1>8 DEF Stamps!EndOfText
<1> QED
  BY <1>2, <1>3, <1>4, <1>5, <1>6, <1>7, <1>8 DEF FieldStep

LEMMA StampBehind ==
    ASSUME StampInv, FieldStep
    PROVE  StampInv'
<1>1. /\ pc = "parsing" /\ state # "END"
      /\ \/ Stamps!Refuse
         \/ \E next \in States \cup {"END"} : \E newSign : Stamps!Field(next, newSign)
  BY FieldEnds
<1>2. CASE Stamps!Refuse
  BY <1>1, <1>2, StampRefused
<1>3. CASE ~Stamps!Refuse
  <2>0. PICK next \in States \cup {"END"} : \E newSign : Stamps!Field(next, newSign)
    BY <1>1, <1>3
  <2>1. PICK newSign : Stamps!Field(next, newSign)
    BY <2>0
  <2>2. pc' # "refused"
    BY <1>1, <1>3, <2>1 DEF Stamps!Field
  <2>3. StampTypes /\ state \in States
    BY <1>1 DEF StampInv, StampTypes
  <2>4. StampTypes' /\ pc' = "parsing" /\ UNCHANGED <<text, written>>
    BY <1>1, <2>1, <2>2, <2>3, StampField
  <2>5. ASSUME NEW q, Parts(text, q) PROVE Progress(q)'
    <3>1. Progress(q)
      BY <1>1, <2>5 DEF StampInv
    <3> QED
      BY <1>1, <2>2, <2>3, <2>5, <3>1, CharMoves DEF FieldStep
  <2> QED
    BY <1>1, <2>4, <2>5, StampParsed
<1> QED
  BY <1>2, <1>3

LEMMA StampDigit ==
    ASSUME StampInv, Stamps!Digit
    PROVE  StampInv'
<1>1. /\ pc = "parsing" /\ state # "END" /\ StampTypes
      /\ ~(at > Len(text)) /\ text[at] \in DigitChars
  BY SameNumbers DEF Stamps!Digit, Stamps!AtEnd, Stamps!Char, StampInv
<1>2. CASE Stamps!Refuse
  BY <1>1, <1>2, StampRefused
<1>3. CASE ~Stamps!Refuse
  <2>1. /\ tmp' = Append(tmp, text[at]) /\ at' = at + 1
        /\ UNCHANGED <<pc, zone, text, written, state, tm, sign, usec>>
    BY <1>3 DEF Stamps!Digit, Stamps!Char
  <2>2. PICK n \in Nat : n = Len(text)
    <3>1. \E S : text \in Seq(S)
      BY <1>1 DEF StampTypes, IsText
    <3> QED
      BY <3>1
  <2>3. at <= Len(text)
    BY <1>1, <2>2 DEF StampTypes
  <2>4. StampTypes'
    <3>1. PICK c : c = text[at] /\ c \in DigitChars
      BY <1>1
    <3>2. tmp' \in Seq(DigitChars)
      BY <1>1, <2>1, <3>1 DEF StampTypes
    <3> QED
      BY <1>1, <2>1, <3>2 DEF StampTypes
  <2>5. ASSUME NEW q, Parts(text, q) PROVE Progress(q)'
    <3>1. Progress(q)
      BY <1>1, <2>5 DEF StampInv
    <3>2. Appended(tmp, text[at], tmp')
      BY <2>1 DEF Appended
    <3> QED
      BY <1>1, <2>1, <2>3, <2>5, <3>1, <3>2, DigitMoves
  <2> QED
    BY <1>1, <2>1, <2>4, <2>5, StampParsed
<1> QED
  BY <1>2, <1>3

LEMMA StampUsed ==
    ASSUME StampInv, Stamps!DeviceTime \/ Stamps!DatapointTime
    PROVE  StampInv'
<1>1. /\ pc = "parsing" /\ pc' = "accepted" /\ state = "END"
      /\ UNCHANGED <<zone, target, text, written, at, state, tmp, tm, sign, usec>>
      /\ target = "device" =>
            unixtime' = Stamps!TimeOf(tm) - zone
                        - sign * (tm.ZONE_HOUR * 3600 + tm.ZONE_MIN * 60)
  BY DEF Stamps!DeviceTime, Stamps!DatapointTime, Stamps!parserVars
<1>2. StampTypes'
  BY <1>1 DEF StampInv, StampTypes
<1>3. ASSUME NEW q, Parts(text', q) PROVE Progress(q)'
  <2>1. Progress(q)
    BY <1>1, <1>3 DEF StampInv
  <2> QED
    BY <1>1, <2>1 DEF Progress
<1>4. Stamps!TimeOf(tm)' = Stamps!TimeOf(tm)
  BY <1>1 DEF Stamps!TimeOf, Stamps!Minutes
<1> QED
  BY <1>1, <1>2, <1>3, <1>4 DEF StampInv

LEMMA StampStep ==
    ASSUME StampParameters, StampInv, [Stamps!Next]_Stamps!vars
    PROVE  StampInv'
<1>1. CASE Stamps!XmlOutput
  <2>1. PICK time \in Times : written' = {time} /\ text' = Stamps!Written(time, 0)
    BY <1>1 DEF Stamps!XmlOutput
  <2>2. time \in Nat
    BY DEF StampParameters
  <2>3. IsText(text')
    BY <2>1, <2>2, WrittenParts
  <2>4. /\ pc = "start" /\ pc' = "parsing"
        /\ UNCHANGED <<zone, at, state, tmp, tm, sign, unixtime, usec>>
    BY <1>1 DEF Stamps!XmlOutput, Stamps!parserVars
  <2> QED
    BY <2>1, <2>2, <2>3, <2>4, StampFirst
<1>2. CASE Stamps!Upload
  <2>1. /\ pc = "start" /\ pc' = "parsing" /\ written' = written
        /\ UNCHANGED <<zone, at, state, tmp, tm, sign, unixtime, usec>>
        /\ IsText(text')
    BY <1>2 DEF Stamps!Upload, Stamps!parserVars, StampParameters
  <2>2. written' = {}
    BY <2>1 DEF StampInv
  <2> QED
    BY <2>1, <2>2, StampFirst
<1>3. CASE FieldStep
  BY <1>3, StampBehind
<1>4. CASE Stamps!Digit
  BY <1>4, StampDigit
<1>5. CASE Stamps!OtherChar
  BY <1>5, StampRefused DEF Stamps!OtherChar
<1>6. CASE Stamps!DeviceTime \/ Stamps!DatapointTime
  BY <1>6, StampUsed
<1>7. CASE UNCHANGED Stamps!vars
  <2>1. UNCHANGED <<pc, zone, target, written, text, at, state, tmp, tm, sign, unixtime, usec>>
    BY <1>7 DEF Stamps!vars
  <2>2. StampTypes'
    BY <2>1 DEF StampInv, StampTypes
  <2>3. \A q : Progress(q) => Progress(q)'
    BY <2>1 DEF Progress
  <2>4. Stamps!TimeOf(tm)' = Stamps!TimeOf(tm)
    BY <2>1 DEF Stamps!TimeOf, Stamps!Minutes
  <2> QED
    BY <2>1, <2>2, <2>3, <2>4 DEF StampInv
<1> QED
  BY <1>1, <1>2, <1>3, <1>4, <1>5, <1>6, <1>7 DEF Stamps!Next, Stamps!Finished, FieldStep

\* The fields at the end of a timestamp are its numbers.
Ended(q, f, a, b, e) == From(q)[f] = a /\ Behind(q)[f] = b /\ b - 1 = e /\ at > b

LEMMA StampFields ==
    ASSUME StampTypes, NEW q, Parts(text, q), Progress(q), state = "END"
    PROVE  /\ \A f \in DateFields : tm[f] = DayTime(text)[f]
           /\ tm["ZONE_HOUR"] = ZoneHour(text, q) /\ tm["ZONE_MIN"] = ZoneMinute(text, q)
           /\ sign = IF text[q] = "-" THEN -1 ELSE 1
           /\ usec = IF q = 20 THEN 0 ELSE Stamps!Microseconds(Fraction(text, q))
           /\ text[q] = "-" => Len(text) # q
<1>1. PICK n \in Nat : n = Len(text)
  <2>1. \E S : text \in Seq(S)
    BY DEF StampTypes, IsText
  <2> QED
    BY <2>1
<1>2. q \in Nat /\ q >= 20 /\ ZoneFrom(text, q)
  BY <1>1 DEF Parts
<1>3. at = IF n = q THEN q + 1 ELSE q + 7
  BY <1>1 DEF Progress
<1>4. FieldTable(q)
  BY FieldPlaces
<1>5. \A b \in {5, 8, 11, 14, 17, 20} : at > b
  BY <1>2, <1>3
<1>6. \A f \in DateFields \cup ZoneFields :
         /\ at > Behind(q)[f] => tm[f] = Number(text, From(q)[f], Behind(q)[f] - 1)
         /\ at <= Behind(q)[f] /\ f \in ZoneFields => tm[f] = 0
  BY DEF Progress
<1>7. \A f \in DateFields \cup ZoneFields : \A a, b, e :
         Ended(q, f, a, b, e) => tm[f] = Number(text, a, e)
  BY <1>6 DEF Ended
<1>8. /\ tm["YEAR"] = Number(text, 1, 4) /\ tm["MON"] = Number(text, 6, 7)
      /\ tm["MDAY"] = Number(text, 9, 10) /\ tm["HOUR"] = Number(text, 12, 13)
      /\ tm["MIN"] = Number(text, 15, 16) /\ tm["SEC"] = Number(text, 18, 19)
  <2>1. {"YEAR", "MON", "MDAY", "HOUR", "MIN", "SEC"} \subseteq DateFields \cup ZoneFields
    BY DEF DateFields
  <2>3. tm["YEAR"] = Number(text, 1, 4)
    <3>1. Ended(q, "YEAR", 1, 5, 4)
      BY <1>4, <1>5 DEF Ended, FieldTable
    <3> QED
      BY <1>7, <2>1, <3>1
  <2>4. tm["MON"] = Number(text, 6, 7)
    <3>1. Ended(q, "MON", 6, 8, 7)
      BY <1>4, <1>5 DEF Ended, FieldTable
    <3> QED
      BY <1>7, <2>1, <3>1
  <2>5. tm["MDAY"] = Number(text, 9, 10)
    <3>1. Ended(q, "MDAY", 9, 11, 10)
      BY <1>4, <1>5 DEF Ended, FieldTable
    <3> QED
      BY <1>7, <2>1, <3>1
  <2>6. tm["HOUR"] = Number(text, 12, 13)
    <3>1. Ended(q, "HOUR", 12, 14, 13)
      BY <1>4, <1>5 DEF Ended, FieldTable
    <3> QED
      BY <1>7, <2>1, <3>1
  <2>7. tm["MIN"] = Number(text, 15, 16)
    <3>1. Ended(q, "MIN", 15, 17, 16)
      BY <1>4, <1>5 DEF Ended, FieldTable
    <3> QED
      BY <1>7, <2>1, <3>1
  <2>8. tm["SEC"] = Number(text, 18, 19)
    <3>1. Ended(q, "SEC", 18, 20, 19)
      BY <1>4, <1>5 DEF Ended, FieldTable
    <3> QED
      BY <1>7, <2>1, <3>1
  <2> QED
    BY <2>3, <2>4, <2>5, <2>6, <2>7, <2>8
<1>9. \A f \in DateFields : tm[f] = DayTime(text)[f]
  BY <1>8 DEF DateFields, DayTime
<1>10. tm["ZONE_HOUR"] = ZoneHour(text, q) /\ tm["ZONE_MIN"] = ZoneMinute(text, q)
  <2>1. CASE n = q
    <3>1. at <= q + 3 /\ at <= q + 6
      BY <1>2, <1>3, <2>1
    <3>2. tm["ZONE_HOUR"] = 0 /\ tm["ZONE_MIN"] = 0
      BY <1>4, <1>6, <3>1, Zenon DEF FieldTable, ZoneFields
    <3> QED
      BY <1>1, <2>1, <3>2 DEF ZoneHour, ZoneMinute
  <2>2. CASE n # q
    <3>1. at > q + 3 /\ at > q + 6
      BY <1>2, <1>3, <2>2
    <3>2. (q + 3) - 1 = q + 2 /\ (q + 6) - 1 = q + 5
      BY <1>2
    <3>3. tm["ZONE_HOUR"] = Number(text, q + 1, q + 2)
      <4>1. Ended(q, "ZONE_HOUR", q + 1, q + 3, q + 2)
        BY <1>4, <3>1, <3>2 DEF Ended, FieldTable
      <4> QED
        BY <1>7, <4>1, Zenon DEF ZoneFields
    <3>4. tm["ZONE_MIN"] = Number(text, q + 4, q + 5)
      <4>1. Ended(q, "ZONE_MIN", q + 4, q + 6, q + 5)
        BY <1>4, <3>1, <3>2 DEF Ended, FieldTable
      <4> QED
        BY <1>7, <4>1, Zenon DEF ZoneFields
    <3> QED
      BY <1>1, <2>2, <3>3, <3>4 DEF ZoneHour, ZoneMinute
  <2> QED
    BY <2>1, <2>2
<1>11. at > q
  BY <1>2, <1>3
<1>12. sign = IF text[q] = "-" THEN -1 ELSE 1
  BY <1>11 DEF Progress
<1>13. usec = IF q = 20 THEN 0 ELSE Stamps!Microseconds(Fraction(text, q))
  BY <1>11 DEF Progress
<1>14. text[q] = "-" => Len(text) # q
  BY <1>1, <1>2 DEF ZoneFrom
<1> QED
  BY <1>9, <1>10, <1>12, <1>13, <1>14

LEMMA SameInstant ==
    ASSUME NEW d, NEW e, \A f \in DateFields : d[f] = e[f]
    PROVE  Stamps!TimeOf(d) = Stamps!TimeOf(e)
<1>1. /\ d.YEAR = e.YEAR /\ d.MON = e.MON /\ d.MDAY = e.MDAY /\ d.HOUR = e.HOUR
      /\ d.MIN = e.MIN /\ d.SEC = e.SEC
  BY DEF DateFields
<1> QED
  BY <1>1 DEF Stamps!TimeOf, Stamps!Minutes

LEMMA TimesAreInt ==
    ASSUME NEW d, \A f \in DateFields : d[f] \in Nat
    PROVE  Stamps!TimeOf(d) \in Int
<1>1. /\ d.YEAR \in Nat /\ d.MON \in Nat /\ d.MDAY \in Nat /\ d.HOUR \in Nat
      /\ d.MIN \in Nat /\ d.SEC \in Nat
  BY Zenon DEF DateFields
<1> QED
  BY <1>1 DEF Stamps!TimeOf, Stamps!Minutes

LEMMA StampKept ==
    ASSUME StampInv
    PROVE  Stamps!InstantKept
<1> SUFFICES ASSUME pc = "accepted", Stamps!IsRfc3339(text)
             PROVE  /\ target = "device" => unixtime + zone = Stamps!Denoted(text)
                    /\ \A time \in written : Stamps!Denoted(text) = time
                    /\ usec = Stamps!Microseconds(Stamps!FractionDigits(text))
  BY DEF Stamps!InstantKept
<1>1. StampTypes /\ IsText(text) /\ state = "END"
  BY DEF StampInv, StampTypes
<1>2. PICK q : Parts(text, q)
  BY <1>1, Anatomy
<1>3. Progress(q)
  BY <1>2 DEF StampInv
<1>4. /\ Stamps!FractionDigits(text) = Fraction(text, q)
      /\ Stamps!Denoted(text) =
            Stamps!TimeOf(DayTime(text))
            - (IF text[q] = "-" THEN -Offset(text, q) ELSE Offset(text, q))
  BY <1>1, <1>2, DenotedInstant
<1>5. /\ \A f \in DateFields : tm[f] = DayTime(text)[f]
      /\ tm["ZONE_HOUR"] = ZoneHour(text, q) /\ tm["ZONE_MIN"] = ZoneMinute(text, q)
      /\ sign = IF text[q] = "-" THEN -1 ELSE 1
      /\ usec = IF q = 20 THEN 0 ELSE Stamps!Microseconds(Fraction(text, q))
  BY <1>1, <1>2, <1>3, StampFields
<1>6. \A f \in DateFields \cup ZoneFields : tm[f] \in Nat
  BY <1>1, States9 DEF StampTypes
<1>7. PICK d : d = Stamps!TimeOf(tm)
  OBVIOUS
<1>8. d = Stamps!TimeOf(DayTime(text))
  BY <1>5, <1>7, SameInstant
<1>9. d \in Int
  BY <1>6, <1>7, TimesAreInt
<1>10. PICK h \in Nat, m \in Nat : h = ZoneHour(text, q) /\ m = ZoneMinute(text, q)
  BY <1>5, <1>6 DEF ZoneFields
<1>11. Offset(text, q) = (h * 60 + m) * 60
  BY <1>10 DEF Offset
<1>12. target = "device" => unixtime + zone = Stamps!Denoted(text)
  <2>1. SUFFICES ASSUME target = "device" PROVE unixtime + zone = Stamps!Denoted(text)
    OBVIOUS
  <2>2. unixtime = d - zone - sign * (h * 3600 + m * 60) /\ zone \in Int
    <3>1. unixtime = Stamps!TimeOf(tm) - zone - sign * (tm.ZONE_HOUR * 3600 + tm.ZONE_MIN * 60)
      BY <2>1 DEF StampInv
    <3>2. tm.ZONE_HOUR = h /\ tm.ZONE_MIN = m
      BY <1>5, <1>10
    <3>3. zone \in Int
      BY <1>1 DEF StampTypes
    <3> QED
      BY ONLY <1>7, <3>1, <3>2, <3>3
  <2>3. PICK o \in Nat : o = (h * 60 + m) * 60 /\ o = h * 3600 + m * 60
    OBVIOUS
  <2>4. CASE text[q] = "-"
    <3>1. sign = -1 /\ Stamps!Denoted(text) = d - (-o)
      BY <1>4, <1>5, <1>8, <1>11, <2>3, <2>4
    <3> QED
      BY <1>9, <2>2, <2>3, <3>1
  <2>5. CASE text[q] # "-"
    <3>1. sign = 1 /\ Stamps!Denoted(text) = d - o
      BY <1>4, <1>5, <1>8, <1>11, <2>3, <2>5
    <3> QED
      BY <1>9, <2>2, <2>3, <3>1
  <2> QED
    BY <2>4, <2>5
<1>13. ASSUME NEW time \in written PROVE Stamps!Denoted(text) = time
  <2>1. time \in Nat /\ text = Stamps!Written(time, 0)
    BY DEF StampInv
  <2>2. Len(text) = 20 /\ text[20] = "Z" /\ DayTime(text) = Stamps!Gmtime(time)
    BY <2>1, WrittenParts
  <2>3. q = 20
    BY <1>2, <2>2 DEF Parts
  <2>4. Offset(text, q) = 0
    BY <2>2, <2>3 DEF Offset, ZoneHour, ZoneMinute
  <2>5. Stamps!TimeOf(DayTime(text)) = time
    BY <2>1, <2>2, SameTime
  <2>6. Stamps!Denoted(text) = time - 0
    BY <1>4, <2>2, <2>3, <2>4, <2>5
  <2> QED
    BY <2>1, <2>6
<1>14. usec = Stamps!Microseconds(Stamps!FractionDigits(text))
  <2>1. CASE q # 20
    BY <1>4, <1>5, <2>1
  <2>2. CASE q = 20
    <3>1. Fraction(text, q) = <<>>
      BY <2>2 DEF Fraction
    <3>2. NatOf(<<>>) = 0
      <4>1. PICK e \in Seq(DigitChars), n \in Nat : e = <<>> /\ n = 0 /\ n = Len(e)
        <5>1. <<>> \in Seq(DigitChars) /\ 0 \in Nat /\ 0 = Len(<<>>)
          OBVIOUS
        <5> QED
          BY <5>1, Zenon
      <4>2. PICK v : Digitwise(v, e, n)
        BY <4>1, NatOfSteps
      <4> QED
        BY <4>1, <4>2 DEF Digitwise
    <3>3. Stamps!Microseconds(<<>>) = 0 * 10^(6 - Len(<<>>))
      BY <3>2, SameNumbers DEF Stamps!Microseconds
    <3>4. 10^(6 - Len(<<>>)) \in Int
      <4>1. PICK k \in Nat : k = 6 - Len(<<>>)
        OBVIOUS
      <4>2. 10^k \in Int
        OBVIOUS
      <4> QED
        BY <4>1, <4>2
    <3> QED
      BY <1>4, <1>5, <2>2, <3>1, <3>3, <3>4
  <2> QED
    BY <2>1, <2>2
<1> QED
  BY <1>12, <1>13, <1>14

\* InstantKept of Timestamps, from every timestamp the client writes and every
\* text another logger sends: date_parse_rfc3339_tm(), date_parse_rfc3339_to_unixtime_z()
\* and date_snprintf_rfc3339_z() give the instant of an RFC 3339 timestamp back.
THEOREM InstantIsKept ==
    ASSUME StampParameters
    PROVE  Stamps!Spec => []Stamps!InstantKept
<1>1. Stamps!Init => StampInv
  BY StampStart
<1>2. StampInv /\ [Stamps!Next]_Stamps!vars => StampInv'
  BY StampStep
<1>3. StampInv => Stamps!InstantKept
  BY StampKept
<1> QED
  BY <1>1, <1>2, <1>3, PTL DEF Stamps!Spec

-----------------------------------------------------------------------------
\* Logged values: integers of a width

LEMMA TwoToSteps ==
    /\ TwoTo[0] = 1
    /\ \A n \in Nat : TwoTo[n] \in Nat /\ TwoTo[n + 1] = 2 * TwoTo[n]
<1> DEFINE size == [x \in Nat |-> x]
           base == [x \in Nat |-> 1]
           down == [x \in Nat |-> IF x = 0 THEN 0 ELSE x - 1]
           step == [x \in Nat |-> [y \in Nat |-> 2 * y]]
           F(f) == [x \in Nat |-> IF x = 0 THEN 1 ELSE 2 * f[x - 1]]
<1>1. /\ size \in [Nat -> Nat] /\ base \in [Nat -> Nat] /\ down \in [Nat -> Nat]
      /\ {0} \in SUBSET Nat
  OBVIOUS
<1>2. \A x \in Nat \ {0} : size[down[x]] < size[x]
  OBVIOUS
<1>3. \A x \in Nat : \A y \in Nat : step[x][y] \in Nat
  OBVIOUS
<1>4. PICK f \in [Nat -> Nat] :
         f = [x \in Nat |-> IF x \in {0} THEN base[x] ELSE step[x][f[down[x]]]]
  <2> HIDE DEF size, base, down, step
  <2>1. \E f \in [Nat -> Nat] : Descends(f, Nat, {0}, base, down, step)
    BY <1>1, <1>2, <1>3, Descent
  <2> QED
    BY <2>1 DEF Descends
<1>5. ASSUME NEW x \in Nat PROVE f[x] = F(f)[x]
  <2>1. CASE x = 0
    BY <1>4, <2>1
  <2>2. CASE x # 0
    <3>1. x \notin {0} /\ x - 1 \in Nat /\ f[x - 1] \in Nat /\ down[x] = x - 1
      BY <2>2
    <3>2. f[x] = step[x][f[down[x]]]
      BY <1>4, <3>1
    <3> QED
      BY <2>2, <3>1, <3>2
  <2> QED
    BY <2>1, <2>2
<1>6. f = F(f)
  BY <1>5
<1>7. TwoTo = F(TwoTo)
  BY <1>6 DEF TwoTo
<1>8. \A x \in Nat : TwoTo[x] = IF x = 0 THEN 1 ELSE 2 * TwoTo[x - 1]
  <2> HIDE DEF F
  <2>1. \A x \in Nat : TwoTo[x] = F(TwoTo)[x]
    BY <1>7
  <2> QED
    BY <2>1 DEF F
<1>9. TwoTo[0] = 1
  BY <1>8
<1>10. \A x \in Nat : TwoTo[x + 1] = 2 * TwoTo[x]
  <2>1. ASSUME NEW x \in Nat PROVE TwoTo[x + 1] = 2 * TwoTo[x]
    <3>1. PICK y \in Nat : y = x + 1
      OBVIOUS
    <3>2. y # 0 /\ y - 1 = x
      BY <3>1
    <3> QED
      BY <1>8, <3>1, <3>2
  <2> QED
    BY <2>1
<1>11. \A x \in Nat : TwoTo[x] \in Nat
  <2> DEFINE Bad == {x \in Nat : TwoTo[x] \notin Nat}
  <2>1. SUFFICES ASSUME Bad # {} PROVE FALSE
    OBVIOUS
  <2>2. PICK x \in Bad : \A y \in Bad : x <= y
    <3>1. Bad \in SUBSET Nat
      OBVIOUS
    <3> HIDE DEF Bad
    <3> QED
      BY <2>1, <3>1, NatLeast
  <2>3. PICK y \in Nat : y = x - 1
    <3>1. x # 0
      BY <1>9, <2>2
    <3> QED
      BY <2>2, <3>1
  <2>4. TwoTo[y] \in Nat
    BY <2>2, <2>3
  <2>5. y + 1 = x
    BY <2>2, <2>3
  <2>6. TwoTo[x] = 2 * TwoTo[y]
    BY <1>10, <2>5
  <2> QED
    BY <2>2, <2>4, <2>6
<1> QED
  BY <1>9, <1>10, <1>11

LEMMA TwoToGrows ==
    ASSUME NEW a \in Nat, NEW b \in Nat, a <= b
    PROVE  TwoTo[a] \in Nat /\ TwoTo[b] \in Nat /\ 1 <= TwoTo[a] /\ TwoTo[a] <= TwoTo[b]
<1>1. ASSUME NEW m \in Nat PROVE \A d \in Nat : TwoTo[m] <= TwoTo[m + d]
  <2> DEFINE Bad == {d \in Nat : ~(TwoTo[m] <= TwoTo[m + d])}
  <2>1. SUFFICES ASSUME Bad # {} PROVE FALSE
    OBVIOUS
  <2>2. PICK x \in Bad : \A y \in Bad : x <= y
    <3>1. Bad \in SUBSET Nat
      OBVIOUS
    <3> HIDE DEF Bad
    <3> QED
      BY <2>1, <3>1, NatLeast
  <2>3. x \in Nat /\ ~(TwoTo[m] <= TwoTo[m + x])
    BY <2>2
  <2>4. x # 0
    <3>1. m + 0 = m /\ TwoTo[m] \in Nat
      BY TwoToSteps
    <3>2. TwoTo[m] <= TwoTo[m]
      BY <3>1
    <3> QED
      BY <2>3, <3>1, <3>2
  <2>5. PICK y \in Nat : y = x - 1
    BY <2>3, <2>4
  <2>6. y \notin Bad
    BY <2>2, <2>3, <2>5
  <2>7. PICK k \in Nat : k = m + y /\ k + 1 = m + x
    BY <2>3, <2>5
  <2>8. TwoTo[m] <= TwoTo[k]
    BY <2>6, <2>7
  <2>9. TwoTo[k + 1] = 2 * TwoTo[k] /\ TwoTo[k] \in Nat /\ TwoTo[m] \in Nat
    BY TwoToSteps
  <2> QED
    BY <2>3, <2>7, <2>8, <2>9
<1>2. PICK d \in Nat : d = b - a
  OBVIOUS
<1>3. a + d = b /\ 0 + a = a
  BY <1>2
<1>4. TwoTo[a] <= TwoTo[b] /\ TwoTo[0] <= TwoTo[a]
  BY <1>1, <1>3
<1> QED
  BY <1>4, TwoToSteps

\* The places of a type's range.
Ranges(w, l, P, H, L, T) ==
    /\ w \in Nat \ {0} /\ l \in Nat \ {0}
    /\ P \in Nat /\ H \in Nat /\ L \in Nat /\ T \in Nat
    /\ P = TwoTo[w] /\ H = TwoTo[w - 1] /\ L = TwoTo[l] /\ T = TwoTo[l - 1]
    /\ 1 <= H /\ P = 2 * H /\ H <= T /\ L = 2 * T /\ P <= L

LEMMA Widths ==
    ASSUME NEW type \in ValueTypes
    PROVE  \E P, H, L, T \in Nat : Ranges(Width(type), LongWidth, P, H, L, T)
<1>1. PICK s \in {1, 2, 4} : s = TypeSize(type) \div 2
  BY DEF ValueTypes, TypeSize, Types, Types16, Types32, Types64
<1>2. Bits \in Nat \ {0}
  BY BitsAssumption
<1>3. PICK w \in Nat \ {0}, l \in Nat \ {0} : w = s * Bits /\ l = 4 * Bits /\ w <= l
  BY <1>1, <1>2
<1>4. PICK u \in Nat, k \in Nat : u = w - 1 /\ k = l - 1
  BY <1>3
<1>5. u + 1 = w /\ k + 1 = l /\ u <= k
  BY <1>3, <1>4
<1>6. TwoTo[w] = 2 * TwoTo[u] /\ TwoTo[l] = 2 * TwoTo[k]
  BY <1>5, TwoToSteps
<1>7. /\ TwoTo[u] \in Nat /\ TwoTo[k] \in Nat /\ 1 <= TwoTo[u] /\ TwoTo[u] <= TwoTo[k]
      /\ TwoTo[w] \in Nat /\ TwoTo[l] \in Nat /\ TwoTo[w] <= TwoTo[l]
  BY <1>3, <1>5, TwoToGrows
<1>8. Ranges(w, l, TwoTo[w], TwoTo[u], TwoTo[l], TwoTo[k])
  BY <1>3, <1>4, <1>6, <1>7 DEF Ranges
<1>9. Width(type) = w /\ LongWidth = l
  BY <1>1, <1>3 DEF Width, LongWidth
<1> QED
  BY <1>7, <1>8, <1>9

-----------------------------------------------------------------------------
\* Logged values: what is written is read

NoMore(t, m, n, u) == u = SubSeq(t, m, n) /\ \A k \in m .. n : t[k] \in DigitChars

LEMMA AllDigitsBehind ==
    ASSUME NEW t, NEW m, NEW n, n = Len(t), NEW u, NoMore(t, m, n, u)
    PROVE  DigitsAt(t, m) = u
<1> DEFINE stop == SelectInSubSeq(t, m, Len(t), LAMBDA c : ~IsDigit(c))
           I == {k \in m .. n : ~IsDigit(t[k])}
<1>1. stop = IF I # {} THEN Min(I) ELSE 0
  BY DEF SelectInSubSeq
<1>2. I = {}
  BY DigitFacts DEF NoMore
<1>3. stop = 0
  <2> HIDE DEF I, stop
  <2> QED
    BY <1>1, <1>2
<1>4. DigitsAt(t, m) = SubSeq(t, m, IF stop = 0 THEN Len(t) ELSE stop - 1)
  BY DEF DigitsAt
<1> HIDE DEF stop
<1> QED
  BY <1>3, <1>4 DEF NoMore

\* A text that "%d" reads as a number.
NumberText(t, n) ==
    /\ t \in Seq(DigitChars \cup {"-"}) /\ Len(t) \in Nat \ {0}
    /\ Scans(t) /\ ScanInt(t) = n

LEMMA NatTextScanned ==
    ASSUME NEW n \in Nat, NEW t, t = NatText[n]
    PROVE  NumberText(t, n)
<1>1. t \in Seq(DigitChars) /\ NatOf(t) = n /\ t # <<>>
  BY NatTextStep, NatTextRead
<1>2. PICK l \in Nat : l = Len(t) /\ l # 0
  BY <1>1
<1>3. \A k \in 1 .. l : t[k] \in DigitChars
  BY <1>1, <1>2
<1>4. ~HasSign(t)
  <2>1. t[1] \in DigitChars
    BY <1>2, <1>3
  <2> QED
    BY <2>1, DigitFacts DEF HasSign
<1>5. NoMore(t, 1, l, t)
  <2>1. t = SubSeq(t, 1, Len(t))
    BY <1>1
  <2> QED
    BY <1>2, <1>3, <2>1 DEF NoMore
<1>6. DigitsAt(t, 1) = t
  BY <1>2, <1>5, AllDigitsBehind
<1>7. ScannedDigits(t) = t
  BY <1>4, <1>6 DEF ScannedDigits
<1>8. Scans(t) /\ ScanInt(t) = n
  BY <1>1, <1>4, <1>7 DEF Scans, ScanInt
<1>9. t \in Seq(DigitChars \cup {"-"})
  BY <1>1
<1> QED
  BY <1>2, <1>8, <1>9 DEF NumberText

LEMMA MinusScanned ==
    ASSUME NEW n \in Nat, NEW t, t = <<"-">> \o NatText[n], NEW m, m = -n
    PROVE  NumberText(t, m)
<1> DEFINE S == DigitChars \cup {"-"}
<1>1. PICK d : d = NatText[n]
  OBVIOUS
<1>2. d \in Seq(DigitChars) /\ NatOf(d) = n /\ d # <<>>
  BY <1>1, NatTextStep, NatTextRead
<1>3. PICK l \in Nat : l = Len(d) /\ l # 0
  BY <1>2
<1>4. PICK s : s = <<"-">> /\ s \in Seq(S) /\ Len(s) = 1 /\ s[1] = "-"
  <2>1. <<"-">> \in Seq(S) /\ Len(<<"-">>) = 1 /\ <<"-">>[1] = "-"
    OBVIOUS
  <2> QED
    BY <2>1, Zenon
<1>5. d \in Seq(S)
  BY <1>2
<1> HIDE DEF S
<1>6. t = s \o d
  BY <1>1, <1>4
<1>7. PICK h \in Nat : h = 1 + l /\ h - 1 = l /\ l = h - 1
  OBVIOUS
<1>8. Joined(s, d, t)
  BY <1>6 DEF Joined
<1>9. t \in Seq(S) /\ Len(t) = h
  <2>1. JoinedIs(S, s, d, t)
    BY <1>4, <1>5, <1>8, Concatenated
  <2> QED
    BY <1>3, <1>4, <1>7, <2>1 DEF JoinedIs
<1>10. t[1] = "-" /\ SubSeq(t, 2, h) = d /\ \A k \in 2 .. h : t[k] \in DigitChars
  <2>1. Starts(t, t)
    <3>1. Len(t) <= Len(t)
      BY <1>9
    <3> QED
      BY <3>1 DEF Starts
  <2>2. Joint(s, d, t, t, 1, h)
    BY <1>3, <1>4, <1>7, <1>8, <2>1 DEF Joint
  <2>3. JointIs(s, d, t, 1, h)
    BY <1>4, <1>5, <1>9, <2>2, JointFacts
  <2>4. t[1] = "-"
    <3>1. 1 \in 1 .. Len(s)
      BY <1>4
    <3> QED
      BY <1>4, <2>3, <3>1 DEF JointIs, Starts
  <2>5. d = SubSeq(t, 2, h)
    BY <2>3 DEF JointIs
  <2>6. \A k \in 1 .. l : t[1 + k] = d[k] /\ d[k] \in DigitChars
    BY <1>2, <1>3, <1>7, <2>3 DEF JointIs
  <2>7. ASSUME NEW k \in 2 .. h PROVE t[k] \in DigitChars
    <3>1. PICK i \in 1 .. l : k = 1 + i
      <4>1. PICK i \in Int : i = k - 1
        OBVIOUS
      <4>2. i \in 1 .. l /\ k = 1 + i
        BY <1>7, <4>1
      <4> QED
        BY <4>2
    <3>2. t[1 + i] \in DigitChars
      BY <2>6
    <3> QED
      BY <3>1, <3>2
  <2> QED
    BY <2>4, <2>5, <2>7
<1>11. DigitsAt(t, 2) = d
  <2>1. NoMore(t, 2, h, d) /\ h = Len(t)
    BY <1>9, <1>10 DEF NoMore
  <2> QED
    BY <2>1, AllDigitsBehind
<1>12. t # <<>>
  <2>1. Len(t) # 0
    BY <1>7, <1>9
  <2>2. Len(<<>>) = 0
    OBVIOUS
  <2> QED
    BY <2>1, <2>2
<1>13. HasSign(t)
  BY <1>10, <1>12 DEF HasSign
<1>14. ScannedDigits(t) = d
  BY <1>11, <1>13 DEF ScannedDigits
<1>15. Scans(t) /\ ScanInt(t) = m
  BY <1>2, <1>10, <1>13, <1>14 DEF Scans, ScanInt
<1> QED
  BY <1>7, <1>9, <1>15 DEF NumberText, S

LEMMA IntTextScanned ==
    ASSUME NEW n \in Int, NEW t, t = IntText(n)
    PROVE  NumberText(t, n)
<1>1. CASE n < 0
  <2>1. PICK m \in Nat : m = -n /\ n = -m
    BY <1>1
  <2>2. t = <<"-">> \o NatText[m]
    BY <1>1, <2>1 DEF IntText
  <2> QED
    BY <2>1, <2>2, MinusScanned
<1>2. CASE ~(n < 0)
  BY <1>2, NatTextScanned DEF IntText
<1> QED
  BY <1>1, <1>2

LEMMA Remainders ==
    ASSUME NEW P \in Nat, P >= 1, NEW u \in Nat, u < P, NEW n \in Int, n = u \/ n = u - P
    PROVE  n % P = u
<1>1. CASE n = u
  BY <1>1
<1>2. CASE n = u - P
  <2>1. PICK q \in Int, r \in Int : q = n \div P /\ r = n % P
    OBVIOUS
  <2>2. n = P * q + r /\ 0 <= r /\ r < P
    BY <2>1
  <2>3. u - r = P * (q + 1)
    BY <1>2, <2>2
  <2>4. CASE q + 1 >= 1
    <3>1. P * (q + 1) >= P
      BY <2>4
    <3> QED
      BY <2>2, <2>3, <3>1
  <2>5. CASE q + 1 <= -1
    <3>1. P * (q + 1) <= -P
      BY <2>5
    <3> QED
      BY <2>2, <2>3, <3>1
  <2>6. CASE q + 1 = 0
    BY <2>1, <2>3, <2>6
  <2> QED
    BY <2>4, <2>5, <2>6
<1> QED
  BY <1>1, <1>2

\* The types whose values the host takes back from the client's log.
KeptTypes == ValueTypes \ {"pad", "ipv4", "acc64"}

\* A number that stands for the bits u of a type.
Represents(type, n, u, w, P, H, L) ==
    /\ n \in Int /\ n % P = u /\ -L < n /\ n < L
    /\ type \in SignedTypes => -H <= n /\ n < H

LEMMA SignedBack ==
    ASSUME NEW w, NEW l, NEW P, NEW H, NEW L, NEW T, Ranges(w, l, P, H, L, T),
           NEW u \in 0 .. P - 1, NEW n, n = Signed(u, w)
    PROVE  n \in Int /\ -H <= n /\ n < H /\ n % P = u
<1>1. P \in Nat /\ H \in Nat /\ P = TwoTo[w] /\ H = TwoTo[w - 1] /\ P = 2 * H /\ P >= 1
  BY DEF Ranges
<1>2. u \in Nat /\ u < P
  BY <1>1
<1>3. n = IF u >= H THEN u - P ELSE u
  BY <1>1 DEF Signed
<1>4. n \in Int /\ -H <= n /\ n < H
  BY <1>1, <1>2, <1>3
<1>5. n = u \/ n = u - P
  BY <1>3
<1> QED
  BY <1>1, <1>2, <1>4, <1>5, Remainders

LEMMA XmlNumber ==
    ASSUME NEW type \in KeptTypes \cup {"acc64"}, NEW P, NEW H, NEW L, NEW T, NEW w,
           w = Width(type), Ranges(w, LongWidth, P, H, L, T), NEW u \in 0 .. P - 1
    PROVE  \E n \in Int : XmlText(type, u) = IntText(n) /\ Represents(type, n, u, w, P, H, L)
<1>1. P \in Nat /\ H \in Nat /\ L \in Nat /\ P = 2 * H /\ P <= L /\ P >= 1
  BY DEF Ranges
<1>2. u \in Nat /\ u < P
  BY <1>1
<1>3. type \notin {"pad", "ipv4"}
  BY DEF KeptTypes
<1>4. CASE type \in SignedTypes \cup {"acc32", "uint64"}
  <2>1. PICK n : n = Signed(u, w)
    OBVIOUS
  <2>2. n \in Int /\ -H <= n /\ n < H /\ n % P = u
    BY <2>1, SignedBack
  <2>3. -L < n /\ n < L
    BY <1>1, <2>2
  <2>4. XmlText(type, u) = IntText(n)
    BY <1>3, <1>4, <2>1 DEF XmlText
  <2> QED
    BY <2>2, <2>3, <2>4 DEF Represents
<1>5. CASE type \notin SignedTypes \cup {"acc32", "uint64"}
  <2>1. XmlText(type, u) = NatText[u]
    BY <1>3, <1>5 DEF XmlText
  <2>2. IntText(u) = NatText[u]
    BY <1>2 DEF IntText
  <2>3. u % P = u /\ u \in Int /\ -L < u /\ u < L
    BY <1>1, <1>2
  <2> QED
    BY <1>5, <2>1, <2>2, <2>3 DEF Represents
<1> QED
  BY <1>4, <1>5

ScannedIs(type, t, w, u) ==
    /\ type \in SignedTypes => ScanSigned(t, w) = u
    /\ ScanUnsigned(t, w) = u

LEMMA ScannedBack ==
    ASSUME NEW type, NEW P, NEW H, NEW L, NEW T, NEW w, Ranges(w, LongWidth, P, H, L, T),
           NEW u, NEW n, Represents(type, n, u, w, P, H, L), NEW t, NumberText(t, n)
    PROVE  ScannedIs(type, t, w, u)
<1>1. /\ P \in Nat /\ H \in Nat /\ L \in Nat /\ T \in Nat
      /\ P = TwoTo[w] /\ L = TwoTo[LongWidth] /\ T = TwoTo[LongWidth - 1]
      /\ H <= T
  BY DEF Ranges
<1>2. n \in Int /\ n % P = u /\ -L < n /\ n < L /\ ScanInt(t) = n
  BY DEF Represents, NumberText
<1>3. ScanUnsigned(t, w) = (IF n >= L \/ -n >= L THEN L - 1 ELSE n) % P
  BY <1>1, <1>2 DEF ScanUnsigned
<1>4. ~(n >= L) /\ ~(-n >= L)
  BY <1>1, <1>2
<1>5. ScanUnsigned(t, w) = u
  BY <1>2, <1>3, <1>4
<1>6. ASSUME type \in SignedTypes PROVE ScanSigned(t, w) = u
  <2>1. -H <= n /\ n < H
    BY <1>6 DEF Represents
  <2>2. ~(n < -T) /\ ~(n >= T)
    BY <1>1, <1>2, <2>1
  <2>3. ScanSigned(t, w) = (IF n < -T THEN -T ELSE IF n >= T THEN T - 1 ELSE n) % P
    BY <1>1, <1>2 DEF ScanSigned
  <2> QED
    BY <1>2, <2>2, <2>3
<1> QED
  BY <1>5, <1>6 DEF ScannedIs

\* The text of a value is read as the value.
TextBack(type, u, t) ==
    /\ t \in Seq(DigitChars \cup {"-"}) /\ Len(t) \in Nat \ {0}
    /\ type \in KeptTypes => Converted(type, t) = u

LEMMA ConvertedBack ==
    ASSUME NEW type \in KeptTypes \cup {"acc64"}, NEW u \in 0 .. TwoTo[Width(type)] - 1,
           NEW t, t = XmlText(type, u)
    PROVE  TextBack(type, u, t)
<1>1. type \in ValueTypes
  BY DEF KeptTypes, ValueTypes, Types, Types64
<1>2. PICK w : w = Width(type)
  OBVIOUS
<1>3. PICK P \in Nat, H \in Nat, L \in Nat, T \in Nat : Ranges(w, LongWidth, P, H, L, T)
  BY <1>1, <1>2, Widths
<1>4. u \in 0 .. P - 1
  BY <1>2, <1>3 DEF Ranges
<1>5. PICK n \in Int : XmlText(type, u) = IntText(n) /\ Represents(type, n, u, w, P, H, L)
  BY <1>2, <1>3, <1>4, XmlNumber
<1>6. NumberText(t, n)
  BY <1>5, IntTextScanned
<1>7. /\ type \in SignedTypes => ScanSigned(t, w) = u
      /\ ScanUnsigned(t, w) = u
  <2>1. ScannedIs(type, t, w, u)
    BY <1>3, <1>5, <1>6, ScannedBack
  <2> QED
    BY <2>1 DEF ScannedIs
<1>8. Scans(t) /\ t \in Seq(DigitChars \cup {"-"}) /\ Len(t) \in Nat \ {0}
  BY <1>6 DEF NumberText
<1>9. ASSUME type \in KeptTypes PROVE Converted(type, t) = u
  <2>1. type # "ipv4"
    BY <1>9 DEF KeptTypes
  <2> QED
    BY <1>2, <1>7, <1>8, <2>1 DEF Converted
<1> QED
  BY <1>8, <1>9 DEF TextBack

-----------------------------------------------------------------------------
\* Logged values: the invariant

\* What the registers of the device gave.
ValueRead ==
    /\ value = [bits |-> value.bits, sf |-> value.sf, ok |-> value.ok]
    /\ tp.sf # 0 => value.sf = tp.sf
    /\ value.ok = TRUE
    /\ tp.type # "pad" => /\ value.bits \in 0 .. TwoTo[Width(tp.type)] - 1
                          /\ ~NotImplemented(tp.type, value.bits)

\* The p element is that of the client, and the parser nowhere it could refuse it.
Logged ==
    /\ p = [text |-> XmlText(tp.type, value.bits),
            sf   |-> IF value.sf = 0 THEN {} ELSE {value.sf}]
    /\ pc = "parsing" /\ tp.type \in KeptTypes \cup {"acc64"} =>
          /\ parser.at \in Nat \ {0}
          /\ \/ parser.state = "START" /\ parser.at = 1
             \/ parser.state \in {"BASE", "END"}
    /\ pc = "accepted" /\ tp.type # "ipv4" => tp.type \in KeptTypes /\ stored = value
    /\ pc = "refused" => tp.type \in {"pad", "ipv4", "acc64"}

LogInv ==
    /\ tp.type \in ValueTypes /\ DOMAIN parser = DOMAIN Parser0
    /\ pc = "start" => value = NoValue
    /\ pc \in {"start", "value"} => parser = Parser0
    /\ value.ok => ValueRead
    /\ value.ok /\ pc \in {"parsing", "accepted", "refused"} => Logged

LEMMA LogStart ==
    ASSUME Init
    PROVE  LogInv
<1>1. tp.type \in ValueTypes /\ pc = "start" /\ value = NoValue /\ parser = Parser0
  BY DEF Init
<1>2. ~value.ok
  BY <1>1 DEF NoValue
<1> QED
  BY <1>1, <1>2 DEF LogInv

\* A step that leaves the value, and with pc the reader of its text, alone.
LEMMA LogIdle ==
    ASSUME LogInv, UNCHANGED <<tp, value, p, parser, stored>>,
           \/ UNCHANGED pc
           \/ pc = "value" /\ pc' \notin {"start", "value", "parsing", "accepted", "refused"}
    PROVE  LogInv'
<1>1. ValueRead => ValueRead'
  BY DEF ValueRead
<1>2. CASE UNCHANGED pc
  <2>1. Logged => Logged'
    BY <1>2 DEF Logged
  <2> QED
    BY <1>1, <1>2, <2>1 DEF LogInv
<1>3. CASE pc = "value" /\ pc' \notin {"start", "value", "parsing", "accepted", "refused"}
  BY <1>1, <1>3 DEF LogInv
<1> QED
  BY <1>2, <1>3

LEMMA LogDevice ==
    ASSUME LogInv, BufToValue
    PROVE  LogInv'
<1>1. /\ pc = "start" /\ pc' = "value" /\ UNCHANGED <<tp, p, parser, stored>>
  BY DEF BufToValue
<1>2. PICK u \in 0 .. TwoTo[Width(tp.type)] - 1, sf \in Scales :
         /\ tp.sf # 0 => sf = tp.sf
         /\ value' = [bits |-> IF tp.type = "pad" THEN 0 ELSE u, sf |-> sf,
                      ok |-> ~NotImplemented(tp.type, u)]
  BY DEF BufToValue
<1>3. ASSUME value'.ok PROVE ValueRead'
  <2>1. /\ value'.bits = (IF tp.type = "pad" THEN 0 ELSE u) /\ value'.sf = sf
        /\ value'.ok = ~NotImplemented(tp.type, u)
    BY <1>2
  <2>2. value' = [bits |-> value'.bits, sf |-> value'.sf, ok |-> value'.ok]
    BY <1>2, <2>1
  <2>3. value'.ok = TRUE
    BY <1>3, <2>1
  <2>4. ASSUME tp.type # "pad"
        PROVE  /\ value'.bits \in 0 .. TwoTo[Width(tp.type)] - 1
               /\ ~NotImplemented(tp.type, value'.bits)
    BY <1>3, <2>1, <2>4
  <2> QED
    BY <1>1, <1>2, <2>1, <2>2, <2>3, <2>4 DEF ValueRead
<1> QED
  BY <1>1, <1>3 DEF LogInv

LEMMA LogXml ==
    ASSUME LogInv, XmlOutput
    PROVE  LogInv'
<1>1. /\ pc = "value" /\ pc' = "parsing" /\ UNCHANGED <<tp, value, parser, stored>>
      /\ p' = [text |-> XmlText(tp.type, value.bits),
               sf   |-> IF value.sf = 0 THEN {} ELSE {value.sf}]
  BY DEF XmlOutput
<1>2. parser.state = "START" /\ parser.at = 1
  BY <1>1 DEF LogInv, Parser0
<1>3. 1 \in Nat \ {0}
  OBVIOUS
<1>4. Logged'
  BY <1>1, <1>2, <1>3 DEF Logged
<1>5. ValueRead => ValueRead'
  BY <1>1 DEF ValueRead
<1> QED
  BY <1>1, <1>4, <1>5 DEF LogInv

LEMMA LogUpload ==
    ASSUME LogInv, Upload
    PROVE  LogInv'
<1>1. /\ pc = "start" /\ pc' = "parsing" /\ UNCHANGED <<tp, value, parser, stored>>
  BY DEF Upload
<1>2. ~value.ok
  BY <1>1 DEF LogInv, NoValue
<1> QED
  BY <1>1, <1>2 DEF LogInv

\* Steps of the reader of the host.
LEMMA LogRefused ==
    ASSUME LogInv, pc = "parsing", Refuse,
           value.ok => tp.type \in {"pad", "ipv4", "acc64"}
    PROVE  LogInv'
<1>1. pc' = "refused" /\ UNCHANGED <<tp, value, p, parser, stored>>
  BY DEF Refuse
<1>2. ValueRead => ValueRead'
  BY <1>1 DEF ValueRead
<1>3. value.ok /\ Logged => Logged'
  BY <1>1 DEF Logged
<1> QED
  BY <1>1, <1>2, <1>3 DEF LogInv

LEMMA LogParsed ==
    ASSUME LogInv, pc = "parsing", NEW next, Parse(next), DOMAIN next = DOMAIN parser,
           value.ok /\ tp.type \in KeptTypes \cup {"acc64"} =>
              next.at \in Nat \ {0} /\ next.state \in {"BASE", "END"}
    PROVE  LogInv'
<1>1. parser' = next /\ UNCHANGED <<pc, tp, value, p, stored>>
  BY DEF Parse
<1>2. ValueRead => ValueRead'
  BY <1>1 DEF ValueRead
<1>3. value.ok /\ Logged => Logged'
  BY <1>1 DEF Logged
<1> QED
  BY <1>1, <1>2, <1>3 DEF LogInv

\* What the reader has before it, of a value that the host takes.
Reading ==
    /\ p.text \in Seq(DigitChars \cup {"-"}) /\ Len(p.text) \in Nat \ {0}
    /\ tp.type \in KeptTypes => Converted(tp.type, p.text) = value.bits
    /\ parser.at \in Nat \ {0}
    /\ \/ parser.state = "START" /\ parser.at = 1
       \/ parser.state \in {"BASE", "END"}

LEMMA LogReading ==
    ASSUME LogInv, value.ok, pc = "parsing", tp.type \in KeptTypes \cup {"acc64"}
    PROVE  Reading
<1>1. ValueRead /\ Logged
  BY DEF LogInv
<1>2. tp.type # "pad"
  BY DEF KeptTypes
<1>3. value.bits \in 0 .. TwoTo[Width(tp.type)] - 1
  BY <1>1, <1>2 DEF ValueRead
<1>4. p.text = XmlText(tp.type, value.bits)
  BY <1>1 DEF Logged
<1>5. TextBack(tp.type, value.bits, p.text)
  BY <1>3, <1>4, ConvertedBack
<1> QED
  BY <1>1, <1>5 DEF Logged, Reading, TextBack

\* A value that the host takes, and of which it is reading the text.
Kept == value.ok /\ tp.type \in KeptTypes \cup {"acc64"}

LEMMA LogChar ==
    ASSUME LogInv, Kept, pc = "parsing", ~AtEnd
    PROVE  /\ Char \in DigitChars \cup {"-"} /\ parser.at + 1 \in Nat \ {0}
           /\ parser.state \in {"START", "BASE", "END"}
<1>1. Reading
  BY LogReading DEF Kept
<1>2. PICK n \in Nat : n = Len(p.text)
  BY <1>1 DEF Reading
<1>3. parser.at \in 1 .. n /\ parser.at + 1 \in Nat \ {0}
  BY <1>1, <1>2 DEF Reading, AtEnd
<1>4. p.text \in Seq(DigitChars \cup {"-"})
  BY <1>1 DEF Reading
<1>5. Char \in DigitChars \cup {"-"}
  BY <1>2, <1>3, <1>4 DEF Char
<1> QED
  BY <1>1, <1>3, <1>5 DEF Reading


LEMMA LogSign ==
    ASSUME LogInv, Sign
    PROVE  LogInv'
<1>1. pc = "parsing" /\ ~AtEnd
  BY DEF Sign, Reads
<1>2. DOMAIN parser = {"state", "at", "tmp", "places", "base", "e"}
  BY DEF LogInv, Parser0
<1>3. Kept => parser.at + 1 \in Nat \ {0} /\ parser.state \in {"START", "BASE", "END"}
  BY <1>1, LogChar
<1>4. CASE parser.state = "START"
  <2>1. PICK next : next = [Copied EXCEPT !.state = "BASE"]
    OBVIOUS
  <2>2. Parse(next)
    BY <1>4, <2>1 DEF Sign
  <2>3. DOMAIN next = DOMAIN parser /\ next.at = parser.at + 1 /\ next.state = "BASE"
    BY <1>2, <2>1 DEF Copied
  <2> QED
    BY <1>1, <1>3, <2>2, <2>3, LogParsed DEF Kept
<1>5. CASE parser.state = "EXP"
  <2>1. PICK next : next = Copied
    OBVIOUS
  <2>2. Parse(next) /\ ~Kept
    BY <1>3, <1>5, <2>1 DEF Sign
  <2>3. DOMAIN next = DOMAIN parser
    BY <1>2, <2>1 DEF Copied
  <2> QED
    BY <1>1, <2>2, <2>3, LogParsed DEF Kept
<1>6. CASE parser.state \notin {"START", "EXP"}
  <2>1. UNCHANGED vars
    BY <1>6 DEF Sign
  <2> QED
    BY <2>1, LogIdle DEF vars
<1> QED
  BY <1>4, <1>5, <1>6

LEMMA LogDigit ==
    ASSUME LogInv, Digit
    PROVE  LogInv'
<1>1. pc = "parsing" /\ ~AtEnd
  BY DEF Digit
<1>2. DOMAIN parser = {"state", "at", "tmp", "places", "base", "e"}
  BY DEF LogInv, Parser0
<1>3. Kept => parser.at + 1 \in Nat \ {0} /\ parser.state \in {"START", "BASE", "END"}
  BY <1>1, LogChar
<1>4. PICK next : next = [Copied EXCEPT !.state = IF @ = "START" THEN "BASE" ELSE @,
                                        !.places = IF parser.state = "FRACTION" THEN @ + 1 ELSE @]
  OBVIOUS
<1>5. Parse(next)
  BY <1>4 DEF Digit
<1>6. /\ DOMAIN next = DOMAIN parser /\ next.at = parser.at + 1
      /\ next.state = IF parser.state = "START" THEN "BASE" ELSE parser.state
  BY <1>2, <1>4 DEF Copied
<1> QED
  BY <1>1, <1>3, <1>5, <1>6, LogParsed DEF Kept

LEMMA LogOther ==
    ASSUME LogInv, Point \/ Exponent \/ OtherChar
    PROVE  LogInv'
<1>1. pc = "parsing" /\ ~AtEnd
  BY DEF Point, Exponent, OtherChar, Reads
<1>2. DOMAIN parser = {"state", "at", "tmp", "places", "base", "e"}
  BY DEF LogInv, Parser0
<1>3. ~Kept
  <2>1. SUFFICES ASSUME Kept PROVE FALSE
    OBVIOUS
  <2>2. Char \in DigitChars \cup {"-"}
    BY <1>1, <2>1, LogChar
  <2> QED
    BY <2>2, DigitFacts DEF Point, Exponent, OtherChar, Reads
<1>4. value.ok => tp.type \in {"pad", "ipv4", "acc64"}
  BY <1>3 DEF Kept, KeptTypes, LogInv
<1>5. CASE Refuse
  BY <1>1, <1>4, <1>5, LogRefused
<1>6. CASE ~Refuse
  <2>1. \E next : Parse(next) /\ DOMAIN next = DOMAIN parser
    <3>1. CASE Point
      <4>1. PICK next : next = [parser EXCEPT !.state = "FRACTION", !.at = @ + 1]
        OBVIOUS
      <4>2. Parse(next)
        BY <1>6, <3>1, <4>1 DEF Point
      <4>3. DOMAIN next = DOMAIN parser
        BY <4>1
      <4> QED
        BY <4>2, <4>3
    <3>2. CASE Exponent
      <4>1. PICK next : next = [parser EXCEPT !.base = parser.tmp, !.tmp = <<>>,
                                              !.at = @ + 1, !.state = "EXP"]
        OBVIOUS
      <4>2. Parse(next)
        BY <1>6, <3>2, <4>1 DEF Exponent
      <4>3. DOMAIN next = DOMAIN parser
        BY <4>1
      <4> QED
        BY <4>2, <4>3
    <3>3. CASE OtherChar
      BY <1>6, <3>3 DEF OtherChar
    <3> QED
      BY <3>1, <3>2, <3>3
  <2>2. PICK next : Parse(next) /\ DOMAIN next = DOMAIN parser
    BY <2>1
  <2> QED
    BY <1>1, <1>3, <2>2, LogParsed DEF Kept
<1> QED
  BY <1>5, <1>6

LEMMA LogEnd ==
    ASSUME LogInv, EndOfText
    PROVE  LogInv'
<1>1. pc = "parsing" /\ AtEnd /\ parser.state # "END"
  BY DEF EndOfText
<1>2. DOMAIN parser = {"state", "at", "tmp", "places", "base", "e"}
  BY DEF LogInv, Parser0
<1>3. ASSUME Kept PROVE parser.state = "BASE" /\ parser.at \in Nat \ {0}
  <2>1. Reading
    BY <1>1, <1>3, LogReading DEF Kept
  <2>2. PICK n \in Nat : n = Len(p.text) /\ n # 0
    BY <2>1 DEF Reading
  <2>3. parser.at # 1
    BY <1>1, <2>2 DEF AtEnd
  <2> QED
    BY <1>1, <2>1, <2>3 DEF Reading
<1>4. CASE parser.state \in {"BASE", "FRACTION"}
  <2>1. PICK next : next = [parser EXCEPT !.base = parser.tmp, !.e = -parser.places,
                                          !.state = "END"]
    OBVIOUS
  <2>2. Parse(next)
    BY <1>4, <2>1 DEF EndOfText
  <2>3. DOMAIN next = DOMAIN parser /\ next.at = parser.at /\ next.state = "END"
    BY <1>2, <2>1
  <2> QED
    BY <1>1, <1>3, <2>2, <2>3, LogParsed DEF Kept
<1>5. CASE parser.state \notin {"BASE", "FRACTION"}
  <2>1. value.ok => tp.type \in {"pad", "ipv4", "acc64"}
    BY <1>3, <1>5 DEF Kept, KeptTypes, LogInv
  <2>2. CASE Refuse
    BY <1>1, <2>1, <2>2, LogRefused
  <2>3. CASE ~Refuse
    <3>1. PICK next : next = [parser EXCEPT !.e = ScanInt(parser.tmp) - parser.places,
                                            !.state = "END"]
      OBVIOUS
    <3>2. Parse(next)
      BY <1>5, <2>3, <3>1 DEF EndOfText
    <3>3. DOMAIN next = DOMAIN parser
      BY <3>1
    <3> QED
      BY <1>1, <1>3, <1>5, <3>2, <3>3, LogParsed DEF Kept
  <2> QED
    BY <2>2, <2>3
<1> QED
  BY <1>4, <1>5

LEMMA LogConvert ==
    ASSUME LogInv, Convert
    PROVE  LogInv'
<1>1. pc = "parsing"
  BY DEF Convert
<1>2. CASE tp.type \in {"pad", "acc64"}
  BY <1>1, <1>2, LogRefused DEF Convert
<1>3. CASE tp.type \notin {"pad", "acc64"}
  <2>1. /\ pc' = "accepted" /\ UNCHANGED <<tp, value, p, parser>>
        /\ stored' = [bits |-> Converted(tp.type, p.text),
                      sf   |-> IF p.sf = {} THEN tp.sf ELSE CHOOSE e \in p.sf : TRUE,
                      ok   |-> ~NotImplemented(tp.type, Converted(tp.type, p.text))]
    BY <1>3 DEF Convert
  <2>2. ValueRead => ValueRead'
    BY <2>1 DEF ValueRead
  <2>3. ASSUME value.ok, tp.type # "ipv4" PROVE tp.type \in KeptTypes /\ stored' = value
    <3>1. tp.type \in KeptTypes
      BY <1>3, <2>3 DEF KeptTypes, LogInv
    <3>2. Converted(tp.type, p.text) = value.bits
      BY <1>1, <2>3, <3>1, LogReading DEF Reading
    <3>3. ValueRead /\ Logged
      BY <1>1, <2>3 DEF LogInv
    <3>4. p.sf = IF value.sf = 0 THEN {} ELSE {value.sf}
      BY <3>3 DEF Logged
    <3>5. (IF p.sf = {} THEN tp.sf ELSE CHOOSE e \in p.sf : TRUE) = value.sf
      <4>1. CASE value.sf = 0
        BY <3>3, <3>4, <4>1 DEF ValueRead
      <4>2. CASE value.sf # 0
        BY <3>4, <4>2
      <4> QED
        BY <4>1, <4>2
    <3>6. ~NotImplemented(tp.type, value.bits) /\ value.ok = TRUE
      BY <1>3, <3>3 DEF ValueRead
    <3>7. stored' = [bits |-> value.bits, sf |-> value.sf, ok |-> TRUE]
      BY <2>1, <3>2, <3>5, <3>6
    <3> QED
      BY <3>1, <3>3, <3>6, <3>7 DEF ValueRead
  <2>4. value.ok /\ Logged => Logged'
    BY <2>1, <2>3 DEF Logged
  <2> QED
    BY <1>1, <2>1, <2>2, <2>4 DEF LogInv
<1> QED
  BY <1>2, <1>3

LEMMA LogStep ==
    ASSUME LogInv, [Next]_vars
    PROVE  LogInv'
<1>1. CASE BufToValue
  BY <1>1, LogDevice
<1>2. CASE TextOutput \/ NotShown
  <2>1. pc = "value" /\ UNCHANGED <<tp, value, p, parser, stored>>
    BY <1>2, Zenon DEF TextOutput, NotShown
  <2>2. pc' = "printed" \/ pc' = "not shown"
    BY <1>2, Zenon DEF TextOutput, NotShown
  <2>3. pc' \notin {"start", "value", "parsing", "accepted", "refused"}
    BY <2>2, Zenon
  <2> QED
    BY <2>1, <2>3, LogIdle
<1>3. CASE XmlOutput
  BY <1>3, LogXml
<1>4. CASE Upload
  BY <1>4, LogUpload
<1>5. CASE UNCHANGED vars
  BY <1>5, LogIdle DEF vars
<1>6. CASE ParseStep
  BY <1>6, LogSign, LogDigit, LogOther, LogEnd, LogConvert DEF ParseStep
<1>7. Next => \/ BufToValue \/ TextOutput \/ NotShown \/ XmlOutput \/ Upload \/ ParseStep
              \/ UNCHANGED vars
  BY Zenon DEF Next, ParseStep, Finished
<1> QED
  BY <1>1, <1>2, <1>3, <1>4, <1>5, <1>6, <1>7

LEMMA LogKept ==
    ASSUME LogInv
    PROVE  LogKeepsValue
  BY DEF LogInv, Logged, LogKeepsValue

\* LogKeepsValue, for integers of every width: what suns_string_to_value() and
\* suns_host_parse_datapoint() make of a p element of suns_dataset_xml_fprintf()
\* has the bits, the scale factor and the state that the value had on the
\* device, and nothing but pads, addresses and 64 bit accumulators is refused.
THEOREM LogIsKept == Spec => []LogKeepsValue
<1>1. Init => LogInv
  BY LogStart
<1>2. LogInv /\ [Next]_vars => LogInv'
  BY LogStep
<1>3. LogInv => LogKeepsValue
  BY LogKept
<1> QED
  BY <1>1, <1>2, <1>3, PTL DEF Spec

-----------------------------------------------------------------------------
\* Printed values: what the text of a number denotes

\* The reference strips zeros from a number until there are none.
LEMMA StripSteps ==
    ASSUME NEW n \in Int
    PROVE  /\ Stripped[n] \in Int /\ TrailingZeros[n] \in Int
           /\ n # 0 => /\ Stripped[10 * n] = Stripped[n]
                       /\ TrailingZeros[10 * n] = 1 + TrailingZeros[n]
<1> DEFINE Ends == {x \in Int : ~(x # 0 /\ x % 10 = 0)}
           size == [x \in Int |-> IF x < 0 THEN -x ELSE x]
           down == [x \in Int |-> x \div 10]
           same == [x \in Int |-> x]
           none == [x \in Int |-> 0]
           keep == [x \in Int |-> [y \in Int |-> y]]
           more == [x \in Int |-> [y \in Int |-> 1 + y]]
           F(f) == [x \in Int |-> IF x # 0 /\ x % 10 = 0 THEN f[x \div 10] ELSE x]
           G(f) == [x \in Int |-> IF x # 0 /\ x % 10 = 0 THEN 1 + f[x \div 10] ELSE 0]
<1>1. size \in [Int -> Nat] /\ down \in [Int -> Int] /\ Ends \in SUBSET Int
  <2>1. \A x \in Int : (IF x < 0 THEN -x ELSE x) \in Nat /\ x \div 10 \in Int
    OBVIOUS
  <2> QED
    BY <2>1
<1>2. \A x \in Int \ Ends : size[down[x]] < size[x]
  <2>1. ASSUME NEW x \in Int, x # 0, x % 10 = 0 PROVE size[down[x]] < size[x]
    <3>1. PICK q \in Int : q = x \div 10
      OBVIOUS
    <3>2. x = 10 * q
      BY <2>1, <3>1
    <3>3. (IF q < 0 THEN -q ELSE q) < (IF x < 0 THEN -x ELSE x)
      BY <2>1, <3>2
    <3> QED
      BY <3>1, <3>3
  <2> QED
    BY <2>1
<1>3. same \in [Int -> Int] /\ none \in [Int -> Int]
  OBVIOUS
<1>4. /\ \A x \in Int : \A y \in Int : keep[x][y] \in Int
      /\ \A x \in Int : \A y \in Int : more[x][y] \in Int
  OBVIOUS
<1>5. PICK f \in [Int -> Int] :
         f = [x \in Int |-> IF x \in Ends THEN same[x] ELSE keep[x][f[down[x]]]]
  <2> HIDE DEF Ends, size, down, same, none, keep, more
  <2>1. \E f \in [Int -> Int] : Descends(f, Int, Ends, same, down, keep)
    BY <1>1, <1>2, <1>3, <1>4, Descent
  <2> QED
    BY <2>1 DEF Descends
<1>6. PICK g \in [Int -> Int] :
         g = [x \in Int |-> IF x \in Ends THEN none[x] ELSE more[x][g[down[x]]]]
  <2> HIDE DEF Ends, size, down, same, none, keep, more
  <2>1. \E h \in [Int -> Int] : Descends(h, Int, Ends, none, down, more)
    BY <1>1, <1>2, <1>3, <1>4, Descent
  <2> QED
    BY <2>1 DEF Descends
<1>7. \A x \in Int : x \div 10 \in Int
  BY <1>1
<1>8. f = F(f)
  <2>1. \A x \in Int : f[x] = F(f)[x]
    BY <1>5, <1>7
  <2> QED
    BY <2>1
<1>9. g = G(g)
  <2>1. \A x \in Int : g[x] = G(g)[x]
    BY <1>6, <1>7
  <2> QED
    BY <2>1
<1>10. Stripped = F(Stripped) /\ TrailingZeros = G(TrailingZeros)
  BY <1>8, <1>9 DEF Stripped, TrailingZeros
<1> DEFINE Typed == \A x \in Int : Stripped[x] \in Int /\ TrailingZeros[x] \in Int
<1>11. \A x \in Int :
          /\ Stripped[x] = IF x # 0 /\ x % 10 = 0 THEN Stripped[x \div 10] ELSE x
          /\ TrailingZeros[x] = IF x # 0 /\ x % 10 = 0 THEN 1 + TrailingZeros[x \div 10] ELSE 0
  <2>1. ASSUME NEW x \in Int PROVE Stripped[x] = F(Stripped)[x] /\ TrailingZeros[x] = G(TrailingZeros)[x]
    BY <1>10
  <2> QED
    BY <2>1
<1>12. Typed
  <2> DEFINE Bad == {k \in Nat : \E x \in Int : size[x] = k
                        /\ ~(Stripped[x] \in Int /\ TrailingZeros[x] \in Int)}
  <2>1. SUFFICES ASSUME Bad # {} PROVE FALSE
    <3>1. ASSUME NEW x \in Int, ~(Stripped[x] \in Int /\ TrailingZeros[x] \in Int) PROVE size[x] \in Bad
      BY <1>1, <3>1
    <3> QED
      BY <3>1
  <2>2. PICK k \in Bad : \A y \in Bad : k <= y
    <3>1. Bad \in SUBSET Nat
      OBVIOUS
    <3> HIDE DEF Bad
    <3> QED
      BY <2>1, <3>1, NatLeast
  <2>3. PICK x \in Int : size[x] = k /\ ~(Stripped[x] \in Int /\ TrailingZeros[x] \in Int)
    BY <2>2
  <2>4. x # 0 /\ x % 10 = 0
    BY <1>11, <2>3
  <2>5. PICK q \in Int, j \in Nat : q = x \div 10 /\ j = size[q] /\ j < k
    <3>1. PICK q \in Int : q = x \div 10 /\ q = down[x]
      BY <1>7
    <3>2. size[q] < k
      BY <1>2, <2>3, <2>4, <3>1
    <3>3. size[q] \in Nat
      BY <1>1
    <3> QED
      BY <3>1, <3>2, <3>3
  <2>6. j \notin Bad
    <3>1. k \in Nat /\ ~(k <= j)
      BY <2>2, <2>5
    <3> HIDE DEF Bad
    <3> QED
      BY <2>2, <3>1
  <2>7. Stripped[q] \in Int /\ TrailingZeros[q] \in Int
    BY <2>5, <2>6
  <2>8. Stripped[x] = Stripped[q] /\ TrailingZeros[x] = 1 + TrailingZeros[q]
    BY <1>11, <2>4, <2>5
  <2> QED
    BY <2>3, <2>7, <2>8
<1>13. ASSUME n # 0
       PROVE  Stripped[10 * n] = Stripped[n] /\ TrailingZeros[10 * n] = 1 + TrailingZeros[n]
  <2>1. PICK x \in Int : x = 10 * n
    OBVIOUS
  <2>2. x # 0 /\ x % 10 = 0 /\ x \div 10 = n
    BY <1>13, <2>1
  <2> QED
    BY <1>11, <2>1, <2>2
<1> QED
  BY <1>12, <1>13

LEMMA DecimalTimes ==
    ASSUME NEW n \in Int, NEW e \in Int
    PROVE  Decimal(10 * n, e) = Decimal(n, e + 1)
<1>1. CASE n = 0
  BY <1>1 DEF Decimal
<1>2. CASE n # 0
  <2>1. PICK x \in Int : x = 10 * n /\ x # 0
    BY <1>2
  <2>2. PICK z \in Int : z = TrailingZeros[n]
    BY StripSteps
  <2>3. Stripped[x] = Stripped[n] /\ TrailingZeros[x] = 1 + z
    BY <1>2, <2>1, <2>2, StripSteps
  <2>4. e + (1 + z) = (e + 1) + z
    OBVIOUS
  <2> QED
    BY <1>2, <2>1, <2>2, <2>3, <2>4 DEF Decimal
<1> QED
  BY <1>1, <1>2

\* c stands in t between a and b, of m and n elements, and first there.
Split(t, a, c, b, m, n) ==
    /\ m \in Nat /\ n \in Nat /\ m = Len(a) /\ n = Len(b) /\ Len(t) = m + 1 + n
    /\ \A k \in 1 .. m : t[k] = a[k] /\ a[k] # c
    /\ t[m + 1] = c
    /\ \A k \in 1 .. n : t[m + 1 + k] = b[k]

Found(t, a, c, b, m) == Position(t, c) = m + 1 /\ Before(t, c) = a /\ After(t, c) = b

LEMMA FirstFound ==
    ASSUME NEW S, NEW t \in Seq(S), NEW a \in Seq(S), NEW b \in Seq(S), NEW c,
           NEW m, NEW n, Split(t, a, c, b, m, n)
    PROVE  Found(t, a, c, b, m)
<1> DEFINE I == {i \in 1 .. Len(t) : t[i] = c}
<1>1. Position(t, c) = IF I # {} THEN Min(I) ELSE 0
  BY DEF Position, SelectInSeq
<1>2. /\ m \in Nat /\ n \in Nat /\ m = Len(a) /\ n = Len(b) /\ Len(t) = m + 1 + n
      /\ \A k \in 1 .. m : t[k] = a[k] /\ a[k] # c
      /\ t[m + 1] = c
      /\ \A k \in 1 .. n : t[m + 1 + k] = b[k]
  BY DEF Split
<1>3. m + 1 \in I /\ \A i \in I : m + 1 <= i
  <2>1. m + 1 \in 1 .. Len(t)
    BY <1>2
  <2>2. ASSUME NEW i \in I PROVE m + 1 <= i
    <3>1. i \in 1 .. Len(t) /\ i \notin 1 .. m
      BY <1>2
    <3> QED
      BY <1>2, <3>1
  <2> QED
    BY <1>2, <2>1, <2>2
<1>4. Position(t, c) = m + 1
  <2>1. \A x \in I : x \in Int
    OBVIOUS
  <2> HIDE DEF I
  <2>2. \A x \in I : (\A y \in I : x <= y) => x = m + 1
    BY <1>2, <1>3, <2>1
  <2>3. Min(I) = m + 1
    BY <1>3, <2>2 DEF Min
  <2> QED
    BY <1>1, <1>3, <2>3
<1>5. m + 1 # 0 /\ (m + 1) - 1 = m /\ (m + 1) + 1 = m + 2
  BY <1>2
<1>6. Before(t, c) = SubSeq(t, 1, m) /\ After(t, c) = SubSeq(t, m + 2, Len(t))
  BY <1>4, <1>5 DEF Before, After
<1>7. SubSeq(t, 1, m) = a
  <2>1. PICK u : u = SubSeq(t, 1, m)
    OBVIOUS
  <2>2. IsPart(u, t, 1, m, m)
    BY <1>2, <2>1 DEF IsPart
  <2>3. u \in Seq(S) /\ Len(u) = m /\ \A k \in 1 .. m : u[k] = t[1 + k - 1]
    <3>1. PartIs(S, u, t, 1, m)
      BY <2>2, PartFacts
    <3> QED
      BY <3>1 DEF PartIs
  <2>4. \A k \in 1 .. m : u[k] = a[k]
    <3>1. \A k \in Int : 1 + k - 1 = k
      OBVIOUS
    <3> QED
      BY <1>2, <2>3, <3>1
  <2> QED
    BY <1>2, <2>1, <2>3, <2>4, SameSequence
<1>8. SubSeq(t, m + 2, Len(t)) = b
  <2>1. PICK x \in Nat, l \in Nat : x = m + 2 /\ l = Len(t)
    BY <1>2
  <2>2. PICK u : u = SubSeq(t, x, l)
    OBVIOUS
  <2>3. IsPart(u, t, x, l, n)
    BY <1>2, <2>1, <2>2 DEF IsPart
  <2>4. u \in Seq(S) /\ Len(u) = n /\ \A k \in 1 .. n : u[k] = t[x + k - 1]
    <3>1. PartIs(S, u, t, x, n)
      BY <2>3, PartFacts
    <3> QED
      BY <3>1 DEF PartIs
  <2>5. ASSUME NEW k \in 1 .. n PROVE u[k] = b[k]
    <3>1. PICK i \in Int : i = m + 1 + k /\ x + k - 1 = i
      BY <1>2, <2>1
    <3>2. u[k] = t[i] /\ t[i] = b[k]
      BY <1>2, <2>4, <3>1
    <3> QED
      BY <3>2
  <2>6. u = b
    <3>1. u \in Seq(S) /\ Len(u) = Len(b)
      BY <1>2, <2>4
    <3>2. \A k \in 1 .. Len(u) : u[k] = b[k]
      BY <2>4, <2>5
    <3> QED
      BY <3>1, <3>2, SameSequence
  <2> QED
    BY <2>1, <2>2, <2>6
<1> QED
  BY <1>4, <1>6, <1>7, <1>8 DEF Found

LEMMA NotFound ==
    ASSUME NEW t, NEW c, \A k \in 1 .. Len(t) : t[k] # c
    PROVE  Position(t, c) = 0 /\ Before(t, c) = t /\ After(t, c) = <<>>
<1> DEFINE I == {i \in 1 .. Len(t) : t[i] = c}
<1>1. Position(t, c) = IF I # {} THEN Min(I) ELSE 0
  BY DEF Position, SelectInSeq
<1>2. I = {}
  OBVIOUS
<1>3. Position(t, c) = 0
  BY <1>1, <1>2
<1> QED
  BY <1>3 DEF Before, After

\* Zeros in front of a number change nothing, zeros behind it multiply.
LEMMA LeadingZeros ==
    ASSUME NEW d \in Seq(DigitChars), NEW u \in Seq(DigitChars), NEW m \in Nat, NEW n \in Nat,
           n = Len(d), Len(u) = m + n, \A k \in 1 .. m : u[k] = "0",
           \A k \in 1 .. n : u[m + k] = d[k]
    PROVE  NatOf(u) = NatOf(d)
<1>1. PICK v : Digitwise(v, d, n)
  BY NatOfSteps
<1>2. PICK h \in Nat : h = m + n
  OBVIOUS
<1>3. PICK w : Digitwise(w, u, h)
  BY <1>2, NatOfSteps
<1>4. DigitValue("0") = 0
  <2>1. Digits[0 + 1] = "0"
    BY DEF Digits
  <2>2. DigitValue(Digits[0 + 1]) = 0
    BY DigitFacts
  <2> QED
    BY <2>1, <2>2
<1>5. w[m] = 0
  <2> DEFINE T == {k \in 0 .. m : w[k] = 0}
  <2>1. 0 \in T
    BY <1>3 DEF Digitwise
  <2>2. ASSUME NEW k \in 1 .. m, k - 1 \in T PROVE k \in T
    <3>1. k \in 1 .. h
      BY <1>2
    <3>2. w[k] = 10 * w[k - 1] + DigitValue(u[k])
      BY <1>3, <3>1 DEF Digitwise
    <3>3. w[k - 1] = 0 /\ DigitValue(u[k]) = 0
      BY <1>4, <2>2
    <3> QED
      BY <3>2, <3>3
  <2> HIDE DEF T
  <2>3. 0 .. m \subseteq T
    BY <2>1, <2>2, UpTo
  <2> QED
    BY <2>3 DEF T
<1>6. w[h] = v[n]
  <2> DEFINE T == {k \in 0 .. n : w[m + k] = v[k]}
  <2>1. 0 \in T
    <3>1. m + 0 = m
      OBVIOUS
    <3> QED
      BY <1>1, <1>5, <3>1 DEF Digitwise
  <2>2. ASSUME NEW k \in 1 .. n, k - 1 \in T PROVE k \in T
    <3>1. PICK j \in Nat : j = m + k
      OBVIOUS
    <3>2. j \in 1 .. h /\ j - 1 = m + (k - 1)
      BY <1>2, <3>1
    <3>3. w[j] = 10 * w[j - 1] + DigitValue(u[j])
      BY <1>3, <3>2 DEF Digitwise
    <3>4. v[k] = 10 * v[k - 1] + DigitValue(d[k])
      BY <1>1 DEF Digitwise
    <3>5. w[j - 1] = v[k - 1] /\ u[j] = d[k]
      BY <2>2, <3>1, <3>2
    <3> QED
      BY <3>1, <3>3, <3>4, <3>5
  <2> HIDE DEF T
  <2>3. 0 .. n \subseteq T
    BY <2>1, <2>2, UpTo
  <2>4. n \in 0 .. n
    OBVIOUS
  <2> QED
    BY <1>2, <2>3, <2>4 DEF T
<1> QED
  BY <1>1, <1>3, <1>6 DEF Digitwise

\* t is a, of m elements, and then b, of n.
Joins(S, t, a, b, m, n) ==
    /\ t \in Seq(S) /\ m \in Nat /\ n \in Nat /\ m = Len(a) /\ n = Len(b) /\ Len(t) = m + n
    /\ \A k \in 1 .. m : t[k] = a[k]
    /\ \A k \in 1 .. n : t[m + k] = b[k]

LEMMA JoinFacts ==
    ASSUME NEW S, NEW a \in Seq(S), NEW b \in Seq(S), NEW t, Joined(a, b, t),
           NEW m, m = Len(a), NEW n, n = Len(b)
    PROVE  Joins(S, t, a, b, m, n)
<1>1. t = a \o b
  BY DEF Joined
<1>2. t \in Seq(S) /\ Len(t) = Len(a) + Len(b)
  BY <1>1
<1>3. \A k \in 1 .. Len(a) : t[k] = a[k]
  BY <1>1
<1>4. \A k \in 1 .. Len(b) : t[Len(a) + k] = b[k]
  BY <1>1
<1>5. m \in Nat /\ n \in Nat
  OBVIOUS
<1> QED
  BY <1>2, <1>3, <1>4, <1>5 DEF Joins

\* A join is known by its elements.
LEMMA JoinIs ==
    ASSUME NEW S, NEW a \in Seq(S), NEW b \in Seq(S), NEW t,
           NEW m, NEW n, Joins(S, t, a, b, m, n)
    PROVE  t = a \o b
<1>1. PICK u : Joined(a, b, u)
  BY DEF Joined
<1>2. Joins(S, u, a, b, m, n)
  <2>1. m = Len(a) /\ n = Len(b)
    BY DEF Joins
  <2> QED
    BY <1>1, <2>1, JoinFacts
<1>3. /\ t \in Seq(S) /\ u \in Seq(S) /\ Len(t) = m + n /\ Len(u) = m + n
      /\ m \in Nat /\ n \in Nat
      /\ \A k \in 1 .. m : t[k] = u[k]
      /\ \A k \in 1 .. n : t[m + k] = u[m + k]
  BY <1>2 DEF Joins
<1>4. ASSUME NEW k \in 1 .. m + n PROVE t[k] = u[k]
  <2>1. CASE k \in 1 .. m
    BY <1>3, <2>1
  <2>2. CASE k \notin 1 .. m
    <3>1. PICK i \in Int : i = k - m
      BY <1>3
    <3>2. i \in 1 .. n /\ m + i = k
      BY <1>3, <2>2, <3>1
    <3> QED
      BY <1>3, <3>2
  <2> QED
    BY <2>1, <2>2
<1>5. t = u
  BY <1>3, <1>4, SameSequence
<1> QED
  BY <1>1, <1>5 DEF Joined

LEMMA NoElement ==
    ASSUME NEW S, NEW s \in Seq(S), Len(s) = 0
    PROVE  s = <<>>
  OBVIOUS

LEMMA OneElement ==
    ASSUME NEW S, NEW c \in S, NEW s, s = <<c>>
    PROVE  s \in Seq(S) /\ Len(s) = 1 /\ s[1] = c
  OBVIOUS

ZeroBehind == DigitValue("0") = 0 /\ "0" \in DigitChars

LEMMA Zero == ZeroBehind
<1>1. Digits[0 + 1] = "0"
  BY DEF Digits
<1>2. DigitValue(Digits[0 + 1]) = 0 /\ Digits[0 + 1] \in DigitChars
  BY DigitFacts
<1> QED
  BY <1>1, <1>2 DEF ZeroBehind

LEMMA TwoElements ==
    ASSUME NEW S, NEW c \in S, NEW u \in S, NEW s, s = <<c, u>>
    PROVE  s = <<c>> \o <<u>>
<1>1. PICK x, y : x = <<c>> /\ y = <<u>>
  OBVIOUS
<1>2. /\ x \in Seq(S) /\ Len(x) = 1 /\ x[1] = c
      /\ y \in Seq(S) /\ Len(y) = 1 /\ y[1] = u
  BY <1>1, OneElement
<1>3. s \in Seq(S) /\ Len(s) = 2 /\ s[1] = c /\ s[2] = u
  OBVIOUS
<1>4. Joins(S, s, x, y, 1, 1)
  <2>1. 1 + 1 = 2 /\ 1 \in Nat /\ \A k \in 1 .. 1 : k = 1
    OBVIOUS
  <2> QED
    BY <1>2, <1>3, <2>1 DEF Joins
<1> QED
  BY <1>1, <1>2, <1>4, JoinIs

Regrouping(s, a, c, b) == s \o ((a \o c) \o b) = ((s \o a) \o c) \o b

LEMMA Associated ==
    ASSUME NEW S, NEW s \in Seq(S), NEW a \in Seq(S), NEW b \in Seq(S), NEW x, Joined(s, a, x),
           NEW y, Joined(a, b, y), NEW t, Joined(x, b, t)
    PROVE  Joined(s, y, t)
<1>1. x = s \o a /\ y = a \o b /\ t = x \o b
  BY DEF Joined
<1>2. s \in Seq(S) /\ a \in Seq(S) /\ b \in Seq(S)
  OBVIOUS
<1>3. (s \o a) \o b = s \o (a \o b)
  BY ONLY <1>2, ConcatAssociative, SMTT(30)
<1>4. t = s \o y
  BY ONLY <1>1, <1>3, Zenon
<1> QED
  BY <1>4 DEF Joined

LEMMA Regrouped ==
    ASSUME NEW S, NEW s \in Seq(S), NEW a \in Seq(S), NEW c \in Seq(S), NEW b \in Seq(S)
    PROVE  Regrouping(s, a, c, b)
<1>1. PICK x, y, u : Joined(a, c, x) /\ Joined(x, b, y) /\ Joined(s, a, u)
  BY DEF Joined
<1>2. PICK v, w : Joined(u, c, v) /\ Joined(v, b, w)
  BY DEF Joined
<1>3. x \in Seq(S) /\ u \in Seq(S) /\ v \in Seq(S)
  BY <1>1, <1>2, Concatenated DEF JoinedIs
<1>4. Joined(s, x, v)
  BY <1>1, <1>2, Associated
<1>5. Joined(s, y, w)
  BY <1>1, <1>2, <1>3, <1>4, Associated
<1>6. y = (a \o c) \o b /\ w = ((s \o a) \o c) \o b /\ w = s \o y
  BY <1>1, <1>2, <1>5, Zenon DEF Joined
<1> QED
  BY ONLY <1>6, Zenon DEF Regrouping

LEMMA ZerosAre ==
    ASSUME NEW n \in Nat, NEW z, z = Zeros(n)
    PROVE  z \in Seq(DigitChars) /\ Len(z) = n /\ \A k \in 1 .. n : z[k] = "0"
<1>1. "0" \in DigitChars
  BY Zero DEF ZeroBehind
<1>2. z = [k \in 1 .. n |-> "0"]
  BY DEF Zeros
<1>3. \A k \in 1 .. n : z[k] = "0"
  BY <1>2
<1>4. z \in [1 .. n -> DigitChars]
  BY <1>1, <1>2
<1>5. Len(z) = n
  BY <1>4
<1> QED
  BY <1>3, <1>4, <1>5

\* One power of ten less for each zero behind a number.
LEMMA TrailingZero ==
    ASSUME NEW d \in Seq(DigitChars), NEW k \in Nat, NEW u, Joined(d, Zeros(k), u),
           NEW w, Joined(d, Zeros(k + 1), w)
    PROVE  NatOf(u) \in Nat /\ NatOf(w) = 10 * NatOf(u)
<1>1. PICK m \in Nat : m = Len(d)
  OBVIOUS
<1>2. PICK y, z : y = Zeros(k) /\ z = Zeros(k + 1)
  OBVIOUS
<1>3. k + 1 \in Nat
  OBVIOUS
<1>4. /\ y \in Seq(DigitChars) /\ Len(y) = k /\ \A i \in 1 .. k : y[i] = "0"
      /\ z \in Seq(DigitChars) /\ Len(z) = k + 1 /\ \A i \in 1 .. k + 1 : z[i] = "0"
  BY <1>2, <1>3, ZerosAre
<1>5. Joins(DigitChars, u, d, y, m, k) /\ Joins(DigitChars, w, d, z, m, k + 1)
  BY <1>1, <1>2, <1>4, JoinFacts
<1>6. PICK h \in Nat : h = m + k
  OBVIOUS
<1>7. /\ u \in Seq(DigitChars) /\ w \in Seq(DigitChars) /\ Len(u) = h /\ Len(w) = h + 1
      /\ \A i \in 1 .. m : u[i] = w[i]
      /\ \A i \in 1 .. k : u[m + i] = w[m + i]
      /\ w[h + 1] = "0"
  <2>1. k + 1 \in 1 .. k + 1 /\ m + (k + 1) = h + 1 /\ \A i \in 1 .. k : i \in 1 .. k + 1
    BY <1>6
  <2> QED
    BY <1>4, <1>5, <1>6, <2>1 DEF Joins
<1>8. PICK x : Appended(u, "0", x)
  BY DEF Appended
<1>9. /\ x \in Seq(DigitChars) /\ Len(x) = Len(u) + 1
      /\ \A i \in 1 .. Len(x) : x[i] = IF i <= Len(u) THEN u[i] ELSE "0"
  BY <1>7, <1>8, Zero, AppendFacts DEF ZeroBehind
<1>10. ASSUME NEW i \in 1 .. h + 1 PROVE x[i] = w[i]
  <2>1. CASE i \in 1 .. m
    BY <1>6, <1>7, <1>9, <2>1
  <2>2. CASE i = h + 1
    BY <1>6, <1>7, <1>9, <2>2
  <2>3. CASE i \notin 1 .. m /\ i # h + 1
    <3>1. PICK j \in Int : j = i - m
      OBVIOUS
    <3>2. j \in 1 .. k /\ m + j = i /\ i <= h
      BY <1>6, <2>3, <3>1
    <3>3. u[m + j] = w[m + j]
      BY <1>7, <3>2
    <3> QED
      BY <1>6, <1>7, <1>9, <3>2, <3>3
  <2> QED
    BY <2>1, <2>2, <2>3
<1>11. x = w
  <2>1. Len(x) = h + 1
    BY <1>7, <1>9
  <2> QED
    BY <1>7, <1>9, <1>10, <2>1, SameSequence
<1>12. NatOf(u) \in Nat /\ NatOf(x) = 10 * NatOf(u) + DigitValue("0")
  BY <1>7, <1>8, Zero, NatOfAppend DEF ZeroBehind
<1> QED
  BY <1>11, <1>12, Zero DEF ZeroBehind

\* A number with e zeros behind it, and the number itself with a power of ten.
SameDecimals(x, y, i, j) == Decimal(x, i) = Decimal(y, j) /\ Decimal(-x, i) = Decimal(-y, j)

LEMMA TrailingZerosDenote ==
    ASSUME NEW d \in Seq(DigitChars), NEW e \in Nat, NEW u, Joined(d, Zeros(e), u)
    PROVE  SameDecimals(NatOf(u), NatOf(d), 0, e)
<1> DEFINE n(k) == NatOf(d \o Zeros(k))
           T == {k \in 0 .. e : SameDecimals(n(k), n(0), e - k, e)}
<1>1. ASSUME NEW k \in Nat PROVE n(k) \in Nat /\ n(k + 1) = 10 * n(k)
  <2>1. PICK v, w : Joined(d, Zeros(k), v) /\ Joined(d, Zeros(k + 1), w)
    BY DEF Joined
  <2>2. NatOf(v) \in Nat /\ NatOf(w) = 10 * NatOf(v)
    BY <2>1, TrailingZero
  <2> QED
    BY <2>1, <2>2 DEF Joined
<1>2. n(0) = NatOf(d)
  <2>1. PICK z : z = Zeros(0)
    OBVIOUS
  <2>2. z \in Seq(DigitChars) /\ Len(z) = 0
    BY <2>1, ZerosAre
  <2>3. PICK v : Joined(d, z, v)
    BY DEF Joined
  <2>4. v = d
    BY <2>2, <2>3 DEF Joined
  <2> QED
    BY <2>1, <2>3, <2>4 DEF Joined
<1>3. 0 \in T
  <2>1. e - 0 = e /\ 0 \in 0 .. e
    OBVIOUS
  <2> HIDE DEF n
  <2> QED
    BY <2>1 DEF SameDecimals
<1>4. ASSUME NEW k \in 1 .. e, k - 1 \in T PROVE k \in T
  <2>1. PICK j \in Nat, i \in Int : j = k - 1 /\ i = e - k
    OBVIOUS
  <2>2. j + 1 = k /\ e - (k - 1) = i + 1
    BY <2>1
  <2>3. PICK x \in Nat : x = n(j)
    BY <1>1
  <2>4. n(k) = 10 * x
    BY <1>1, <2>1, <2>2, <2>3
  <2>5. SameDecimals(x, n(0), i + 1, e)
    <3> HIDE DEF n
    <3> QED
      BY <1>4, <2>1, <2>2, <2>3
  <2>6. Decimal(10 * x, i) = Decimal(x, i + 1) /\ Decimal(10 * (-x), i) = Decimal(-x, i + 1)
    <3>1. -x \in Int /\ x \in Int
      OBVIOUS
    <3> QED
      BY <3>1, DecimalTimes
  <2>7. 10 * (-x) = -(10 * x)
    OBVIOUS
  <2>8. SameDecimals(10 * x, n(0), i, e)
    <3> HIDE DEF n
    <3> QED
      BY <2>5, <2>6, <2>7 DEF SameDecimals
  <2> HIDE DEF n
  <2> QED
    BY <2>1, <2>4, <2>8
<1> HIDE DEF n, T
<1>5. 0 .. e \subseteq T
  BY <1>3, <1>4, UpTo
<1>6. SameDecimals(n(e), n(0), e - e, e)
  BY <1>5 DEF T
<1>7. e - e = 0
  OBVIOUS
<1>8. n(e) = NatOf(u)
  BY DEF n, Joined
<1> QED
  BY <1>2, <1>6, <1>7, <1>8
-----------------------------------------------------------------------------
\* Printed values: what a text denotes

\* A sign, if neg, and digits d.
Numeric(t, neg, d) ==
    /\ t \in Seq(DigitChars \cup {"-"}) /\ d \in Seq(DigitChars)
    /\ Unsigned(t) = d
    /\ neg <=> t # <<>> /\ t[1] = "-"

SignedNumber(neg, d) == IF neg THEN -NatOf(d) ELSE NatOf(d)

LEMMA WithoutSign ==
    ASSUME NEW d \in Seq(DigitChars)
    PROVE  Numeric(d, FALSE, d)
<1>1. ASSUME d # <<>> PROVE d[1] \in DigitChars
  BY <1>1
<1>2. ~(d # <<>> /\ (d[1] = "-" \/ d[1] = "+"))
  BY <1>1, DigitFacts
<1>3. Unsigned(d) = d
  BY <1>2 DEF Unsigned, HasSign
<1>4. d \in Seq(DigitChars \cup {"-"})
  OBVIOUS
<1> QED
  BY <1>2, <1>3, <1>4 DEF Numeric

LEMMA WithSign ==
    ASSUME NEW d \in Seq(DigitChars), NEW t, Joined(<<"-">>, d, t)
    PROVE  Numeric(t, TRUE, d)
<1>1. PICK s : s = <<"-">>
  OBVIOUS
<1>2. s \in Seq(DigitChars \cup {"-"}) /\ Len(s) = 1 /\ s[1] = "-"
  BY <1>1, OneElement
<1>3. PICK n \in Nat : n = Len(d)
  OBVIOUS
<1>4. d \in Seq(DigitChars \cup {"-"})
  OBVIOUS
<1>5. Joins(DigitChars \cup {"-"}, t, s, d, 1, n)
  BY <1>1, <1>2, <1>3, <1>4, JoinFacts
<1>6. t \in Seq(DigitChars \cup {"-"}) /\ Len(t) = n + 1 /\ t[1] = "-"
      /\ \A k \in 1 .. n : t[1 + k] = d[k]
  <2>1. 1 \in 1 .. 1 /\ 1 + n = n + 1
    OBVIOUS
  <2> QED
    BY <1>2, <1>5, <2>1 DEF Joins
<1>7. t # <<>>
  <2>1. Len(t) # 0
    BY <1>6
  <2> QED
    BY <2>1
<1>8. Tail(t) = d
  <2>1. PICK u : u = Tail(t)
    OBVIOUS
  <2>2. u \in Seq(DigitChars \cup {"-"}) /\ Len(u) = n /\ \A k \in 1 .. n : u[k] = t[k + 1]
    BY <1>6, <1>7, <2>1
  <2>3. \A k \in 1 .. n : u[k] = d[k]
    <3>1. \A k \in 1 .. n : k + 1 = 1 + k
      OBVIOUS
    <3> QED
      BY <1>6, <2>2, <3>1
  <2> QED
    BY <1>3, <1>4, <2>1, <2>2, <2>3, SameSequence
<1>9. HasSign(t)
  BY <1>6, <1>7 DEF HasSign
<1> QED
  BY <1>6, <1>7, <1>8, <1>9 DEF Numeric, Unsigned

\* Neither point nor exponent.
LEMMA WholeDenotes ==
    ASSUME NEW t, NEW neg, NEW d, Numeric(t, neg, d)
    PROVE  Denoted(t) = Decimal(SignedNumber(neg, d), 0)
<1>1. t \in Seq(DigitChars \cup {"-"}) /\ d \in Seq(DigitChars)
  BY DEF Numeric
<1>2. \A k \in 1 .. Len(t) : t[k] # "e" /\ t[k] # "."
  <2>1. \A k \in 1 .. Len(t) : t[k] \in DigitChars \cup {"-"}
    BY <1>1
  <2> QED
    BY <2>1, DigitFacts
<1>3. Position(t, "e") = 0 /\ Mantissa(t) = t
  BY <1>2, NotFound DEF Mantissa
<1>4. Before(t, ".") = t /\ After(t, ".") = <<>>
  BY <1>2, NotFound
<1>5. d \o <<>> = d /\ Len(<<>>) = 0
  BY <1>1
<1>6. Unsigned(t) = d
  BY DEF Numeric
<1>7. (IF t # <<>> /\ t[1] = "-" THEN -NatOf(d) ELSE NatOf(d)) = SignedNumber(neg, d)
  BY DEF Numeric, SignedNumber
<1>8. 0 - 0 = 0
  OBVIOUS
<1> QED
  BY <1>3, <1>4, <1>5, <1>6, <1>7, <1>8 DEF Denoted

\* A point behind int, n digits fraction behind it, and what the text has for exponent.
ExponentOf(t) == IF Position(t, "e") = 0 THEN 0 ELSE ScanInt(After(t, "e"))

LEMMA PointDenotes ==
    ASSUME NEW t, NEW int, NEW fraction \in Seq(DigitChars), NEW neg, NEW d,
           Numeric(int, neg, d), NEW S, NEW mantissa \in Seq(S), mantissa = Mantissa(t),
           int \in Seq(S), fraction \in Seq(S),
           NEW m, NEW n, Split(mantissa, int, ".", fraction, m, n),
           t # <<>>, t[1] = mantissa[1]
    PROVE  Denoted(t) = Decimal(SignedNumber(neg, d \o fraction), ExponentOf(t) - n)
<1>1. Before(mantissa, ".") = int /\ After(mantissa, ".") = fraction
  BY FirstFound DEF Found
<1>2. n = Len(fraction)
  BY DEF Split
<1>3. Unsigned(int) = d
  BY DEF Numeric
<1>4. t[1] = "-" <=> neg
  <2>1. /\ m \in Nat /\ m = Len(int) /\ mantissa[m + 1] = "."
        /\ \A k \in 1 .. m : mantissa[k] = int[k]
    BY DEF Split
  <2>2. int \in Seq(DigitChars \cup {"-"})
    BY DEF Numeric
  <2>3. CASE m = 0
    <3>1. int = <<>>
      <4>1. Len(int) = 0
        BY <2>1, <2>3
      <4> QED
        BY <2>2, <4>1, NoElement
    <3>2. m + 1 = 1
      BY <2>3
    <3>3. t[1] = "."
      BY <2>1, <3>2
    <3> QED
      BY <3>1, <3>3 DEF Numeric
  <2>4. CASE m # 0
    <3>1. int # <<>> /\ 1 \in 1 .. m
      BY <2>1, <2>2, <2>4
    <3>2. t[1] = int[1]
      BY <2>1, <3>1
    <3> QED
      BY <3>1, <3>2 DEF Numeric
  <2> QED
    BY <2>3, <2>4
<1> QED
  BY <1>1, <1>2, <1>3, <1>4 DEF Denoted, SignedNumber, ExponentOf
-----------------------------------------------------------------------------
\* Printed values: the texts of suns_snprintf_int_sf()

TextChars == DigitChars \cup {"-", ".", "e"}

LEMMA NoExponent ==
    ASSUME NEW t, NEW int \in Seq(DigitChars \cup {"-"}), NEW fraction \in Seq(DigitChars),
           NEW m, NEW n, Split(t, int, ".", fraction, m, n)
    PROVE  \A k \in 1 .. Len(t) : t[k] # "e"
<1>1. /\ m \in Nat /\ n \in Nat /\ m = Len(int) /\ n = Len(fraction) /\ Len(t) = m + 1 + n
      /\ \A k \in 1 .. m : t[k] = int[k]
      /\ t[m + 1] = "."
      /\ \A k \in 1 .. n : t[m + 1 + k] = fraction[k]
  BY DEF Split
<1>2. ASSUME NEW k \in 1 .. Len(t) PROVE t[k] # "e"
  <2>1. CASE k \in 1 .. m
    <3>1. t[k] \in DigitChars \cup {"-"}
      BY <1>1, <2>1
    <3> QED
      BY <3>1, DigitFacts
  <2>2. CASE k = m + 1
    BY <1>1, <2>2
  <2>3. CASE k \notin 1 .. m /\ k # m + 1
    <3>1. PICK i \in Int : i = k - (m + 1)
      <4>1. m \in Nat /\ k \in Int
        BY <1>1
      <4> QED
        BY <4>1
    <3>2. i \in 1 .. n /\ m + 1 + i = k
      BY <1>1, <2>3, <3>1
    <3>3. t[k] \in DigitChars
      BY <1>1, <3>2
    <3> QED
      BY <3>3, DigitFacts
  <2> QED
    BY <2>1, <2>2, <2>3
<1> QED
  BY <1>2

\* A text with a point in it and nothing behind the fraction.
DenotesFraction(t, x, n) == Denoted(t) = Decimal(x, -n)

LEMMA FixedDenotes ==
    ASSUME NEW t \in Seq(TextChars), NEW int, NEW fraction \in Seq(DigitChars),
           NEW neg, NEW d, Numeric(int, neg, d),
           NEW m, NEW n, Split(t, int, ".", fraction, m, n)
    PROVE  DenotesFraction(t, SignedNumber(neg, d \o fraction), n)
<1>1. /\ m \in Nat /\ n \in Nat /\ m = Len(int) /\ n = Len(fraction) /\ Len(t) = m + 1 + n
      /\ \A k \in 1 .. m : t[k] = int[k]
      /\ t[m + 1] = "."
      /\ \A k \in 1 .. n : t[m + 1 + k] = fraction[k]
  BY DEF Split
<1>2. int \in Seq(DigitChars \cup {"-"})
  BY DEF Numeric
<1>3. \A k \in 1 .. Len(t) : t[k] # "e"
  BY <1>2, NoExponent
<1>4. Position(t, "e") = 0 /\ Mantissa(t) = t
  BY <1>3, NotFound DEF Mantissa
<1>5. t # <<>>
  <2>1. Len(t) # 0
    BY <1>1
  <2> QED
    BY <2>1
<1>6. int \in Seq(TextChars) /\ fraction \in Seq(TextChars)
  BY <1>2 DEF TextChars
<1>7. Denoted(t) = Decimal(SignedNumber(neg, d \o fraction), ExponentOf(t) - n)
  BY <1>4, <1>5, <1>6, PointDenotes
<1>8. ExponentOf(t) - n = -n
  BY <1>1, <1>4 DEF ExponentOf
<1> QED
  BY <1>7, <1>8 DEF DenotesFraction

\* int, a point and a fraction.
LEMMA PointBetween ==
    ASSUME NEW int \in Seq(DigitChars \cup {"-"}), NEW fraction \in Seq(DigitChars),
           NEW t, t = int \o <<".">> \o fraction,
           NEW m, m = Len(int), NEW n, n = Len(fraction)
    PROVE  t \in Seq(TextChars) /\ Split(t, int, ".", fraction, m, n)
<1>1. PICK c : c = <<".">>
  OBVIOUS
<1>2. /\ int \in Seq(TextChars) /\ fraction \in Seq(TextChars) /\ c \in Seq(TextChars)
      /\ Len(c) = 1 /\ c[1] = "."
  BY <1>1, OneElement DEF TextChars
<1>3. m \in Nat /\ n \in Nat
  OBVIOUS
<1>4. PICK u : Joined(int, c, u)
  BY DEF Joined
<1>5. Joins(TextChars, u, int, c, m, 1)
  BY <1>2, <1>4, JoinFacts
<1>6. PICK h \in Nat : h = m + 1
  BY <1>3
<1>7. u \in Seq(TextChars) /\ Len(u) = h /\ \A k \in 1 .. m : u[k] = int[k]
  BY <1>5, <1>6 DEF Joins
<1>8. u[h] = "."
  <2>1. 1 \in 1 .. 1
    OBVIOUS
  <2> QED
    BY <1>2, <1>5, <1>6, <2>1 DEF Joins
<1>9. Joined(u, fraction, t)
  BY <1>1, <1>4 DEF Joined
<1>10. Joins(TextChars, t, u, fraction, h, n)
  BY <1>2, <1>7, <1>9, JoinFacts
<1>11. \A k \in 1 .. m : int[k] # "."
  <2>1. \A k \in 1 .. m : int[k] \in DigitChars \cup {"-"}
    OBVIOUS
  <2> QED
    BY <2>1, DigitFacts
<1>12. \A k \in 1 .. h : t[k] = u[k]
  BY <1>10 DEF Joins
<1>13. /\ \A k \in 1 .. m : t[k] = int[k]
       /\ t[m + 1] = "."
  <2>1. \A k \in 1 .. m : k \in 1 .. h
    BY <1>3, <1>6
  <2>2. h \in 1 .. h
    BY <1>3, <1>6
  <2> QED
    BY <1>6, <1>7, <1>8, <1>12, <2>1, <2>2
<1>14. \A k \in 1 .. n : t[m + 1 + k] = fraction[k]
  BY <1>6, <1>10 DEF Joins
<1> QED
  BY <1>3, <1>6, <1>10, <1>11, <1>13, <1>14 DEF Joins, Split

\* The fraction of a positive number: int, a point and as many digits as there are places.
Moved(t, d, places, int, fraction) ==
    /\ int \in Seq(DigitChars) /\ fraction \in Seq(DigitChars)
    /\ t = int \o <<".">> \o fraction
    /\ Len(fraction) = places
    /\ NatOf(int \o fraction) = NatOf(d)

LEMMA PointMovedIs ==
    ASSUME NEW d \in Seq(DigitChars), NEW places \in Nat \ {0},
           NEW t, t = PointMoved(d, places)
    PROVE  \E int, fraction : Moved(t, d, places, int, fraction)
<1>1. PICK l \in Nat : l = Len(d)
  OBVIOUS
<1>2. CASE places < l
  <2>1. PICK h \in Nat, g \in Nat : h = l - places /\ g = h + 1
    BY <1>2
  <2>2. PICK a, b : a = SubSeq(d, 1, h) /\ b = SubSeq(d, g, l)
    OBVIOUS
  <2>3. t = a \o <<".">> \o b
    BY <1>1, <1>2, <2>1, <2>2 DEF PointMoved
  <2>4. a \in Seq(DigitChars) /\ Len(a) = h /\ \A k \in 1 .. h : a[k] = d[k]
    <3>1. IsPart(a, d, 1, h, h)
      BY <1>1, <2>1, <2>2 DEF IsPart
    <3>2. PartIs(DigitChars, a, d, 1, h)
      BY <3>1, PartFacts
    <3>3. \A k \in Int : 1 + k - 1 = k
      OBVIOUS
    <3> QED
      BY <3>2, <3>3 DEF PartIs
  <2>5. b \in Seq(DigitChars) /\ Len(b) = places /\ \A k \in 1 .. places : b[k] = d[h + k]
    <3>1. IsPart(b, d, g, l, places)
      BY <1>1, <2>1, <2>2 DEF IsPart
    <3>2. PartIs(DigitChars, b, d, g, places)
      BY <3>1, PartFacts
    <3>3. \A k \in Int : g + k - 1 = h + k
      BY <2>1
    <3> QED
      BY <3>2, <3>3 DEF PartIs
  <2>6. Joins(DigitChars, d, a, b, h, places)
    <3>1. l = h + places
      BY <2>1
    <3> QED
      BY <1>1, <2>1, <2>4, <2>5, <3>1 DEF Joins
  <2>7. d = a \o b
    BY <2>4, <2>5, <2>6, JoinIs
  <2> QED
    BY <2>3, <2>4, <2>5, <2>7 DEF Moved
<1>3. CASE ~(places < l)
  <2>1. PICK z \in Nat : z = places - l
    BY <1>3
  <2>2. PICK a, y : a = <<"0">> /\ y = Zeros(z)
    OBVIOUS
  <2>3. a \in Seq(DigitChars) /\ Len(a) = 1 /\ a[1] = "0"
    BY <2>2, Zero, OneElement DEF ZeroBehind
  <2>4. y \in Seq(DigitChars) /\ Len(y) = z /\ \A k \in 1 .. z : y[k] = "0"
    BY <2>2, ZerosAre
  <2>5. PICK b : Joined(y, d, b)
    BY DEF Joined
  <2>6. Joins(DigitChars, b, y, d, z, l)
    BY <1>1, <2>4, <2>5, JoinFacts
  <2>7. b \in Seq(DigitChars) /\ Len(b) = places
    BY <1>1, <2>1, <2>6 DEF Joins
  <2>8. t = a \o <<".">> \o b
    <3>1. t = <<"0", ".">> \o y \o d
      BY <1>1, <1>3, <2>1, <2>2 DEF PointMoved
    <3>2. <<"0", ".">> = <<"0">> \o <<".">>
      OBVIOUS
    <3>3. PICK c : c = <<"0", ".">> /\ c \in Seq(TextChars)
      <4>1. "0" \in TextChars /\ "." \in TextChars
        BY Zero DEF ZeroBehind, TextChars
      <4>2. <<"0", ".">> \in Seq(TextChars)
        BY <4>1
      <4> QED
        BY <4>2, Zenon
    <3>4. y \in Seq(TextChars) /\ d \in Seq(TextChars)
      BY <2>4 DEF TextChars
    <3>5. (c \o y) \o d = c \o (y \o d)
      BY <3>3, <3>4, ConcatAssociative
    <3> QED
      BY <2>2, <2>5, <3>1, <3>2, <3>3, <3>5 DEF Joined
  <2>9. PICK u : Joined(a, b, u)
    BY DEF Joined
  <2>10. Joins(DigitChars, u, a, b, 1, places)
    BY <2>3, <2>7, <2>9, JoinFacts
  <2>11. PICK x \in Nat : x = 1 + z
    OBVIOUS
  <2>12. \A k \in 1 .. x : u[k] = "0"
    <3>1. u[1] = "0"
      BY <2>3, <2>10 DEF Joins
    <3>2. ASSUME NEW k \in 1 .. z PROVE u[1 + k] = "0"
      <4>1. k \in 1 .. places
        BY <1>1, <2>1
      <4>2. u[1 + k] = b[k]
        BY <2>10, <4>1 DEF Joins
      <4> QED
        BY <2>4, <2>6, <4>2 DEF Joins
    <3>3. ASSUME NEW k \in 1 .. x PROVE u[k] = "0"
      <4>1. PICK i \in Int : i = k - 1
        OBVIOUS
      <4>2. k = 1 \/ (i \in 1 .. z /\ 1 + i = k)
        BY <2>11, <4>1
      <4> QED
        BY <3>1, <3>2, <4>2
    <3> QED
      BY <3>3
  <2>13. ASSUME NEW k \in 1 .. l PROVE u[x + k] = d[k]
    <3>1. PICK i \in Int : i = z + k
      OBVIOUS
    <3>2. i \in 1 .. places /\ x + k = 1 + i
      BY <1>1, <1>3, <2>1, <2>11, <3>1
    <3>3. u[1 + i] = b[i]
      BY <2>10, <3>2 DEF Joins
    <3>4. b[i] = d[k]
      BY <2>6, <3>1 DEF Joins
    <3> QED
      BY <3>2, <3>3, <3>4
  <2>14. u \in Seq(DigitChars) /\ Len(u) = x + l
    BY <1>1, <1>3, <2>1, <2>10, <2>11 DEF Joins
  <2>15. NatOf(u) = NatOf(d)
    BY <1>1, <2>12, <2>13, <2>14, LeadingZeros
  <2> QED
    BY <2>3, <2>7, <2>8, <2>9, <2>15 DEF Moved, Joined
<1> QED
  BY <1>2, <1>3
\* What "%d" writes: a sign of negative numbers and digits.
SignAndDigits(n, b, d) ==
    /\ b \in Seq(DigitChars \cup {"-"}) /\ d \in Seq(DigitChars) /\ d # <<>>
    /\ n < 0 => Joined(<<"-">>, d, b)
    /\ ~(n < 0) => b = d
    /\ SignedNumber(n < 0, d) = n

LEMMA IntTextIs ==
    ASSUME NEW n \in Int, NEW b, b = IntText(n)
    PROVE  \E d : SignAndDigits(n, b, d)
<1>1. PICK m \in Nat : m = IF n < 0 THEN -n ELSE n
  <2>1. (IF n < 0 THEN -n ELSE n) \in Nat
    OBVIOUS
  <2> QED
    BY <2>1
<1>2. PICK d : d = NatText[m]
  OBVIOUS
<1>3. d \in Seq(DigitChars) /\ NatOf(d) = m /\ d # <<>>
  BY <1>2, NatTextStep, NatTextRead
<1>4. b \in Seq(DigitChars \cup {"-"})
  BY IntTextScanned DEF NumberText
<1>5. ASSUME n < 0 PROVE Joined(<<"-">>, d, b)
  BY <1>1, <1>2, <1>5 DEF IntText, Joined
<1>6. ASSUME ~(n < 0) PROVE b = d
  BY <1>1, <1>2, <1>6 DEF IntText
<1>7. SignedNumber(n < 0, d) = n
  BY <1>1, <1>3 DEF SignedNumber
<1> QED
  BY <1>3, <1>4, <1>5, <1>6, <1>7 DEF SignAndDigits

LEMMA IntTextNumeric ==
    ASSUME NEW n \in Int, NEW b, NEW d, SignAndDigits(n, b, d)
    PROVE  Numeric(b, n < 0, d)
<1>1. CASE n < 0
  <2>1. Numeric(b, TRUE, d)
    BY <1>1, WithSign DEF SignAndDigits
  <2> QED
    BY <1>1, <2>1
<1>2. CASE ~(n < 0)
  <2>1. Numeric(b, FALSE, d)
    BY <1>2, WithoutSign DEF SignAndDigits
  <2>2. (n < 0) = FALSE
    BY <1>2
  <2> QED
    BY <2>1, <2>2
<1> QED
  BY <1>1, <1>2

\* The first character is split from the others.
Headed(b, n, int, fraction, neg, d) ==
    /\ int = <<b[1]>> /\ fraction = Tail(b)
    /\ int \in Seq(DigitChars \cup {"-"}) /\ Len(int) = 1
    /\ fraction \in Seq(DigitChars) /\ Len(fraction) = Len(b) - 1
    /\ Len(b) \in Nat \ {0}
    /\ Numeric(int, neg, d) /\ SignedNumber(neg, d \o fraction) = n

LEMMA HeadOfIntText ==
    ASSUME NEW n \in Int, NEW b, b = IntText(n)
    PROVE  \E int, fraction, neg, d : Headed(b, n, int, fraction, neg, d)
<1>1. PICK d : SignAndDigits(n, b, d)
  BY IntTextIs
<1>2. /\ b \in Seq(DigitChars \cup {"-"}) /\ d \in Seq(DigitChars) /\ d # <<>>
      /\ SignedNumber(n < 0, d) = n
  BY <1>1 DEF SignAndDigits
<1>3. Numeric(b, n < 0, d)
  BY <1>1, IntTextNumeric
<1>4. b # <<>>
  BY IntTextScanned, <1>2 DEF NumberText
<1>5. PICK l \in Nat : l = Len(b) /\ l # 0
  BY <1>2, <1>4
<1>6. PICK int, fraction : int = <<b[1]>> /\ fraction = Tail(b)
  OBVIOUS
<1>7. b[1] \in DigitChars \cup {"-"}
  BY <1>2, <1>5
<1>8. int \in Seq(DigitChars \cup {"-"}) /\ Len(int) = 1 /\ int[1] = b[1]
  BY <1>6, <1>7, OneElement
<1>9. Len(fraction) = l - 1
  BY <1>2, <1>4, <1>5, <1>6
<1>10. CASE n < 0
  <2>1. b[1] = "-" /\ fraction = d
    <3>1. b[1] = "-"
      BY <1>3, <1>10 DEF Numeric
    <3>2. HasSign(b)
      BY <1>4, <3>1 DEF HasSign
    <3> QED
      BY <1>3, <1>6, <3>1, <3>2 DEF Numeric, Unsigned
  <2>2. <<>> \in Seq(DigitChars)
    OBVIOUS
  <2>3. int = <<"-">> \o <<>>
    <3>1. int = <<"-">>
      BY <1>6, <2>1
    <3>2. PICK s : s = <<"-">> /\ s \in Seq({"-"})
      BY OneElement
    <3>3. s \o <<>> = s
      BY <3>2
    <3> QED
      BY <3>1, <3>2, <3>3
  <2>4. Numeric(int, TRUE, <<>>)
    BY <2>2, <2>3, WithSign DEF Joined
  <2>5. <<>> \o fraction = d
    BY <1>2, <2>1
  <2>6. SignedNumber(TRUE, <<>> \o fraction) = n
    BY <1>2, <1>10, <2>5 DEF SignedNumber
  <2>7. fraction \in Seq(DigitChars)
    BY <1>2, <2>1
  <2> QED
    BY <1>5, <1>6, <1>8, <1>9, <2>4, <2>6, <2>7 DEF Headed
<1>11. CASE ~(n < 0)
  <2>1. b = d
    BY <1>1, <1>11 DEF SignAndDigits
  <2>2. fraction \in Seq(DigitChars) /\ int \in Seq(DigitChars) /\ \A k \in 1 .. l - 1 : fraction[k] = b[k + 1]
    <3>1. b \in Seq(DigitChars) /\ b[1] \in DigitChars
      BY <1>2, <1>5, <2>1
    <3>2. int \in Seq(DigitChars)
      BY <1>6, <3>1
    <3>3. fraction \in Seq(DigitChars) /\ \A k \in 1 .. l - 1 : fraction[k] = b[k + 1]
      BY <1>4, <1>5, <1>6, <3>1
    <3> QED
      BY <3>2, <3>3
  <2>3. Numeric(int, FALSE, int)
    BY <2>2, WithoutSign
  <2>4. PICK m \in Nat : m = l - 1
    BY <1>5
  <2>5. Joins(DigitChars, b, int, fraction, 1, m)
    <3>1. \A k \in 1 .. 1 : b[k] = int[k]
      BY <1>8
    <3>2. \A k \in 1 .. m : b[1 + k] = fraction[k]
      <4>1. \A k \in 1 .. m : 1 + k = k + 1
        OBVIOUS
      <4> QED
        BY <2>2, <2>4, <4>1
    <3>3. l = 1 + m
      BY <2>4
    <3> QED
      BY <1>2, <1>5, <1>8, <1>9, <2>1, <2>4, <3>1, <3>2, <3>3 DEF Joins
  <2>6. b = int \o fraction
    BY <2>2, <2>5, JoinIs
  <2>7. SignedNumber(FALSE, int \o fraction) = n
    BY <1>2, <1>11, <2>1, <2>6 DEF SignedNumber
  <2>8. Headed(b, n, int, fraction, FALSE, int)
    BY <1>5, <1>6, <1>8, <1>9, <2>2, <2>3, <2>7 DEF Headed
  <2> QED
    BY <2>8
<1> QED
  BY <1>10, <1>11

\* _suns_snprintf_int_sf_e(), where the exponent is written.
LEMMA ScientificDenotes ==
    ASSUME NEW n \in Int, NEW b, b = IntText(n), NEW e \in Int,
           NEW x, x = e + Len(b) - 1, x # 0,
           NEW stale, NEW t, t = Scientific(b, e, stale)
    PROVE  Denoted(t) = Decimal(n, e)
<1>1. PICK int, fraction, neg, d : Headed(b, n, int, fraction, neg, d)
  BY HeadOfIntText
<1>2. /\ int = <<b[1]>> /\ fraction = Tail(b)
      /\ int \in Seq(DigitChars \cup {"-"}) /\ Len(int) = 1
      /\ fraction \in Seq(DigitChars) /\ Len(fraction) = Len(b) - 1
      /\ Len(b) \in Nat \ {0}
      /\ Numeric(int, neg, d) /\ SignedNumber(neg, d \o fraction) = n
  BY <1>1 DEF Headed
<1>3. PICK l \in Nat : l = Len(b) - 1
  <2>1. PICK j \in Nat \ {0} : j = Len(b)
    BY <1>2, Zenon
  <2>2. j - 1 \in Nat
    OBVIOUS
  <2> QED
    BY <2>1, <2>2
<1>4. x \in Int /\ x = e + l
  BY <1>2, <1>3
<1>5. PICK y : y = IntText(x)
  OBVIOUS
<1>6. y \in Seq(DigitChars \cup {"-"}) /\ ScanInt(y) = x
  BY <1>4, <1>5, IntTextScanned DEF NumberText
<1>7. PICK mantissa : mantissa = int \o <<".">> \o fraction
  OBVIOUS
<1>8. mantissa \in Seq(TextChars) /\ Split(mantissa, int, ".", fraction, 1, l)
  BY <1>2, <1>3, <1>7, PointBetween
<1>9. PICK h \in Nat, k \in Nat : h = Len(mantissa) /\ k = Len(y)
  BY <1>6, <1>8
<1>10. h = 1 + 1 + l
  BY <1>8, <1>9 DEF Split
<1>11. PICK z, v : z = <<"e">> /\ v = z \o y
  OBVIOUS
<1>12. t = mantissa \o v
  <2>1. t = <<b[1], ".">> \o Tail(b) \o (<<"e">> \o IntText(x))
    BY Zenon DEF Scientific
  <2>2. <<b[1], ".">> = <<b[1]>> \o <<".">>
    <3>1. PICK c : c = b[1]
      OBVIOUS
    <3>2. c \in {c, "."} /\ "." \in {c, "."}
      OBVIOUS
    <3>3. <<c, ".">> = <<c>> \o <<".">>
      BY <3>2, TwoElements
    <3> QED
      BY <3>1, <3>3
  <2> QED
    BY <1>2, <1>5, <1>7, <1>11, <2>1, <2>2
<1>13. z \in Seq(TextChars) /\ Len(z) = 1 /\ z[1] = "e"
  BY <1>11, OneElement DEF TextChars
<1>14. y \in Seq(TextChars)
  BY <1>6 DEF TextChars
<1>15. Joins(TextChars, v, z, y, 1, k)
  BY <1>9, <1>11, <1>13, <1>14, JoinFacts DEF Joined
<1>16. PICK g \in Nat : g = 1 + k
  OBVIOUS
<1>17. v \in Seq(TextChars) /\ Len(v) = g /\ v[1] = "e" /\ \A i \in 1 .. k : v[1 + i] = y[i]
  <2>1. 1 \in 1 .. 1
    OBVIOUS
  <2> QED
    BY <1>13, <1>15, <1>16, <2>1 DEF Joins
<1>18. Joins(TextChars, t, mantissa, v, h, g)
  BY <1>8, <1>9, <1>12, <1>17, JoinFacts DEF Joined
<1>19. t \in Seq(TextChars) /\ Len(t) = h + g /\ \A i \in 1 .. h : t[i] = mantissa[i]
  BY <1>18 DEF Joins
<1>20. t[h + 1] = "e" /\ \A i \in 1 .. k : t[h + 1 + i] = y[i]
  <2>1. 1 \in 1 .. g /\ \A i \in 1 .. k : 1 + i \in 1 .. g /\ h + (1 + i) = h + 1 + i
    BY <1>16
  <2>2. \A i \in 1 .. g : t[h + i] = v[i]
    BY <1>18 DEF Joins
  <2> QED
    BY <1>17, <2>1, <2>2
<1>21. \A i \in 1 .. h : mantissa[i] # "e"
  BY <1>2, <1>8, <1>9, NoExponent
<1>22. Split(t, mantissa, "e", y, h, k)
  <2>1. h + g = h + 1 + k
    BY <1>16
  <2> QED
    BY <1>9, <1>19, <1>20, <1>21, <2>1 DEF Split
<1>23. Found(t, mantissa, "e", y, h)
  BY <1>8, <1>14, <1>19, <1>22, FirstFound
<1>24. mantissa = Mantissa(t) /\ ExponentOf(t) = x
  <2>1. h + 1 # 0
    OBVIOUS
  <2> QED
    BY <1>6, <1>23, <2>1 DEF Found, Mantissa, ExponentOf
<1>25. t # <<>> /\ t[1] = mantissa[1]
  <2>1. Len(t) # 0 /\ 1 \in 1 .. h
    BY <1>10, <1>16, <1>19
  <2>2. Len(<<>>) = 0
    OBVIOUS
  <2> QED
    BY <1>19, <2>1, <2>2
<1>26. int \in Seq(TextChars) /\ fraction \in Seq(TextChars)
  BY <1>2 DEF TextChars
<1>27. Denoted(t) = Decimal(SignedNumber(neg, d \o fraction), ExponentOf(t) - l)
  <2>1. Numeric(int, neg, d) /\ fraction \in Seq(DigitChars)
    BY <1>2
  <2> QED
    BY <1>8, <1>24, <1>25, <1>26, <2>1, PointDenotes, Zenon
<1>28. x - l = e
  BY <1>4
<1> QED
  BY <1>2, <1>24, <1>27, <1>28
FractionText(n, b, places) ==
    IF n < 0 THEN <<"-">> \o PointMoved(Tail(b), places) ELSE PointMoved(b, places)

LEMMA FractionDenotes ==
    ASSUME NEW n \in Int, NEW b, NEW d, SignAndDigits(n, b, d), NEW places \in Nat \ {0},
           NEW t, t = FractionText(n, b, places)
    PROVE  Denoted(t) = Decimal(n, -places)
<1>1. d \in Seq(DigitChars) /\ SignedNumber(n < 0, d) = n
  BY DEF SignAndDigits
<1>2. PICK u : u = PointMoved(d, places)
  OBVIOUS
<1>3. PICK int, fraction : Moved(u, d, places, int, fraction)
  BY <1>1, <1>2, PointMovedIs
<1>4. /\ int \in Seq(DigitChars) /\ fraction \in Seq(DigitChars)
      /\ u = int \o <<".">> \o fraction
      /\ Len(fraction) = places /\ NatOf(int \o fraction) = NatOf(d)
  BY <1>3 DEF Moved
<1>5. PICK whole, neg : /\ Numeric(whole, neg, int) /\ t = whole \o <<".">> \o fraction
                        /\ neg = (n < 0)
  <2>1. CASE n < 0
    <3>1. Numeric(b, n < 0, d)
      BY IntTextNumeric
    <3>2. HasSign(b)
      BY <2>1, <3>1 DEF Numeric, HasSign
    <3>3. Tail(b) = d
      BY <3>1, <3>2 DEF Numeric, Unsigned
    <3>4. t = <<"-">> \o u
      BY <1>2, <2>1, <3>3 DEF FractionText
    <3>5. PICK s, c : s = <<"-">> /\ c = <<".">>
      OBVIOUS
    <3>6. s \in Seq(TextChars) /\ c \in Seq(TextChars)
      BY <3>5, OneElement DEF TextChars
    <3>7. int \in Seq(TextChars) /\ fraction \in Seq(TextChars)
      BY <1>4 DEF TextChars
    <3>8. s \o ((int \o c) \o fraction) = ((s \o int) \o c) \o fraction
      <4>1. Regrouping(s, int, c, fraction)
        BY <3>6, <3>7, Regrouped
      <4> QED
        BY <4>1, Zenon DEF Regrouping
    <3>9. PICK whole : Joined(<<"-">>, int, whole)
      BY DEF Joined
    <3>10. Numeric(whole, TRUE, int)
      BY <1>4, <3>9, WithSign
    <3>11. t = whole \o <<".">> \o fraction
      BY <1>4, <3>4, <3>5, <3>8, <3>9 DEF Joined
    <3> QED
      BY <2>1, <3>10, <3>11
  <2>2. CASE ~(n < 0)
    <3>1. t = int \o <<".">> \o fraction
      BY <1>2, <1>4, <2>2 DEF SignAndDigits, FractionText
    <3>2. Numeric(int, FALSE, int)
      BY <1>4, WithoutSign
    <3>3. (n < 0) = FALSE
      BY <2>2
    <3> QED
      BY <3>1, <3>2, <3>3
  <2> QED
    BY <2>1, <2>2
<1>6. whole \in Seq(DigitChars \cup {"-"})
  BY <1>5 DEF Numeric
<1>7. PICK m : m = Len(whole)
  OBVIOUS
<1>8. t \in Seq(TextChars) /\ Split(t, whole, ".", fraction, m, places)
  BY <1>4, <1>5, <1>6, <1>7, PointBetween
<1>9. DenotesFraction(t, SignedNumber(neg, int \o fraction), places)
  <2>1. Numeric(whole, neg, int) /\ fraction \in Seq(DigitChars)
    BY <1>4, <1>5
  <2> QED
    BY <1>8, <2>1, FixedDenotes
<1>10. SignedNumber(neg, int \o fraction) = n
  BY <1>1, <1>4, <1>5 DEF SignedNumber
<1> QED
  BY <1>9, <1>10 DEF DenotesFraction

LEMMA ZerosDenote ==
    ASSUME NEW n \in Int, NEW b, NEW d, SignAndDigits(n, b, d), NEW e \in Nat,
           NEW t, t = b \o Zeros(e)
    PROVE  Denoted(t) = Decimal(n, e)
<1>1. d \in Seq(DigitChars) /\ SignedNumber(n < 0, d) = n
  BY DEF SignAndDigits
<1>2. PICK z : z = Zeros(e)
  OBVIOUS
<1>3. z \in Seq(DigitChars)
  BY <1>2, ZerosAre
<1>4. PICK u : Joined(d, z, u)
  BY DEF Joined
<1>5. u \in Seq(DigitChars)
  BY <1>1, <1>3, <1>4 DEF Joined
<1>6. SameDecimals(NatOf(u), NatOf(d), 0, e)
  BY <1>1, <1>2, <1>4, TrailingZerosDenote
<1>7. CASE n < 0
  <2>1. PICK s : s = <<"-">> /\ s \in Seq(DigitChars \cup {"-"})
    BY OneElement
  <2>2. d \in Seq(DigitChars \cup {"-"}) /\ z \in Seq(DigitChars \cup {"-"})
    BY <1>1, <1>3
  <2>3. (s \o d) \o z = s \o (d \o z)
    BY <2>1, <2>2, ConcatAssociative
  <2>4. Joined(<<"-">>, u, t)
    BY <1>2, <1>4, <1>7, <2>1, <2>3 DEF SignAndDigits, Joined
  <2>5. Numeric(t, TRUE, u)
    BY <1>5, <2>4, WithSign
  <2>6. Denoted(t) = Decimal(SignedNumber(TRUE, u), 0)
    BY <2>5, WholeDenotes
  <2>7. SignedNumber(TRUE, u) = -NatOf(u) /\ -NatOf(d) = n
    BY <1>1, <1>7 DEF SignedNumber
  <2> QED
    BY <1>6, <2>6, <2>7 DEF SameDecimals
<1>8. CASE ~(n < 0)
  <2>1. t = u
    BY <1>2, <1>4, <1>8 DEF SignAndDigits, Joined
  <2>2. Denoted(t) = Decimal(SignedNumber(FALSE, u), 0)
    BY <1>5, <2>1, WithoutSign, WholeDenotes
  <2>3. SignedNumber(FALSE, u) = NatOf(u) /\ NatOf(d) = n
    BY <1>1, <1>8 DEF SignedNumber
  <2> QED
    BY <1>6, <2>2, <2>3 DEF SameDecimals
<1> QED
  BY <1>7, <1>8

LEMMA IntTextDenotes ==
    ASSUME NEW n \in Int, NEW t, t = IntText(n)
    PROVE  Denoted(t) = Decimal(n, 0)
<1>1. PICK d : SignAndDigits(n, t, d)
  BY IntTextIs
<1>2. Numeric(t, n < 0, d)
  BY <1>1, IntTextNumeric
<1>3. Denoted(t) = Decimal(SignedNumber(n < 0, d), 0)
  BY <1>2, WholeDenotes
<1> QED
  BY <1>1, <1>3 DEF SignAndDigits

\* suns_snprintf_int_sf(): the text denotes the number with the scale factor, unless
\* it is in scientific notation with an exponent of 0, which is left out.
LEMMA ScaledDenotes ==
    ASSUME NEW n \in Int, NEW e \in Int, NEW stale, NEW t, t = ScaledText(n, e, stale)
    PROVE  Denoted(t) = Decimal(n, e) \/ Unended(n, e)
<1> DEFINE long(b, m) == Len(b) > MaxDigits \/ Len(b) + m > MaxDigits + 2
<1>1. PICK b, abs : b = IntText(n) /\ abs = IF e < 0 THEN -e ELSE e
  OBVIOUS
<1>2. PICK d : SignAndDigits(n, b, d)
  BY <1>1, IntTextIs
<1>3. t = IF n = 0 THEN <<"0">> ELSE
          IF e = 0 THEN b ELSE
          IF long(b, abs) THEN Scientific(b, e, stale) ELSE
          IF e < 0 THEN IF n < 0 THEN <<"-">> \o PointMoved(Tail(b), -e)
                        ELSE PointMoved(b, -e)
          ELSE b \o Zeros(e)
  BY <1>1 DEF ScaledText
<1> HIDE DEF long
<1>4. CASE n = 0
  <2>1. t = <<"0">>
    BY <1>3, <1>4
  <2>2. IntText(0) = <<"0">>
    <3>1. Appended(<<>>, Digits[(0 % 10) + 1], NatText[0])
      BY NatTextStep
    <3>2. Digits[(0 % 10) + 1] = "0"
      BY DEF Digits
    <3>3. Append(<<>>, "0") = <<"0">>
      OBVIOUS
    <3> QED
      BY <3>1, <3>2, <3>3 DEF Appended, IntText
  <2>3. Denoted(t) = Decimal(0, 0)
    BY <2>1, <2>2, IntTextDenotes
  <2> QED
    BY <1>4, <2>3 DEF Decimal
<1>5. CASE n # 0 /\ e = 0
  <2>1. t = b
    BY <1>3, <1>5
  <2> QED
    BY <1>1, <1>5, <2>1, IntTextDenotes
<1>6. CASE n # 0 /\ e # 0 /\ long(b, abs)
  <2>1. t = Scientific(b, e, stale)
    BY <1>3, <1>6
  <2>2. CASE e + Len(b) - 1 = 0
    <3>1. PICK k \in Nat \ {0} : k = Len(b)
      <4>1. Len(b) \in Nat /\ (n < 0 => Len(b) = 1 + Len(d)) /\ (~(n < 0) => b = d)
        BY <1>2 DEF SignAndDigits, Joined
      <4>2. Len(d) \in Nat \ {0}
        BY <1>2 DEF SignAndDigits
      <4> QED
        BY <4>1, <4>2
    <3>2. e < 0 /\ k + e = 1 /\ abs = -e
      BY <1>1, <1>6, <2>2, <3>1
    <3>3. k > MaxDigits \/ k + abs > MaxDigits + 2
      BY <1>6, <3>1 DEF long
    <3>4. k > MaxDigits \/ k - e > MaxDigits + 2
      <4>1. k + abs = k - e
        BY <3>1, <3>2
      <4> QED
        BY <3>3, <4>1
    <3> QED
      BY <1>1, <1>6, <3>1, <3>2, <3>4 DEF Unended
  <2>3. CASE e + Len(b) - 1 # 0
    BY <1>1, <2>1, <2>3, ScientificDenotes
  <2> QED
    BY <2>2, <2>3
<1>7. CASE n # 0 /\ e < 0 /\ ~long(b, abs)
  <2>1. PICK places \in Nat \ {0} : places = -e /\ -places = e
    <3>1. -e \in Nat \ {0} /\ -(-e) = e
      BY <1>7
    <3> QED
      BY <3>1
  <2>2. e # 0
    BY <1>7
  <2>3. t = FractionText(n, b, places)
    BY <1>3, <1>7, <2>1, <2>2 DEF FractionText
  <2>4. Denoted(t) = Decimal(n, -places)
    BY <1>2, <2>3, FractionDenotes
  <2> QED
    BY <2>1, <2>4
<1>8. CASE n # 0 /\ e # 0 /\ ~(e < 0) /\ ~long(b, abs)
  <2>1. e \in Nat
    BY <1>8
  <2>2. t = b \o Zeros(e)
    BY <1>3, <1>8
  <2> QED
    BY <1>2, <2>1, <2>2, ZerosDenote
<1> QED
  BY <1>4, <1>5, <1>6, <1>7, <1>8
-----------------------------------------------------------------------------
\* Printed values: the invariant

\* What is in the buffer was made from the value, which has a scale factor.
Printed ==
    /\ pc \in {"value", "printed"} => value.sf \in Int
    /\ pc = "printed" =>
          /\ value.ok /\ tp.type \notin {"sunssf", "pad"}
          /\ \E stale \in Stale : buffer = SfText(tp.type, value.bits, value.sf, stale)

LEMMA PrintStep ==
    ASSUME Printed, [Next]_vars
    PROVE  Printed'
<1>1. CASE BufToValue
  <2>1. pc' = "value"
    BY <1>1 DEF BufToValue
  <2>2. PICK u \in 0 .. TwoTo[Width(tp.type)] - 1, sf \in Scales :
           value' = [bits |-> IF tp.type = "pad" THEN 0 ELSE u, sf |-> sf,
                     ok |-> ~NotImplemented(tp.type, u)]
    BY <1>1 DEF BufToValue
  <2>3. value'.sf \in Int
    BY <2>2, ScalesAssumption
  <2> QED
    BY <2>1, <2>3 DEF Printed
<1>2. CASE TextOutput
  <2>1. /\ pc = "value" /\ pc' = "printed" /\ value.ok /\ tp.type \notin {"sunssf", "pad"}
        /\ UNCHANGED <<tp, value>>
        /\ \E stale \in Stale : buffer' = SfText(tp.type, value.bits, value.sf, stale)
    BY <1>2 DEF TextOutput
  <2> QED
    BY <2>1 DEF Printed
<1>3. CASE UNCHANGED vars
  BY <1>3 DEF Printed, vars
<1>4. CASE XmlOutput \/ NotShown \/ Upload
  <2>1. pc' = "parsing" \/ pc' = "not shown"
    BY <1>4, Zenon DEF XmlOutput, NotShown, Upload
  <2>2. pc' # "printed" /\ pc' \notin {"value", "printed"}
    BY <2>1, Zenon
  <2> QED
    BY <2>2 DEF Printed
<1>5. CASE ParseStep
  <2>1. pc' \in {"parsing", "refused", "accepted"}
    <3>1. ASSUME pc = "parsing", \E next : Parse(next) PROVE pc' = "parsing"
      BY <3>1 DEF Parse
    <3>2. ASSUME pc = "parsing", UNCHANGED vars PROVE pc' = "parsing"
      BY <3>2 DEF vars
    <3>3. CASE Sign
      BY <3>1, <3>2, <3>3 DEF Sign, Reads
    <3>4. CASE Digit
      BY <3>1, <3>4 DEF Digit
    <3>5. CASE Point
      BY <3>1, <3>5 DEF Point, Reads, Refuse
    <3>6. CASE Exponent
      BY <3>1, <3>6 DEF Exponent, Reads, Refuse
    <3>7. CASE OtherChar
      BY <3>7 DEF OtherChar, Refuse
    <3>8. CASE EndOfText
      BY <3>1, <3>8 DEF EndOfText, Refuse
    <3>9. CASE Convert
      BY <3>9 DEF Convert, Refuse
    <3> QED
      BY <1>5, <3>3, <3>4, <3>5, <3>6, <3>7, <3>8, <3>9 DEF ParseStep
  <2> QED
    BY <2>1 DEF Printed
<1>6. Next => \/ BufToValue \/ TextOutput \/ NotShown \/ XmlOutput \/ Upload \/ ParseStep
              \/ UNCHANGED vars
  BY Zenon DEF Next, ParseStep, Finished
<1> QED
  BY <1>1, <1>2, <1>3, <1>4, <1>5, <1>6

\* The types whose text is their number, taken as signed or unsigned and with the
\* scale factor, or without.
ScaledSigned == {"int16", "int32", "int64", "uint64"}
ScaledUnsigned == {"uint16", "acc16", "uint32", "acc32", "acc64"}
Unscaled == {"enum16", "enum32"}

LEMMA PrintKept ==
    ASSUME LogInv, Printed
    PROVE  PrintedExactly
<1> DEFINE type == tp.type
           u == value.bits
           n == NumberOf(type, u)
           e == IF type \in {"enum16", "enum32"} THEN 0 ELSE value.sf
<1>1. SUFFICES ASSUME PrintedAsNumber
               PROVE  Denoted(buffer) = Decimal(n, e) \/ Unended(n, e)
  BY DEF PrintedExactly, PrintedNumber, PrintedScale
<1>2. /\ value.sf \in Int /\ value.ok /\ type \notin {"sunssf", "pad"}
      /\ \E stale \in Stale : buffer = SfText(type, u, value.sf, stale)
  BY <1>1 DEF Printed, PrintedAsNumber
<1>3. PICK stale : buffer = SfText(type, u, value.sf, stale)
  BY <1>2
<1>4. type \in ValueTypes /\ u \in 0 .. TwoTo[Width(type)] - 1
  BY <1>2 DEF LogInv, ValueRead
<1>5. PICK P \in Nat, H \in Nat, L \in Nat, T \in Nat :
         Ranges(Width(type), LongWidth, P, H, L, T)
  BY <1>4, Widths
<1>6. u \in 0 .. P - 1 /\ u \in Nat
  BY <1>4, <1>5 DEF Ranges
<1>7. type \in ScaledSigned \cup ScaledUnsigned \cup Unscaled
  BY <1>1, <1>2, <1>4 DEF PrintedAsNumber, ValueTypes, Types, Types16, Types32, Types64,
     ScaledSigned, ScaledUnsigned, Unscaled
<1>8. CASE type \in ScaledSigned
  <2>1. PICK k : k = Signed(u, Width(type))
    OBVIOUS
  <2>2. k \in Int
    BY <1>5, <1>6, <2>1, SignedBack
  <2>3. n = k
    <3>1. CASE type = "uint64"
      <4>1. n = u
        BY <3>1 DEF NumberOf, SignedTypes
      <4>2. ~(u >= TwoTo[Width(type) - 1])
        BY <1>1, <1>5, <1>6, <3>1 DEF PrintedAsNumber, Ranges
      <4> QED
        BY <2>1, <4>1, <4>2 DEF Signed
    <3>2. CASE type \in {"int16", "int32", "int64"}
      BY <2>1, <3>2 DEF NumberOf, SignedTypes
    <3> QED
      BY <1>8, <3>1, <3>2 DEF ScaledSigned
  <2>4. buffer = ScaledText(k, value.sf, stale)
    BY <1>3, <1>5, <1>8, <2>1 DEF SfText, ScaledSigned
  <2>5. e = value.sf
    BY <1>8 DEF ScaledSigned
  <2>6. Denoted(buffer) = Decimal(k, value.sf) \/ Unended(k, value.sf)
    BY <1>2, <2>2, <2>4, ScaledDenotes
  <2> QED
    BY <2>3, <2>5, <2>6
<1>9. CASE type \in ScaledUnsigned
  <2>1. n = u
    BY <1>9 DEF NumberOf, SignedTypes, ScaledUnsigned
  <2>2. buffer = ScaledText(u, value.sf, stale)
    BY <1>3, <1>9 DEF SfText, ScaledUnsigned
  <2>3. e = value.sf
    BY <1>9 DEF ScaledUnsigned
  <2>4. u \in Int
    BY <1>6
  <2>5. Denoted(buffer) = Decimal(u, value.sf) \/ Unended(u, value.sf)
    BY <1>2, <2>2, <2>4, ScaledDenotes
  <2> QED
    BY <2>1, <2>3, <2>5
<1>10. CASE type \in Unscaled
  <2>1. n = u
    BY <1>10 DEF NumberOf, SignedTypes, Unscaled
  <2>2. buffer = NatText[u]
    BY <1>3, <1>10 DEF SfText, Unscaled
  <2>3. e = 0
    BY <1>10 DEF Unscaled
  <2>4. u \in Int /\ buffer = IntText(u)
    BY <1>6, <2>2 DEF IntText
  <2>5. Denoted(buffer) = Decimal(u, 0)
    BY <2>4, IntTextDenotes
  <2> QED
    BY <2>1, <2>3, <2>5
<1> QED
  BY <1>7, <1>8, <1>9, <1>10

\* PrintedExactly, for integers of every width, every scale factor and every number of
\* digits before scientific notation: the text that suns_snprintf_value_sf_text() makes
\* of a value denotes its number with the scale factor applied, to the last digit,
\* except where its notation is scientific with an exponent of 0.  Bit fields and
\* addresses are not printed as decimal numbers, and unsigned 64 bit numbers only below
\* the top bit.
THEOREM TextIsExact == Spec => []PrintedExactly
<1>1. Init => LogInv /\ Printed
  <2>1. Init => Printed
    BY DEF Init, Printed
  <2> QED
    BY <2>1, LogStart
<1>2. LogInv /\ Printed /\ [Next]_vars => LogInv' /\ Printed'
  BY LogStep, PrintStep
<1>3. LogInv /\ Printed => PrintedExactly
  BY PrintKept
<1> QED
  BY <1>1, <1>2, <1>3, PTL DEF Spec
=============================================================================

--------------------------- MODULE ModelFilesProofs ---------------------------
(***************************************************************************)
(* What holds of ModelFiles for all runs of the tool and all model files.  *)
(***************************************************************************)
EXTENDS ModelFiles, LeastElement

-----------------------------------------------------------------------------
\* Sequences, whatever they hold

LEMMA SequenceFacts ==
    ASSUME NEW x, IsSequence(x)
    PROVE  Len(x) \in Nat /\ DOMAIN x = 1 .. Len(x) /\ x = [k \in 1 .. Len(x) |-> x[k]]
  BY DEF IsSequence

LEMMA MapIsSequence ==
    ASSUME NEW n \in Nat, NEW x, x = [k \in 1 .. n |-> x[k]]
    PROVE  IsSequence(x) /\ Len(x) = n
<1> DEFINE R == {x[i] : i \in DOMAIN x}
<1>1. DOMAIN x = 1 .. n
  OBVIOUS
<1>2. \A k \in 1 .. n : x[k] \in R
  BY <1>1
<1> HIDE DEF R
<1>3. x \in [1 .. n -> R]
  BY <1>2
<1>4. x \in Seq(R) /\ Len(x) = n
  BY <1>3
<1> QED
  BY <1>4 DEF IsSequence, R

LEMMA EmptyIsSequence == IsSequence(<<>>) /\ Len(<<>>) = 0
  BY DEF IsSequence

LEMMA SeqIsSequence ==
    ASSUME NEW S, NEW x \in Seq(S) PROVE IsSequence(x)
<1>1. Len(x) \in Nat /\ x = [k \in 1 .. Len(x) |-> x[k]]
  OBVIOUS
<1> QED
  BY <1>1, MapIsSequence

LEMMA AppendFacts ==
    ASSUME NEW x, IsSequence(x), NEW e
    PROVE  /\ IsSequence(Append(x, e)) /\ Len(Append(x, e)) = Len(x) + 1
           /\ \A k \in 1 .. Len(x) : Append(x, e)[k] = x[k]
           /\ Append(x, e)[Len(x) + 1] = e
<1> DEFINE S == {x[i] : i \in DOMAIN x} \union {e}
<1>1. x \in Seq(S) /\ e \in S
  <2>1. x \in Seq({x[i] : i \in DOMAIN x})
    BY DEF IsSequence
  <2>2. \A i \in 1 .. Len(x) : x[i] \in S
    BY <2>1
  <2>3. x = [i \in 1 .. Len(x) |-> x[i]] /\ Len(x) \in Nat /\ e \in S
    BY <2>1
  <2> HIDE DEF S
  <2> QED
    BY <2>2, <2>3
<1> HIDE DEF S
<1>2. /\ Append(x, e) \in Seq(S) /\ Len(Append(x, e)) = Len(x) + 1
      /\ \A k \in 1 .. Len(x) : Append(x, e)[k] = x[k]
      /\ Append(x, e)[Len(x) + 1] = e
  BY <1>1
<1> QED
  BY <1>2, SeqIsSequence

LEMMA ConcatFacts ==
    ASSUME NEW x, IsSequence(x), NEW y, IsSequence(y)
    PROVE  /\ IsSequence(x \o y) /\ Len(x \o y) = Len(x) + Len(y)
           /\ \A k \in 1 .. Len(x) : (x \o y)[k] = x[k]
           /\ \A k \in 1 .. Len(y) : (x \o y)[Len(x) + k] = y[k]
<1> DEFINE S == {x[i] : i \in DOMAIN x} \union {y[i] : i \in DOMAIN y}
<1>1. x \in Seq(S) /\ y \in Seq(S)
  <2>1. x \in Seq({x[i] : i \in DOMAIN x}) /\ y \in Seq({y[i] : i \in DOMAIN y})
    BY DEF IsSequence
  <2>2. (\A i \in 1 .. Len(x) : x[i] \in S) /\ (\A i \in 1 .. Len(y) : y[i] \in S)
    BY <2>1
  <2>3. /\ x = [i \in 1 .. Len(x) |-> x[i]] /\ Len(x) \in Nat
        /\ y = [i \in 1 .. Len(y) |-> y[i]] /\ Len(y) \in Nat
    BY <2>1
  <2> HIDE DEF S
  <2> QED
    BY <2>2, <2>3
<1> HIDE DEF S
<1>2. PICK Z : Z = S
  OBVIOUS
<1>3. x \in Seq(Z) /\ y \in Seq(Z)
  BY <1>1, <1>2
<1>4. /\ x \o y \in Seq(Z) /\ Len(x \o y) = Len(x) + Len(y)
      /\ \A k \in 1 .. Len(x) : (x \o y)[k] = x[k]
      /\ \A k \in 1 .. Len(y) : (x \o y)[Len(x) + k] = y[k]
  BY <1>3
<1> QED
  BY <1>4, SeqIsSequence

LEMMA RestFacts ==
    ASSUME NEW x, IsSequence(x), NEW m \in Nat, m <= Len(x)
    PROVE  /\ IsSequence(SubSeq(x, m + 1, Len(x)))
           /\ Len(SubSeq(x, m + 1, Len(x))) = Len(x) - m
           /\ \A k \in 1 .. Len(x) - m : SubSeq(x, m + 1, Len(x))[k] = x[m + k]
<1>1. PICK n \in Nat : n = Len(x)
  BY SequenceFacts
<1>2. PICK j \in Nat : j = n - m
  <2>1. m <= n
    BY <1>1
  <2>2. n - m \in Nat
    BY <2>1
  <2> QED
    BY <2>2
<1>3. m + 1 \in Int /\ n - (m + 1) + 1 = j /\ \A k \in 1 .. j : (m + 1) + k - 1 = m + k
  BY <1>2
<1>4. SubSeq(x, m + 1, n) = [k \in 1 .. j |-> x[m + k]]
  BY <1>1, <1>3
<1>5. IsSequence(SubSeq(x, m + 1, n)) /\ Len(SubSeq(x, m + 1, n)) = j
  BY <1>4, MapIsSequence
<1> QED
  BY <1>1, <1>2, <1>4, <1>5

LEMMA TailFacts ==
    ASSUME NEW x, IsSequence(x), x # <<>>
    PROVE  /\ Len(x) >= 1 /\ Head(x) = x[1]
           /\ IsSequence(Tail(x)) /\ Len(Tail(x)) = Len(x) - 1
           /\ \A k \in 1 .. Len(x) - 1 : Tail(x)[k] = x[k + 1]
<1> DEFINE S == {x[i] : i \in DOMAIN x}
<1>1. x \in Seq(S)
  BY DEF IsSequence
<1> HIDE DEF S
<1>2. /\ Len(x) >= 1 /\ Head(x) = x[1] /\ Tail(x) \in Seq(S) /\ Len(Tail(x)) = Len(x) - 1
      /\ \A k \in 1 .. Len(x) - 1 : Tail(x)[k] = x[k + 1]
  BY <1>1
<1> QED
  BY <1>2, SeqIsSequence

\* The first element that passes a test.
LEMMA FirstFacts ==
    ASSUME NEW n \in Nat, NEW I \in SUBSET (1 .. n)
    PROVE  IF I # {} THEN Min(I) \in I /\ \A i \in I : Min(I) <= i ELSE TRUE
<1> SUFFICES ASSUME I # {} PROVE Min(I) \in I /\ \A i \in I : Min(I) <= i
  OBVIOUS
<1>1. \E x \in I : \A y \in I : x <= y
  <2>1. I \in SUBSET Nat
    OBVIOUS
  <2> QED
    BY <2>1, NatLeast
<1> QED
  BY <1>1 DEF Min

-----------------------------------------------------------------------------
\* The recursive functions, step by step

LEMMA FillBlockSteps ==
    ASSUME NEW block, NEW N \in Nat, N = Len(block.dps)
    PROVE  \E f : /\ f[0] = [block EXCEPT !.dps = <<>>, !.len = 0]
                  /\ \A k \in 1 .. N : f[k] = FillPoint(f[k - 1], block.dps[k])
                  /\ FillBlock(block) = f[N]
<1> DEFINE Is(f, n) == /\ f = [k \in 0 .. n |-> f[k]]
                       /\ f[0] = [block EXCEPT !.dps = <<>>, !.len = 0]
                       /\ \A k \in 1 .. n : f[k] = FillPoint(f[k - 1], block.dps[k])
           T == {n \in 0 .. N : \E f : Is(f, n)}
<1>1. 0 \in T
  <2>1. Is([k \in 0 .. 0 |-> [block EXCEPT !.dps = <<>>, !.len = 0]], 0)
    OBVIOUS
  <2> HIDE DEF Is
  <2> QED
    BY <2>1
<1>2. ASSUME NEW n \in 1 .. N, n - 1 \in T PROVE n \in T
  <2>1. PICK f : Is(f, n - 1)
    BY <1>2
  <2> DEFINE g == [k \in 0 .. n |-> IF k = n THEN FillPoint(f[n - 1], block.dps[n]) ELSE f[k]]
  <2>2. Is(g, n)
    <3>1. n - 1 \in Nat /\ n \in Nat \ {0} /\ g[0] = f[0] /\ g[n - 1] = f[n - 1]
      OBVIOUS
    <3>2. ASSUME NEW k \in 1 .. n PROVE g[k] = FillPoint(g[k - 1], block.dps[k])
      <4>1. CASE k = n
        BY <3>1, <4>1
      <4>2. CASE k # n
        <5>1. k \in 1 .. n - 1 /\ k - 1 \in 0 .. n - 1 /\ k - 1 # n
          BY <4>2
        <5>2. g[k] = f[k] /\ g[k - 1] = f[k - 1]
          BY <4>2, <5>1
        <5>3. f[k] = FillPoint(f[k - 1], block.dps[k])
          BY <2>1, <5>1
        <5> QED
          BY <5>2, <5>3
      <4> QED
        BY <4>1, <4>2
    <3>3. g = [k \in 0 .. n |-> g[k]] /\ g[0] = [block EXCEPT !.dps = <<>>, !.len = 0]
      BY <2>1, <3>1
    <3> HIDE DEF g
    <3> QED
      BY <3>2, <3>3
  <2> HIDE DEF Is, g
  <2> QED
    BY <2>2
<1>3. PICK f : Is(f, N)
  <2> HIDE DEF Is
  <2>1. N \in T
    <3> HIDE DEF T
    <3>1. 0 .. N \subseteq T
      BY <1>1, <1>2, UpTo
    <3> QED
      BY <3>1
  <2> QED
    BY <2>1
<1> DEFINE F(h) == [k \in 0 .. N |->
               IF k = 0 THEN [block EXCEPT !.dps = <<>>, !.len = 0]
               ELSE FillPoint(h[k - 1], block.dps[k])]
           read == CHOOSE h : h = F(h)
<1>4. FillBlock(block) = read[N]
  BY DEF FillBlock
<1>5. read = F(read)
  <2>1. f = F(f)
    <3>1. \A k \in 0 .. N : f[k] =
               IF k = 0 THEN [block EXCEPT !.dps = <<>>, !.len = 0]
               ELSE FillPoint(f[k - 1], block.dps[k])
      <4> TAKE k \in 0 .. N
      <4>1. CASE k = 0
        BY <1>3, <4>1
      <4>2. CASE k # 0
        <5>1. k \in 1 .. N
          BY <4>2
        <5>2. f[k] = FillPoint(f[k - 1], block.dps[k])
          BY <1>3, <5>1
        <5> QED
          BY <4>2, <5>2
      <4> QED
        BY <4>1, <4>2
    <3>2. f = [k \in 0 .. N |-> f[k]]
      BY <1>3
    <3> QED
      BY <3>1, <3>2
  <2> HIDE DEF F
  <2> QED
    BY <2>1
<1> HIDE DEF read
<1>6. \A k \in 0 .. N : read[k] =
           IF k = 0 THEN [block EXCEPT !.dps = <<>>, !.len = 0]
           ELSE FillPoint(read[k - 1], block.dps[k])
  BY <1>5
<1>7. /\ read[0] = [block EXCEPT !.dps = <<>>, !.len = 0]
      /\ \A k \in 1 .. N : read[k] = FillPoint(read[k - 1], block.dps[k])
  BY <1>6
<1> QED
  BY <1>4, <1>7

LEMMA FillOffsetsSteps ==
    ASSUME NEW m, NEW N \in Nat, N = Len(m.dp_blocks)
    PROVE  \E f : /\ f[0] = [m EXCEPT !.dp_blocks = <<>>, !.fills = @ + 1]
                  /\ \A k \in 1 .. N : f[k] = AddFilled(f[k - 1], m.dp_blocks[k])
                  /\ FillOffsets(m) = f[N]
<1> DEFINE Is(f, n) == /\ f = [k \in 0 .. n |-> f[k]]
                       /\ f[0] = [m EXCEPT !.dp_blocks = <<>>, !.fills = @ + 1]
                       /\ \A k \in 1 .. n : f[k] = AddFilled(f[k - 1], m.dp_blocks[k])
           T == {n \in 0 .. N : \E f : Is(f, n)}
<1>1. 0 \in T
  <2>1. Is([k \in 0 .. 0 |-> [m EXCEPT !.dp_blocks = <<>>, !.fills = @ + 1]], 0)
    OBVIOUS
  <2> HIDE DEF Is
  <2> QED
    BY <2>1
<1>2. ASSUME NEW n \in 1 .. N, n - 1 \in T PROVE n \in T
  <2>1. PICK f : Is(f, n - 1)
    BY <1>2
  <2> DEFINE g == [k \in 0 .. n |-> IF k = n THEN AddFilled(f[n - 1], m.dp_blocks[n]) ELSE f[k]]
  <2>2. Is(g, n)
    <3>1. n - 1 \in Nat /\ n \in Nat \ {0} /\ g[0] = f[0] /\ g[n - 1] = f[n - 1]
      OBVIOUS
    <3>2. ASSUME NEW k \in 1 .. n PROVE g[k] = AddFilled(g[k - 1], m.dp_blocks[k])
      <4>1. CASE k = n
        BY <3>1, <4>1
      <4>2. CASE k # n
        <5>1. k \in 1 .. n - 1 /\ k - 1 \in 0 .. n - 1 /\ k - 1 # n
          BY <4>2
        <5>2. g[k] = f[k] /\ g[k - 1] = f[k - 1]
          BY <4>2, <5>1
        <5>3. f[k] = AddFilled(f[k - 1], m.dp_blocks[k])
          BY <2>1, <5>1
        <5> QED
          BY <5>2, <5>3
      <4> QED
        BY <4>1, <4>2
    <3>3. g = [k \in 0 .. n |-> g[k]] /\ g[0] = [m EXCEPT !.dp_blocks = <<>>, !.fills = @ + 1]
      BY <2>1, <3>1
    <3> HIDE DEF g
    <3> QED
      BY <3>2, <3>3
  <2> HIDE DEF Is, g
  <2> QED
    BY <2>2
<1>3. PICK f : Is(f, N)
  <2> HIDE DEF Is
  <2>1. N \in T
    <3> HIDE DEF T
    <3>1. 0 .. N \subseteq T
      BY <1>1, <1>2, UpTo
    <3> QED
      BY <3>1
  <2> QED
    BY <2>1
<1> DEFINE F(h) == [k \in 0 .. N |->
               IF k = 0 THEN [m EXCEPT !.dp_blocks = <<>>, !.fills = @ + 1]
               ELSE AddFilled(h[k - 1], m.dp_blocks[k])]
           read == CHOOSE h : h = F(h)
<1>4. FillOffsets(m) = read[N]
  BY DEF FillOffsets
<1>5. read = F(read)
  <2>1. f = F(f)
    <3>1. \A k \in 0 .. N : f[k] =
               IF k = 0 THEN [m EXCEPT !.dp_blocks = <<>>, !.fills = @ + 1]
               ELSE AddFilled(f[k - 1], m.dp_blocks[k])
      <4> TAKE k \in 0 .. N
      <4>1. CASE k = 0
        BY <1>3, <4>1
      <4>2. CASE k # 0
        <5>1. k \in 1 .. N
          BY <4>2
        <5>2. f[k] = AddFilled(f[k - 1], m.dp_blocks[k])
          BY <1>3, <5>1
        <5> QED
          BY <4>2, <5>2
      <4> QED
        BY <4>1, <4>2
    <3>2. f = [k \in 0 .. N |-> f[k]]
      BY <1>3
    <3> QED
      BY <3>1, <3>2
  <2> HIDE DEF F
  <2> QED
    BY <2>1
<1> HIDE DEF read
<1>6. \A k \in 0 .. N : read[k] =
           IF k = 0 THEN [m EXCEPT !.dp_blocks = <<>>, !.fills = @ + 1]
           ELSE AddFilled(read[k - 1], m.dp_blocks[k])
  BY <1>5
<1>7. /\ read[0] = [m EXCEPT !.dp_blocks = <<>>, !.fills = @ + 1]
      /\ \A k \in 1 .. N : read[k] = AddFilled(read[k - 1], m.dp_blocks[k])
  BY <1>6
<1> QED
  BY <1>4, <1>7

\* f holds the states between the first N elements of item.
Elements(f, s, item, file, N) ==
    /\ f[0] = Begun(s, file)
    /\ \A k \in 1 .. N : f[k] = Element(f[k - 1], item.elmts[k])
    /\ ModelElements(s, item, file) = f[N]

LEMMA ElementsSteps ==
    ASSUME NEW s, NEW item, NEW file, NEW N \in Nat, N = Len(item.elmts)
    PROVE  \E f : Elements(f, s, item, file, N)
<1> DEFINE Is(f, n) == /\ f = [k \in 0 .. n |-> f[k]]
                       /\ f[0] = Begun(s, file)
                       /\ \A k \in 1 .. n : f[k] = Element(f[k - 1], item.elmts[k])
           T == {n \in 0 .. N : \E f : Is(f, n)}
<1>1. 0 \in T
  <2>1. Is([k \in 0 .. 0 |-> Begun(s, file)], 0)
    OBVIOUS
  <2> HIDE DEF Is
  <2> QED
    BY <2>1
<1>2. ASSUME NEW n \in 1 .. N, n - 1 \in T PROVE n \in T
  <2>1. PICK f : Is(f, n - 1)
    BY <1>2
  <2> DEFINE g == [k \in 0 .. n |-> IF k = n THEN Element(f[n - 1], item.elmts[n]) ELSE f[k]]
  <2>2. Is(g, n)
    <3>1. n - 1 \in Nat /\ n \in Nat \ {0} /\ g[0] = f[0] /\ g[n - 1] = f[n - 1]
      OBVIOUS
    <3>2. ASSUME NEW k \in 1 .. n PROVE g[k] = Element(g[k - 1], item.elmts[k])
      <4>1. CASE k = n
        BY <3>1, <4>1
      <4>2. CASE k # n
        <5>1. k \in 1 .. n - 1 /\ k - 1 \in 0 .. n - 1 /\ k - 1 # n
          BY <4>2
        <5>2. g[k] = f[k] /\ g[k - 1] = f[k - 1]
          BY <4>2, <5>1
        <5>3. f[k] = Element(f[k - 1], item.elmts[k])
          BY <2>1, <5>1
        <5> QED
          BY <5>2, <5>3
      <4> QED
        BY <4>1, <4>2
    <3>3. g = [k \in 0 .. n |-> g[k]] /\ g[0] = Begun(s, file)
      BY <2>1, <3>1
    <3> HIDE DEF g
    <3> QED
      BY <3>2, <3>3
  <2> HIDE DEF Is, g
  <2> QED
    BY <2>2
<1>3. PICK f : Is(f, N)
  <2> HIDE DEF Is
  <2>1. N \in T
    <3> HIDE DEF T
    <3>1. 0 .. N \subseteq T
      BY <1>1, <1>2, UpTo
    <3> QED
      BY <3>1
  <2> QED
    BY <2>1
<1> DEFINE F(h) == [k \in 0 .. N |->
               IF k = 0 THEN Begun(s, file)
               ELSE Element(h[k - 1], item.elmts[k])]
           read == CHOOSE h : h = F(h)
<1>4. ModelElements(s, item, file) = read[N]
  BY DEF ModelElements
<1>5. read = F(read)
  <2>1. f = F(f)
    <3>1. \A k \in 0 .. N : f[k] =
               IF k = 0 THEN Begun(s, file)
               ELSE Element(f[k - 1], item.elmts[k])
      <4> TAKE k \in 0 .. N
      <4>1. CASE k = 0
        BY <1>3, <4>1
      <4>2. CASE k # 0
        <5>1. k \in 1 .. N
          BY <4>2
        <5>2. f[k] = Element(f[k - 1], item.elmts[k])
          BY <1>3, <5>1
        <5> QED
          BY <4>2, <5>2
      <4> QED
        BY <4>1, <4>2
    <3>2. f = [k \in 0 .. N |-> f[k]]
      BY <1>3
    <3> QED
      BY <3>1, <3>2
  <2> HIDE DEF F
  <2> QED
    BY <2>1
<1> HIDE DEF read
<1>6. \A k \in 0 .. N : read[k] =
           IF k = 0 THEN Begun(s, file)
           ELSE Element(read[k - 1], item.elmts[k])
  BY <1>5
<1>7. /\ read[0] = Begun(s, file)
      /\ \A k \in 1 .. N : read[k] = Element(read[k - 1], item.elmts[k])
  BY <1>6
<1> QED
  BY <1>4, <1>7 DEF Elements

LEMMA ParseSteps ==
    ASSUME NEW s, NEW items, NEW file, NEW N \in Nat, N = Taken(items)
    PROVE  \E f : /\ f[0] = s
                  /\ \A k \in 1 .. N : f[k] = Item(f[k - 1], items[k], file)
                  /\ Parse(s, items, file) = f[N]
<1> DEFINE Is(f, n) == /\ f = [k \in 0 .. n |-> f[k]]
                       /\ f[0] = s
                       /\ \A k \in 1 .. n : f[k] = Item(f[k - 1], items[k], file)
           T == {n \in 0 .. N : \E f : Is(f, n)}
<1>1. 0 \in T
  <2>1. Is([k \in 0 .. 0 |-> s], 0)
    OBVIOUS
  <2> HIDE DEF Is
  <2> QED
    BY <2>1
<1>2. ASSUME NEW n \in 1 .. N, n - 1 \in T PROVE n \in T
  <2>1. PICK f : Is(f, n - 1)
    BY <1>2
  <2> DEFINE g == [k \in 0 .. n |-> IF k = n THEN Item(f[n - 1], items[n], file) ELSE f[k]]
  <2>2. Is(g, n)
    <3>1. n - 1 \in Nat /\ n \in Nat \ {0} /\ g[0] = f[0] /\ g[n - 1] = f[n - 1]
      OBVIOUS
    <3>2. ASSUME NEW k \in 1 .. n PROVE g[k] = Item(g[k - 1], items[k], file)
      <4>1. CASE k = n
        BY <3>1, <4>1
      <4>2. CASE k # n
        <5>1. k \in 1 .. n - 1 /\ k - 1 \in 0 .. n - 1 /\ k - 1 # n
          BY <4>2
        <5>2. g[k] = f[k] /\ g[k - 1] = f[k - 1]
          BY <4>2, <5>1
        <5>3. f[k] = Item(f[k - 1], items[k], file)
          BY <2>1, <5>1
        <5> QED
          BY <5>2, <5>3
      <4> QED
        BY <4>1, <4>2
    <3>3. g = [k \in 0 .. n |-> g[k]] /\ g[0] = s
      BY <2>1, <3>1
    <3> HIDE DEF g
    <3> QED
      BY <3>2, <3>3
  <2> HIDE DEF Is, g
  <2> QED
    BY <2>2
<1>3. PICK f : Is(f, N)
  <2> HIDE DEF Is
  <2>1. N \in T
    <3> HIDE DEF T
    <3>1. 0 .. N \subseteq T
      BY <1>1, <1>2, UpTo
    <3> QED
      BY <3>1
  <2> QED
    BY <2>1
<1> DEFINE F(h) == [k \in 0 .. N |-> IF k = 0 THEN s ELSE Item(h[k - 1], items[k], file)]
           read == CHOOSE h : h = F(h)
<1>4. Parse(s, items, file) = read[N]
  BY DEF Parse
<1>5. read = F(read)
  <2>1. f = F(f)
    <3>1. \A k \in 0 .. N : f[k] = IF k = 0 THEN s ELSE Item(f[k - 1], items[k], file)
      <4> TAKE k \in 0 .. N
      <4>1. CASE k = 0
        BY <1>3, <4>1
      <4>2. CASE k # 0
        <5>1. k \in 1 .. N
          BY <4>2
        <5>2. f[k] = Item(f[k - 1], items[k], file)
          BY <1>3, <5>1
        <5> QED
          BY <4>2, <5>2
      <4> QED
        BY <4>1, <4>2
    <3>2. f = [k \in 0 .. N |-> f[k]]
      BY <1>3
    <3> QED
      BY <3>1, <3>2
  <2> HIDE DEF F
  <2> QED
    BY <2>1
<1> HIDE DEF read
<1>6. \A k \in 0 .. N : read[k] = IF k = 0 THEN s ELSE Item(read[k - 1], items[k], file)
  BY <1>5
<1>7. read[0] = s /\ \A k \in 1 .. N : read[k] = Item(read[k - 1], items[k], file)
  BY <1>6
<1> QED
  BY <1>4, <1>7

LEMMA XmlModelsSteps ==
    ASSUME NEW s, NEW models, NEW file, NEW N \in Nat, N = Len(models)
    PROVE  \E f : /\ f[0] = s
                  /\ \A k \in 1 .. N : f[k] = XmlModel(f[k - 1], models[k], file)
                  /\ XmlModels(s, models, file) = f[N]
<1> DEFINE Is(f, n) == /\ f = [k \in 0 .. n |-> f[k]]
                       /\ f[0] = s
                       /\ \A k \in 1 .. n : f[k] = XmlModel(f[k - 1], models[k], file)
           T == {n \in 0 .. N : \E f : Is(f, n)}
<1>1. 0 \in T
  <2>1. Is([k \in 0 .. 0 |-> s], 0)
    OBVIOUS
  <2> HIDE DEF Is
  <2> QED
    BY <2>1
<1>2. ASSUME NEW n \in 1 .. N, n - 1 \in T PROVE n \in T
  <2>1. PICK f : Is(f, n - 1)
    BY <1>2
  <2> DEFINE g == [k \in 0 .. n |-> IF k = n THEN XmlModel(f[n - 1], models[n], file) ELSE f[k]]
  <2>2. Is(g, n)
    <3>1. n - 1 \in Nat /\ n \in Nat \ {0} /\ g[0] = f[0] /\ g[n - 1] = f[n - 1]
      OBVIOUS
    <3>2. ASSUME NEW k \in 1 .. n PROVE g[k] = XmlModel(g[k - 1], models[k], file)
      <4>1. CASE k = n
        BY <3>1, <4>1
      <4>2. CASE k # n
        <5>1. k \in 1 .. n - 1 /\ k - 1 \in 0 .. n - 1 /\ k - 1 # n
          BY <4>2
        <5>2. g[k] = f[k] /\ g[k - 1] = f[k - 1]
          BY <4>2, <5>1
        <5>3. f[k] = XmlModel(f[k - 1], models[k], file)
          BY <2>1, <5>1
        <5> QED
          BY <5>2, <5>3
      <4> QED
        BY <4>1, <4>2
    <3>3. g = [k \in 0 .. n |-> g[k]] /\ g[0] = s
      BY <2>1, <3>1
    <3> HIDE DEF g
    <3> QED
      BY <3>2, <3>3
  <2> HIDE DEF Is, g
  <2> QED
    BY <2>2
<1>3. PICK f : Is(f, N)
  <2> HIDE DEF Is
  <2>1. N \in T
    <3> HIDE DEF T
    <3>1. 0 .. N \subseteq T
      BY <1>1, <1>2, UpTo
    <3> QED
      BY <3>1
  <2> QED
    BY <2>1
<1> DEFINE F(h) == [k \in 0 .. N |-> IF k = 0 THEN s ELSE XmlModel(h[k - 1], models[k], file)]
           read == CHOOSE h : h = F(h)
<1>4. XmlModels(s, models, file) = read[N]
  BY DEF XmlModels
<1>5. read = F(read)
  <2>1. f = F(f)
    <3>1. \A k \in 0 .. N : f[k] = IF k = 0 THEN s ELSE XmlModel(f[k - 1], models[k], file)
      <4> TAKE k \in 0 .. N
      <4>1. CASE k = 0
        BY <1>3, <4>1
      <4>2. CASE k # 0
        <5>1. k \in 1 .. N
          BY <4>2
        <5>2. f[k] = XmlModel(f[k - 1], models[k], file)
          BY <1>3, <5>1
        <5> QED
          BY <4>2, <5>2
      <4> QED
        BY <4>1, <4>2
    <3>2. f = [k \in 0 .. N |-> f[k]]
      BY <1>3
    <3> QED
      BY <3>1, <3>2
  <2> HIDE DEF F
  <2> QED
    BY <2>1
<1> HIDE DEF read
<1>6. \A k \in 0 .. N : read[k] = IF k = 0 THEN s ELSE XmlModel(read[k - 1], models[k], file)
  BY <1>5
<1>7. read[0] = s /\ \A k \in 1 .. N : read[k] = XmlModel(read[k - 1], models[k], file)
  BY <1>6
<1> QED
  BY <1>4, <1>7

LEMMA XmlStringsSteps ==
    ASSUME NEW s, NEW strings, NEW N \in Nat, N = Len(strings)
    PROVE  \E f : /\ f[0] = s
                  /\ \A k \in 1 .. N : f[k] = XmlStrings(f[k - 1], strings[k])
                  /\ AllXmlStrings(s, strings) = f[N]
<1> DEFINE Is(f, n) == /\ f = [k \in 0 .. n |-> f[k]]
                       /\ f[0] = s
                       /\ \A k \in 1 .. n : f[k] = XmlStrings(f[k - 1], strings[k])
           T == {n \in 0 .. N : \E f : Is(f, n)}
<1>1. 0 \in T
  <2>1. Is([k \in 0 .. 0 |-> s], 0)
    OBVIOUS
  <2> HIDE DEF Is
  <2> QED
    BY <2>1
<1>2. ASSUME NEW n \in 1 .. N, n - 1 \in T PROVE n \in T
  <2>1. PICK f : Is(f, n - 1)
    BY <1>2
  <2> DEFINE g == [k \in 0 .. n |-> IF k = n THEN XmlStrings(f[n - 1], strings[n]) ELSE f[k]]
  <2>2. Is(g, n)
    <3>1. n - 1 \in Nat /\ n \in Nat \ {0} /\ g[0] = f[0] /\ g[n - 1] = f[n - 1]
      OBVIOUS
    <3>2. ASSUME NEW k \in 1 .. n PROVE g[k] = XmlStrings(g[k - 1], strings[k])
      <4>1. CASE k = n
        BY <3>1, <4>1
      <4>2. CASE k # n
        <5>1. k \in 1 .. n - 1 /\ k - 1 \in 0 .. n - 1 /\ k - 1 # n
          BY <4>2
        <5>2. g[k] = f[k] /\ g[k - 1] = f[k - 1]
          BY <4>2, <5>1
        <5>3. f[k] = XmlStrings(f[k - 1], strings[k])
          BY <2>1, <5>1
        <5> QED
          BY <5>2, <5>3
      <4> QED
        BY <4>1, <4>2
    <3>3. g = [k \in 0 .. n |-> g[k]] /\ g[0] = s
      BY <2>1, <3>1
    <3> HIDE DEF g
    <3> QED
      BY <3>2, <3>3
  <2> HIDE DEF Is, g
  <2> QED
    BY <2>2
<1>3. PICK f : Is(f, N)
  <2> HIDE DEF Is
  <2>1. N \in T
    <3> HIDE DEF T
    <3>1. 0 .. N \subseteq T
      BY <1>1, <1>2, UpTo
    <3> QED
      BY <3>1
  <2> QED
    BY <2>1
<1> DEFINE F(h) == [k \in 0 .. N |-> IF k = 0 THEN s ELSE XmlStrings(h[k - 1], strings[k])]
           read == CHOOSE h : h = F(h)
<1>4. AllXmlStrings(s, strings) = read[N]
  BY DEF AllXmlStrings
<1>5. read = F(read)
  <2>1. f = F(f)
    <3>1. \A k \in 0 .. N : f[k] = IF k = 0 THEN s ELSE XmlStrings(f[k - 1], strings[k])
      <4> TAKE k \in 0 .. N
      <4>1. CASE k = 0
        BY <1>3, <4>1
      <4>2. CASE k # 0
        <5>1. k \in 1 .. N
          BY <4>2
        <5>2. f[k] = XmlStrings(f[k - 1], strings[k])
          BY <1>3, <5>1
        <5> QED
          BY <4>2, <5>2
      <4> QED
        BY <4>1, <4>2
    <3>2. f = [k \in 0 .. N |-> f[k]]
      BY <1>3
    <3> QED
      BY <3>1, <3>2
  <2> HIDE DEF F
  <2> QED
    BY <2>1
<1> HIDE DEF read
<1>6. \A k \in 0 .. N : read[k] = IF k = 0 THEN s ELSE XmlStrings(read[k - 1], strings[k])
  BY <1>5
<1>7. read[0] = s /\ \A k \in 1 .. N : read[k] = XmlStrings(read[k - 1], strings[k])
  BY <1>6
<1> QED
  BY <1>4, <1>7

LEMMA FilesOfSteps ==
    ASSUME NEW names, NEW suffixes, NEW N \in Nat, N = Len(names)
    PROVE  \E f : /\ f[0] = <<>>
                  /\ \A k \in 1 .. N : f[k] = Filtered(f[k - 1], names[k], suffixes)
                  /\ FilesOf(names, suffixes) = f[N]
<1> DEFINE Is(f, n) == /\ f = [k \in 0 .. n |-> f[k]]
                       /\ f[0] = <<>>
                       /\ \A k \in 1 .. n : f[k] = Filtered(f[k - 1], names[k], suffixes)
           T == {n \in 0 .. N : \E f : Is(f, n)}
<1>1. 0 \in T
  <2>1. Is([k \in 0 .. 0 |-> <<>>], 0)
    OBVIOUS
  <2> HIDE DEF Is
  <2> QED
    BY <2>1
<1>2. ASSUME NEW n \in 1 .. N, n - 1 \in T PROVE n \in T
  <2>1. PICK f : Is(f, n - 1)
    BY <1>2
  <2> DEFINE g == [k \in 0 .. n |-> IF k = n THEN Filtered(f[n - 1], names[n], suffixes) ELSE f[k]]
  <2>2. Is(g, n)
    <3>1. n - 1 \in Nat /\ n \in Nat \ {0} /\ g[0] = f[0] /\ g[n - 1] = f[n - 1]
      OBVIOUS
    <3>2. ASSUME NEW k \in 1 .. n PROVE g[k] = Filtered(g[k - 1], names[k], suffixes)
      <4>1. CASE k = n
        BY <3>1, <4>1
      <4>2. CASE k # n
        <5>1. k \in 1 .. n - 1 /\ k - 1 \in 0 .. n - 1 /\ k - 1 # n
          BY <4>2
        <5>2. g[k] = f[k] /\ g[k - 1] = f[k - 1]
          BY <4>2, <5>1
        <5>3. f[k] = Filtered(f[k - 1], names[k], suffixes)
          BY <2>1, <5>1
        <5> QED
          BY <5>2, <5>3
      <4> QED
        BY <4>1, <4>2
    <3>3. g = [k \in 0 .. n |-> g[k]] /\ g[0] = <<>>
      BY <2>1, <3>1
    <3> HIDE DEF g
    <3> QED
      BY <3>2, <3>3
  <2> HIDE DEF Is, g
  <2> QED
    BY <2>2
<1>3. PICK f : Is(f, N)
  <2> HIDE DEF Is
  <2>1. N \in T
    <3> HIDE DEF T
    <3>1. 0 .. N \subseteq T
      BY <1>1, <1>2, UpTo
    <3> QED
      BY <3>1
  <2> QED
    BY <2>1
<1> DEFINE F(h) == [k \in 0 .. N |->
               IF k = 0 THEN <<>>
               ELSE Filtered(h[k - 1], names[k], suffixes)]
           read == CHOOSE h : h = F(h)
<1>4. FilesOf(names, suffixes) = read[N]
  BY DEF FilesOf
<1>5. read = F(read)
  <2>1. f = F(f)
    <3>1. \A k \in 0 .. N : f[k] =
               IF k = 0 THEN <<>>
               ELSE Filtered(f[k - 1], names[k], suffixes)
      <4> TAKE k \in 0 .. N
      <4>1. CASE k = 0
        BY <1>3, <4>1
      <4>2. CASE k # 0
        <5>1. k \in 1 .. N
          BY <4>2
        <5>2. f[k] = Filtered(f[k - 1], names[k], suffixes)
          BY <1>3, <5>1
        <5> QED
          BY <4>2, <5>2
      <4> QED
        BY <4>1, <4>2
    <3>2. f = [k \in 0 .. N |-> f[k]]
      BY <1>3
    <3> QED
      BY <3>1, <3>2
  <2> HIDE DEF F
  <2> QED
    BY <2>1
<1> HIDE DEF read
<1>6. \A k \in 0 .. N : read[k] =
           IF k = 0 THEN <<>>
           ELSE Filtered(read[k - 1], names[k], suffixes)
  BY <1>5
<1>7. read[0] = <<>> /\ \A k \in 1 .. N : read[k] = Filtered(read[k - 1], names[k], suffixes)
  BY <1>6
<1> QED
  BY <1>4, <1>7

-----------------------------------------------------------------------------
\* Models

StateFields == {"models", "did_list", "model_list", "define_list", "data"}
ModelFields == {"name", "dp_blocks", "defines", "len", "base_len", "fills", "file"}
DidFields   == {"did", "model", "name"}
BlockFields == {"repeating", "dps", "len"}

IsBlock(b) == DOMAIN b = BlockFields /\ b.len \in Nat /\ IsPoints(b.dps)
IsModel(m) ==
    /\ DOMAIN m = ModelFields
    /\ IsSequence(m.dp_blocks)
    /\ \A b \in DOMAIN m.dp_blocks : IsBlock(m.dp_blocks[b])

\* A block, a model whose points have their places.
Laid(block) == \A k \in DOMAIN block.dps : block.dps[k].offset >= 0
AllLaid(m)  == \A b \in DOMAIN m.dp_blocks : Laid(m.dp_blocks[b])

LEMMA RegistersNat ==
    ASSUME NEW dp, IsPoint(dp) PROVE Registers(dp) \in Nat
<1>1. dp.len \in Nat /\ (dp.len + 1) \div 2 \in Nat
  BY DEF IsPoint
<1>2. TypeSize(dp.type) \in {0, 2, 4, 8}
  BY DEF TypeSize
<1>3. TypeSize(dp.type) \div 2 \in Nat
  BY <1>2
<1> QED
  BY <1>1, <1>3 DEF Registers

LEMMA FillPointKeeps ==
    ASSUME NEW block, IsBlock(block), Laid(block), NEW dp, IsPoint(dp)
    PROVE  IsBlock(FillPoint(block, dp)) /\ Laid(FillPoint(block, dp))
<1> DEFINE at == IF dp.offset > 0 THEN dp.offset ELSE block.len
           point == [dp EXCEPT !.offset = at]
           u == FillPoint(block, dp)
<1>1. at \in Nat
  BY DEF IsBlock, IsPoint
<1>2. IsPoint(point) /\ point.offset = at
  BY <1>1 DEF IsPoint, PointFields
<1> HIDE DEF at, point
<1>3. at + Registers(dp) \in Nat
  BY <1>1, RegistersNat
<1>4. u = [block EXCEPT !.dps = Append(block.dps, point), !.len = at + Registers(dp)]
  BY DEF FillPoint, at, point
<1>5. DOMAIN u = BlockFields /\ u.dps = Append(block.dps, point) /\ u.len = at + Registers(dp)
  BY <1>4 DEF IsBlock, BlockFields
<1> HIDE DEF u
<1>6. IsSequence(block.dps) /\ DOMAIN block.dps = 1 .. Len(block.dps) /\ Len(block.dps) \in Nat
  BY SequenceFacts DEF IsBlock, IsPoints
<1>7. /\ IsSequence(u.dps) /\ DOMAIN u.dps = 1 .. Len(block.dps) + 1
      /\ \A k \in 1 .. Len(block.dps) : u.dps[k] = block.dps[k]
      /\ u.dps[Len(block.dps) + 1] = point
  BY <1>5, <1>6, AppendFacts, SequenceFacts
<1>8. ASSUME NEW k \in DOMAIN u.dps PROVE IsPoint(u.dps[k]) /\ u.dps[k].offset >= 0
  <2>1. CASE k \in 1 .. Len(block.dps)
    <3>1. u.dps[k] = block.dps[k]
      BY <1>7, <2>1
    <3> QED
      BY <1>6, <2>1, <3>1 DEF IsBlock, IsPoints, Laid
  <2>2. CASE k = Len(block.dps) + 1
    BY <1>1, <1>2, <1>7, <2>2
  <2> QED
    BY <1>6, <1>7, <2>1, <2>2
<1> QED
  BY <1>3, <1>5, <1>7, <1>8 DEF IsBlock, IsPoints, Laid, u

LEMMA FillBlockFills ==
    ASSUME NEW block, IsBlock(block)
    PROVE  IsBlock(FillBlock(block)) /\ Laid(FillBlock(block))
<1> DEFINE N == Len(block.dps)
<1>1. N \in Nat /\ DOMAIN block.dps = 1 .. N
  BY SequenceFacts DEF IsBlock, IsPoints
<1>2. PICK f : /\ f[0] = [block EXCEPT !.dps = <<>>, !.len = 0]
               /\ \A k \in 1 .. N : f[k] = FillPoint(f[k - 1], block.dps[k])
               /\ FillBlock(block) = f[N]
  BY <1>1, FillBlockSteps
<1> DEFINE T == {k \in 0 .. N : IsBlock(f[k]) /\ Laid(f[k])}
<1>3. 0 \in T
  <2>1. DOMAIN f[0] = BlockFields /\ f[0].dps = <<>> /\ f[0].len = 0
    BY <1>2 DEF IsBlock, BlockFields
  <2> QED
    BY <1>1, <2>1, EmptyIsSequence DEF IsBlock, IsPoints, Laid
<1>4. ASSUME NEW k \in 1 .. N, k - 1 \in T PROVE k \in T
  <2>1. IsPoint(block.dps[k])
    BY <1>1 DEF IsBlock, IsPoints
  <2>2. f[k] = FillPoint(f[k - 1], block.dps[k])
    BY <1>2
  <2>3. IsBlock(f[k]) /\ Laid(f[k])
    BY <1>4, <2>1, <2>2, FillPointKeeps
  <2> QED
    BY <2>3
<1>5. N \in T
  <2> HIDE DEF T, N
  <2>1. 0 .. N \subseteq T
    BY <1>1, <1>3, <1>4, UpTo
  <2> QED
    BY <1>1, <2>1
<1> QED
  BY <1>2, <1>5

LEMMA AddFilledKeeps ==
    ASSUME NEW m, IsModel(m), AllLaid(m), NEW block, IsBlock(block)
    PROVE  /\ IsModel(AddFilled(m, block)) /\ AllLaid(AddFilled(m, block))
           /\ AddFilled(m, block).fills = m.fills
           /\ AddFilled(m, block).file = m.file
<1> DEFINE c == FillBlock(block)
           u == AddFilled(m, block)
           base == m.base_len + IF c.repeating THEN 0 ELSE c.len
           total == m.len + c.len
<1>1. IsBlock(c) /\ Laid(c)
  BY FillBlockFills
<1>2. u = [m EXCEPT !.dp_blocks = Append(m.dp_blocks, c), !.base_len = base, !.len = total]
  BY DEF AddFilled
<1> HIDE DEF c, base, total
<1>3. /\ DOMAIN u = ModelFields /\ u.dp_blocks = Append(m.dp_blocks, c)
      /\ u.fills = m.fills /\ u.file = m.file
  BY <1>2 DEF IsModel, ModelFields
<1> HIDE DEF u
<1>4. /\ IsSequence(m.dp_blocks) /\ Len(m.dp_blocks) \in Nat
      /\ DOMAIN m.dp_blocks = 1 .. Len(m.dp_blocks)
  BY SequenceFacts DEF IsModel
<1>5. /\ IsSequence(u.dp_blocks) /\ DOMAIN u.dp_blocks = 1 .. Len(m.dp_blocks) + 1
      /\ \A b \in 1 .. Len(m.dp_blocks) : u.dp_blocks[b] = m.dp_blocks[b]
      /\ u.dp_blocks[Len(m.dp_blocks) + 1] = c
  BY <1>3, <1>4, AppendFacts, SequenceFacts
<1>6. ASSUME NEW b \in DOMAIN u.dp_blocks PROVE IsBlock(u.dp_blocks[b]) /\ Laid(u.dp_blocks[b])
  <2>1. CASE b \in 1 .. Len(m.dp_blocks)
    <3>1. u.dp_blocks[b] = m.dp_blocks[b]
      BY <1>5, <2>1
    <3> QED
      BY <1>4, <2>1, <3>1 DEF IsModel, AllLaid
  <2>2. CASE b = Len(m.dp_blocks) + 1
    BY <1>1, <1>5, <2>2
  <2> QED
    BY <1>4, <1>5, <2>1, <2>2
<1>7. IsModel(u) /\ AllLaid(u)
  BY <1>3, <1>5, <1>6 DEF IsModel, AllLaid
<1> QED
  BY <1>3, <1>7 DEF u

LEMMA FillOffsetsFills ==
    ASSUME NEW m, IsModel(m)
    PROVE  /\ IsModel(FillOffsets(m)) /\ AllLaid(FillOffsets(m))
           /\ FillOffsets(m).fills = m.fills + 1
           /\ FillOffsets(m).file = m.file
<1> DEFINE N == Len(m.dp_blocks)
<1>1. N \in Nat /\ DOMAIN m.dp_blocks = 1 .. N
  BY SequenceFacts DEF IsModel
<1>2. PICK f : /\ f[0] = [m EXCEPT !.dp_blocks = <<>>, !.fills = @ + 1]
               /\ \A k \in 1 .. N : f[k] = AddFilled(f[k - 1], m.dp_blocks[k])
               /\ FillOffsets(m) = f[N]
  BY <1>1, FillOffsetsSteps
<1> DEFINE Good(n) == IsModel(n) /\ AllLaid(n) /\ n.fills = m.fills + 1 /\ n.file = m.file
           T == {k \in 0 .. N : Good(f[k])}
<1>3. 0 \in T
  <2>1. DOMAIN f[0] = ModelFields /\ f[0].dp_blocks = <<>> /\ f[0].fills = m.fills + 1
        /\ f[0].file = m.file
    BY <1>2 DEF IsModel, ModelFields
  <2> QED
    BY <1>1, <2>1, EmptyIsSequence DEF IsModel, AllLaid
<1>4. ASSUME NEW k \in 1 .. N, k - 1 \in T PROVE k \in T
  <2>1. IsBlock(m.dp_blocks[k])
    BY <1>1 DEF IsModel
  <2>2. f[k] = AddFilled(f[k - 1], m.dp_blocks[k])
    BY <1>2
  <2>3. Good(f[k])
    BY <1>4, <2>1, <2>2, AddFilledKeeps
  <2> QED
    BY <2>3
<1>5. N \in T
  <2> HIDE DEF T, N
  <2>1. 0 .. N \subseteq T
    BY <1>1, <1>3, <1>4, UpTo
  <2> QED
    BY <1>1, <2>1
<1> QED
  BY <1>2, <1>5

LEMMA Rewritten ==
    ASSUME NEW m, IsModel(m), NEW u,
           DOMAIN u = ModelFields,
           u.dp_blocks = [b \in DOMAIN m.dp_blocks |-> u.dp_blocks[b]],
           \A b \in DOMAIN m.dp_blocks :
              /\ DOMAIN u.dp_blocks[b] = BlockFields
              /\ u.dp_blocks[b].len = m.dp_blocks[b].len
              /\ u.dp_blocks[b].dps = [k \in DOMAIN m.dp_blocks[b].dps |-> u.dp_blocks[b].dps[k]]
              /\ \A k \in DOMAIN m.dp_blocks[b].dps : IsPoint(u.dp_blocks[b].dps[k])
    PROVE  IsModel(u)
<1>1. PICK n \in Nat : DOMAIN m.dp_blocks = 1 .. n
  BY SequenceFacts DEF IsModel
<1>2. IsSequence(u.dp_blocks) /\ DOMAIN u.dp_blocks = 1 .. n
  <2>1. u.dp_blocks = [b \in 1 .. n |-> u.dp_blocks[b]]
    BY <1>1
  <2> QED
    BY <2>1, MapIsSequence, SequenceFacts
<1>3. ASSUME NEW b \in 1 .. n PROVE IsBlock(u.dp_blocks[b])
  <2>1. IsBlock(m.dp_blocks[b])
    BY <1>1 DEF IsModel
  <2>2. PICK h \in Nat : DOMAIN m.dp_blocks[b].dps = 1 .. h
    BY <2>1, SequenceFacts DEF IsBlock, IsPoints
  <2>3. u.dp_blocks[b].dps = [k \in 1 .. h |-> u.dp_blocks[b].dps[k]]
    BY <1>1, <2>2
  <2>4. IsSequence(u.dp_blocks[b].dps) /\ DOMAIN u.dp_blocks[b].dps = 1 .. h
    BY <2>3, MapIsSequence, SequenceFacts
  <2>5. \A k \in 1 .. h : IsPoint(u.dp_blocks[b].dps[k])
    BY <1>1, <2>2
  <2>6. DOMAIN u.dp_blocks[b] = BlockFields /\ u.dp_blocks[b].len \in Nat
    BY <1>1, <2>1 DEF IsBlock
  <2> QED
    BY <2>4, <2>5, <2>6 DEF IsBlock, IsPoints
<1> QED
  BY <1>2, <1>3 DEF IsModel

LEMMA ResolveKeeps ==
    ASSUME NEW s, NEW m, IsModel(m)
    PROVE  /\ IsModel(ResolveDefines(s, m))
           /\ ResolveDefines(s, m).fills = m.fills
           /\ ResolveDefines(s, m).file = m.file
<1> DEFINE g(dp) == IF IsSymbolic(dp.type) /\ dp.ref # NULL
                    THEN [dp EXCEPT !.define =
                            IF Contains(m.defines, dp.ref) THEN "own" ELSE
                            IF Contains(s.define_list, dp.ref) THEN "global" ELSE NULL]
                    ELSE dp
           u == ResolveDefines(s, m)
<1>1. ASSUME NEW dp, IsPoint(dp) PROVE IsPoint(g(dp))
  BY <1>1 DEF IsPoint, PointFields
<1>2. u = [m EXCEPT !.dp_blocks =
              [b \in DOMAIN m.dp_blocks |-> [m.dp_blocks[b] EXCEPT !.dps =
                  [k \in DOMAIN m.dp_blocks[b].dps |-> g(m.dp_blocks[b].dps[k])]]]]
  BY DEF ResolveDefines, WithPoints
<1> HIDE DEF g, u
<1>3. /\ DOMAIN u = ModelFields /\ u.fills = m.fills /\ u.file = m.file
      /\ u.dp_blocks = [b \in DOMAIN m.dp_blocks |-> [m.dp_blocks[b] EXCEPT !.dps =
            [k \in DOMAIN m.dp_blocks[b].dps |-> g(m.dp_blocks[b].dps[k])]]]
  BY <1>2 DEF IsModel, ModelFields
<1>4. ASSUME NEW b \in DOMAIN m.dp_blocks
      PROVE  /\ DOMAIN u.dp_blocks[b] = BlockFields
             /\ u.dp_blocks[b].len = m.dp_blocks[b].len
             /\ u.dp_blocks[b].dps = [k \in DOMAIN m.dp_blocks[b].dps |-> g(m.dp_blocks[b].dps[k])]
             /\ \A k \in DOMAIN m.dp_blocks[b].dps : IsPoint(m.dp_blocks[b].dps[k])
  BY <1>3 DEF IsModel, IsBlock, IsPoints, BlockFields
<1>5. ASSUME NEW b \in DOMAIN m.dp_blocks
      PROVE  /\ u.dp_blocks[b].dps = [k \in DOMAIN m.dp_blocks[b].dps |-> u.dp_blocks[b].dps[k]]
             /\ \A k \in DOMAIN m.dp_blocks[b].dps : IsPoint(u.dp_blocks[b].dps[k])
  <2>1. PICK old : old = m.dp_blocks[b].dps
    OBVIOUS
  <2>2. PICK new : new = u.dp_blocks[b].dps
    OBVIOUS
  <2>3. new = [k \in DOMAIN old |-> g(old[k])] /\ \A k \in DOMAIN old : IsPoint(old[k])
    BY <1>4, <2>1, <2>2
  <2>4. new = [k \in DOMAIN old |-> new[k]] /\ \A k \in DOMAIN old : new[k] = g(old[k])
    BY <2>3
  <2>5. \A k \in DOMAIN old : IsPoint(new[k])
    BY <1>1, <2>3, <2>4
  <2> QED
    BY <2>1, <2>2, <2>4, <2>5
<1>6. u.dp_blocks = [b \in DOMAIN m.dp_blocks |-> u.dp_blocks[b]]
  BY <1>3
<1>7. IsModel(u)
  BY <1>3, <1>4, <1>5, <1>6, Rewritten
<1> QED
  BY <1>3, <1>7 DEF u

LEMMA LabelledKeeps ==
    ASSUME NEW m, IsModel(m), NEW points
    PROVE  /\ IsModel(Labelled(m, points))
           /\ Labelled(m, points).fills = m.fills
           /\ Labelled(m, points).file = m.file
<1> DEFINE mine(at) == SelectInSeq(points, LAMBDA p : p.label # NULL /\ Place(m, p.id) = at)
           g(dp, at) == IF mine(at) = 0 \/ dp.label # NULL THEN dp
                        ELSE [dp EXCEPT !.label = points[mine(at)].label]
           u == Labelled(m, points)
<1>1. ASSUME NEW dp, IsPoint(dp), NEW at PROVE IsPoint(g(dp, at))
  BY <1>1 DEF IsPoint, PointFields
<1>2. u = [m EXCEPT !.dp_blocks =
              [b \in DOMAIN m.dp_blocks |-> [m.dp_blocks[b] EXCEPT !.dps =
                  [k \in DOMAIN m.dp_blocks[b].dps |-> g(m.dp_blocks[b].dps[k], <<b, k>>)]]]]
  BY DEF Labelled, WithPoints
<1> HIDE DEF g, u, mine
<1>3. /\ DOMAIN u = ModelFields /\ u.fills = m.fills /\ u.file = m.file
      /\ u.dp_blocks = [b \in DOMAIN m.dp_blocks |-> [m.dp_blocks[b] EXCEPT !.dps =
            [k \in DOMAIN m.dp_blocks[b].dps |-> g(m.dp_blocks[b].dps[k], <<b, k>>)]]]
  BY <1>2 DEF IsModel, ModelFields
<1>4. ASSUME NEW b \in DOMAIN m.dp_blocks
      PROVE  /\ DOMAIN u.dp_blocks[b] = BlockFields
             /\ u.dp_blocks[b].len = m.dp_blocks[b].len
             /\ u.dp_blocks[b].dps = [k \in DOMAIN m.dp_blocks[b].dps |-> g(m.dp_blocks[b].dps[k], <<b, k>>)]
             /\ \A k \in DOMAIN m.dp_blocks[b].dps : IsPoint(m.dp_blocks[b].dps[k])
  BY <1>3 DEF IsModel, IsBlock, IsPoints, BlockFields
<1>5. ASSUME NEW b \in DOMAIN m.dp_blocks
      PROVE  /\ u.dp_blocks[b].dps = [k \in DOMAIN m.dp_blocks[b].dps |-> u.dp_blocks[b].dps[k]]
             /\ \A k \in DOMAIN m.dp_blocks[b].dps : IsPoint(u.dp_blocks[b].dps[k])
  <2>1. PICK old : old = m.dp_blocks[b].dps
    OBVIOUS
  <2>2. PICK new : new = u.dp_blocks[b].dps
    OBVIOUS
  <2>3. new = [k \in DOMAIN old |-> g(old[k], <<b, k>>)] /\ \A k \in DOMAIN old : IsPoint(old[k])
    BY <1>4, <2>1, <2>2
  <2>4. new = [k \in DOMAIN old |-> new[k]] /\ \A k \in DOMAIN old : new[k] = g(old[k], <<b, k>>)
    BY <2>3
  <2>5. \A k \in DOMAIN old : IsPoint(new[k])
    BY <1>1, <2>3, <2>4
  <2> QED
    BY <2>1, <2>2, <2>4, <2>5
<1>6. u.dp_blocks = [b \in DOMAIN m.dp_blocks |-> u.dp_blocks[b]]
  BY <1>3
<1>7. IsModel(u)
  BY <1>3, <1>4, <1>5, <1>6, Rewritten
<1> QED
  BY <1>3, <1>7 DEF u

-----------------------------------------------------------------------------
\* The global parser state

IsState(s) ==
    /\ DOMAIN s = StateFields
    /\ IsSequence(s.models) /\ \A i \in DOMAIN s.models : IsModel(s.models[i])
    /\ IsSequence(s.did_list)
    /\ \A d \in DOMAIN s.did_list :
          DOMAIN s.did_list[d] = DidFields /\ s.did_list[d].model \in DOMAIN s.models
    /\ IsSequence(s.model_list)
    /\ \A k \in DOMAIN s.model_list : s.model_list[k] \in DOMAIN s.models
    /\ \A k, n \in DOMAIN s.model_list : s.model_list[k] = s.model_list[n] => k = n

\* From s to t a file adds models and dids, and no did to the first n models;
\* what was there stays, up to names and labels.
Grows(s, t, file, n) ==
    /\ IsState(t)
    /\ Len(s.models) <= Len(t.models)
    /\ \A i \in DOMAIN t.models :
          IF i \in DOMAIN s.models
          THEN t.models[i].file = s.models[i].file /\ t.models[i].fills = s.models[i].fills
          ELSE t.models[i].file = file /\ t.models[i].fills = 0
    /\ Len(s.did_list) <= Len(t.did_list)
    /\ \A d \in DOMAIN t.did_list :
          IF d \in DOMAIN s.did_list
          THEN /\ t.did_list[d].did = s.did_list[d].did
               /\ t.did_list[d].model = s.did_list[d].model
          ELSE t.did_list[d].model > n
    /\ Len(s.model_list) <= Len(t.model_list)
    /\ \A k \in DOMAIN s.model_list : t.model_list[k] = s.model_list[k]

Knows(s, did) == \E d \in DOMAIN s.did_list : s.did_list[d].did = did

\* All models a did leads to are in the model_list.
Indexed(s) ==
    \A d \in DOMAIN s.did_list : \E k \in DOMAIN s.model_list :
        s.model_list[k] = s.did_list[d].model

\* No offsets have been filled in.
Unfilled(s) == \A i \in DOMAIN s.models : s.models[i].fills = 0

LEMMA StateFacts ==
    ASSUME NEW s, IsState(s)
    PROVE  /\ Len(s.models) \in Nat /\ DOMAIN s.models = 1 .. Len(s.models)
           /\ Len(s.did_list) \in Nat /\ DOMAIN s.did_list = 1 .. Len(s.did_list)
           /\ Len(s.model_list) \in Nat /\ DOMAIN s.model_list = 1 .. Len(s.model_list)
  BY SequenceFacts DEF IsState

LEMMA GrowsReflexive ==
    ASSUME NEW s, IsState(s), NEW file, NEW n PROVE Grows(s, s, file, n)
  BY StateFacts DEF Grows

LEMMA GrowsTransitive ==
    ASSUME NEW s, IsState(s), NEW t, NEW u, NEW file, NEW n,
           Grows(s, t, file, n), Grows(t, u, file, n)
    PROVE  Grows(s, u, file, n)
<1>1. IsState(t) /\ IsState(u)
  BY DEF Grows
<1>2. PICK a \in Nat : a = Len(s.models) /\ DOMAIN s.models = 1 .. a
  BY StateFacts
<1>3. PICK b \in Nat : b = Len(t.models) /\ DOMAIN t.models = 1 .. b
  BY <1>1, StateFacts
<1>4. PICK c \in Nat : c = Len(u.models) /\ DOMAIN u.models = 1 .. c
  BY <1>1, StateFacts
<1>5. PICK d \in Nat : d = Len(s.did_list) /\ DOMAIN s.did_list = 1 .. d
  BY StateFacts
<1>6. PICK e \in Nat : e = Len(t.did_list) /\ DOMAIN t.did_list = 1 .. e
  BY <1>1, StateFacts
<1>7. PICK f \in Nat : f = Len(u.did_list) /\ DOMAIN u.did_list = 1 .. f
  BY <1>1, StateFacts
<1>8. PICK g \in Nat : g = Len(s.model_list) /\ DOMAIN s.model_list = 1 .. g
  BY StateFacts
<1>9. PICK h \in Nat : h = Len(t.model_list) /\ DOMAIN t.model_list = 1 .. h
  BY <1>1, StateFacts
<1>10. PICK j \in Nat : j = Len(u.model_list) /\ DOMAIN u.model_list = 1 .. j
  BY <1>1, StateFacts
<1>11. a <= b /\ b <= c /\ d <= e /\ e <= f /\ g <= h /\ h <= j
  BY <1>2, <1>3, <1>4, <1>5, <1>6, <1>7, <1>8, <1>9, <1>10 DEF Grows
<1>12. 1 .. a \subseteq 1 .. b /\ 1 .. d \subseteq 1 .. e /\ 1 .. g \subseteq 1 .. h
  BY <1>11
<1>13. \A i \in DOMAIN u.models :
          IF i \in DOMAIN s.models
          THEN u.models[i].file = s.models[i].file /\ u.models[i].fills = s.models[i].fills
          ELSE u.models[i].file = file /\ u.models[i].fills = 0
  BY <1>2, <1>3, <1>4, <1>12 DEF Grows
<1>14. \A k \in DOMAIN u.did_list :
          IF k \in DOMAIN s.did_list
          THEN /\ u.did_list[k].did = s.did_list[k].did
               /\ u.did_list[k].model = s.did_list[k].model
          ELSE u.did_list[k].model > n
  BY <1>5, <1>6, <1>7, <1>12 DEF Grows
<1>15. \A k \in DOMAIN s.model_list : u.model_list[k] = s.model_list[k]
  BY <1>8, <1>9, <1>10, <1>12 DEF Grows
<1>16. a <= c /\ d <= f /\ g <= j
  BY <1>11
<1> QED
  BY <1>1, <1>2, <1>4, <1>5, <1>7, <1>8, <1>10, <1>13, <1>14, <1>15, <1>16 DEF Grows

LEMMA GrowsKnows ==
    ASSUME NEW s, IsState(s), NEW t, NEW file, NEW n, Grows(s, t, file, n),
           NEW did, Knows(s, did)
    PROVE  Knows(t, did)
<1>1. PICK d \in DOMAIN s.did_list : s.did_list[d].did = did
  BY DEF Knows
<1>2. d \in DOMAIN t.did_list
  <2>1. IsState(t) /\ Len(s.did_list) <= Len(t.did_list)
    BY DEF Grows
  <2> QED
    BY <2>1, StateFacts
<1> QED
  BY <1>1, <1>2 DEF Grows, Knows

LEMMA GrowsUnfilled ==
    ASSUME NEW s, Unfilled(s), NEW t, NEW file, NEW n, Grows(s, t, file, n)
    PROVE  Unfilled(t)
  BY DEF Grows, Unfilled

LEMMA GrowsIndexed ==
    ASSUME NEW s, IsState(s), Indexed(s), NEW t, NEW file, NEW n, Grows(s, t, file, n),
           \A d \in DOMAIN t.did_list \ DOMAIN s.did_list :
              \E k \in DOMAIN t.model_list : t.model_list[k] = t.did_list[d].model
    PROVE  Indexed(t)
<1>1. IsState(t) /\ Len(s.model_list) <= Len(t.model_list)
  BY DEF Grows
<1>2. DOMAIN s.model_list \subseteq DOMAIN t.model_list
  BY <1>1, StateFacts
<1>3. ASSUME NEW d \in DOMAIN s.did_list, d \in DOMAIN t.did_list
      PROVE  \E k \in DOMAIN t.model_list : t.model_list[k] = t.did_list[d].model
  <2>1. PICK k \in DOMAIN s.model_list : s.model_list[k] = s.did_list[d].model
    BY DEF Indexed
  <2> QED
    BY <1>2, <1>3, <2>1 DEF Grows
<1> QED
  BY <1>3 DEF Indexed

\* A predicate, so that the provers find the instances of a lemma about it.
Appended(x, e, y) == y = Append(x, e)

LEMMA ModelReplaced ==
    ASSUME NEW s, IsState(s), NEW i \in DOMAIN s.models,
           NEW m, IsModel(m), m.file = s.models[i].file, m.fills = s.models[i].fills,
           NEW t, DOMAIN t = StateFields, t.models = [s.models EXCEPT ![i] = m],
           t.did_list = s.did_list, t.model_list = s.model_list,
           NEW file, NEW n
    PROVE  Grows(s, t, file, n) /\ DOMAIN t.models = DOMAIN s.models
<1>1. PICK a \in Nat : a = Len(s.models) /\ DOMAIN s.models = 1 .. a
  BY StateFacts
<1>2. \A k \in 1 .. a : t.models[k] = IF k = i THEN m ELSE s.models[k]
  BY <1>1
<1>3. t.models = [k \in 1 .. a |-> t.models[k]]
  BY <1>1
<1>4. IsSequence(t.models) /\ Len(t.models) = a /\ DOMAIN t.models = 1 .. a
  BY <1>3, MapIsSequence
<1>5. \A k \in 1 .. a : /\ IsModel(t.models[k]) /\ t.models[k].file = s.models[k].file
                        /\ t.models[k].fills = s.models[k].fills
  BY <1>1, <1>2 DEF IsState
<1>6. IsState(t)
  BY <1>1, <1>4, <1>5 DEF IsState
<1>7. /\ Len(s.did_list) <= Len(t.did_list) /\ DOMAIN t.did_list = DOMAIN s.did_list
      /\ Len(s.model_list) <= Len(t.model_list)
  BY StateFacts
<1> QED
  BY <1>1, <1>4, <1>5, <1>6, <1>7 DEF Grows

LEMMA ModelAdded ==
    ASSUME NEW s, IsState(s), NEW file,
           NEW m, IsModel(m), m.file = file, m.fills = 0,
           NEW t, DOMAIN t = StateFields, Appended(s.models, m, t.models),
           t.did_list = s.did_list, t.model_list = s.model_list,
           NEW n
    PROVE  Grows(s, t, file, n) /\ Len(t.models) = Len(s.models) + 1
<1>1. PICK a \in Nat : a = Len(s.models) /\ DOMAIN s.models = 1 .. a
  BY StateFacts
<1>2. /\ IsSequence(t.models) /\ Len(t.models) = a + 1
      /\ \A k \in 1 .. a : t.models[k] = s.models[k]
      /\ t.models[a + 1] = m
  BY <1>1, AppendFacts DEF IsState, Appended
<1>3. DOMAIN t.models = 1 .. a + 1
  BY <1>2, SequenceFacts
<1>4. ASSUME NEW k \in 1 .. a + 1
      PROVE  /\ IsModel(t.models[k])
             /\ IF k \in 1 .. a
                THEN t.models[k].file = s.models[k].file /\ t.models[k].fills = s.models[k].fills
                ELSE t.models[k].file = file /\ t.models[k].fills = 0
  <2>1. CASE k \in 1 .. a
    BY <1>1, <1>2, <2>1 DEF IsState
  <2>2. CASE k = a + 1
    <3>1. k \notin 1 .. a
      BY <2>2
    <3>2. t.models[k] = m
      BY <1>2, <2>2
    <3>3. IsModel(t.models[k]) /\ t.models[k].file = file /\ t.models[k].fills = 0
      BY <3>2
    <3> QED
      BY <3>1, <3>3, Zenon
  <2>3. k \in 1 .. a \/ k = a + 1
    OBVIOUS
  <2> QED
    BY <2>1, <2>2, <2>3, Zenon
<1>5. 1 .. a \subseteq 1 .. a + 1 /\ a <= a + 1
  OBVIOUS
<1>6. IsState(t)
  BY <1>1, <1>2, <1>3, <1>4, <1>5 DEF IsState
<1>7. /\ Len(s.did_list) <= Len(t.did_list) /\ DOMAIN t.did_list = DOMAIN s.did_list
      /\ Len(s.model_list) <= Len(t.model_list)
  BY StateFacts
<1>8. Len(s.models) <= Len(t.models)
  BY <1>1, <1>2, <1>5
<1> QED
  BY <1>1, <1>2, <1>3, <1>4, <1>6, <1>7, <1>8 DEF Grows

LEMMA DidAdded ==
    ASSUME NEW s, IsState(s), NEW n,
           NEW d, DOMAIN d = DidFields, d.model \in DOMAIN s.models, d.model > n,
           NEW t, DOMAIN t = StateFields, t.models = s.models,
           Appended(s.did_list, d, t.did_list), t.model_list = s.model_list,
           NEW file
    PROVE  /\ Grows(s, t, file, n) /\ Knows(t, d.did)
           /\ \A k \in DOMAIN t.did_list \ DOMAIN s.did_list : t.did_list[k] = d
<1>1. PICK a \in Nat : a = Len(s.did_list) /\ DOMAIN s.did_list = 1 .. a
  BY StateFacts
<1>2. /\ IsSequence(t.did_list) /\ Len(t.did_list) = a + 1
      /\ \A k \in 1 .. a : t.did_list[k] = s.did_list[k]
      /\ t.did_list[a + 1] = d
  BY <1>1, AppendFacts DEF IsState, Appended
<1>3. DOMAIN t.did_list = 1 .. a + 1
  BY <1>2, SequenceFacts
<1>4. (1 .. a + 1) \ (1 .. a) = {a + 1}
  OBVIOUS
<1>5. \A k \in DOMAIN t.did_list :
          IF k \in DOMAIN s.did_list THEN t.did_list[k] = s.did_list[k] ELSE t.did_list[k] = d
  BY <1>1, <1>2, <1>3, <1>4
<1>6. \A k \in DOMAIN t.did_list :
          DOMAIN t.did_list[k] = DidFields /\ t.did_list[k].model \in DOMAIN t.models
  BY <1>5 DEF IsState
<1>7. IsState(t)
  BY <1>2, <1>6 DEF IsState
<1>8. /\ Len(s.models) <= Len(t.models) /\ Len(s.model_list) <= Len(t.model_list)
      /\ Len(s.did_list) <= Len(t.did_list)
  BY <1>1, <1>2, StateFacts
<1>9. Grows(s, t, file, n)
  BY <1>5, <1>7, <1>8 DEF Grows
<1>10. Knows(t, d.did)
  BY <1>2, <1>3 DEF Knows
<1> QED
  BY <1>5, <1>9, <1>10

LEMMA ModelListed ==
    ASSUME NEW s, IsState(s), NEW i \in DOMAIN s.models,
           \A k \in DOMAIN s.model_list : s.model_list[k] # i,
           NEW t, DOMAIN t = StateFields, t.models = s.models,
           t.did_list = s.did_list, Appended(s.model_list, i, t.model_list),
           NEW file, NEW n
    PROVE  /\ Grows(s, t, file, n)
           /\ \E k \in DOMAIN t.model_list : t.model_list[k] = i
<1>1. PICK a \in Nat : a = Len(s.model_list) /\ DOMAIN s.model_list = 1 .. a
  BY StateFacts
<1>2. /\ IsSequence(t.model_list) /\ Len(t.model_list) = a + 1
      /\ \A k \in 1 .. a : t.model_list[k] = s.model_list[k]
      /\ t.model_list[a + 1] = i
  BY <1>1, AppendFacts DEF IsState, Appended
<1>3. DOMAIN t.model_list = 1 .. a + 1
  BY <1>2, SequenceFacts
<1>4. \A k \in 1 .. a + 1 : k \in 1 .. a \/ k = a + 1
  OBVIOUS
<1>5. \A k \in DOMAIN t.model_list : t.model_list[k] \in DOMAIN t.models
  BY <1>1, <1>2, <1>3, <1>4 DEF IsState
<1>6. \A k, h \in DOMAIN t.model_list : t.model_list[k] = t.model_list[h] => k = h
  <2>1. \A k \in 1 .. a : t.model_list[k] # i
    BY <1>1, <1>2
  <2>2. \A k, h \in 1 .. a : t.model_list[k] = t.model_list[h] => k = h
    <3>1. \A k, h \in DOMAIN s.model_list : s.model_list[k] = s.model_list[h] => k = h
      BY DEF IsState
    <3>2. \A k \in 1 .. a : t.model_list[k] = s.model_list[k] /\ k \in DOMAIN s.model_list
      BY <1>1, <1>2
    <3> QED
      BY <3>1, <3>2, Zenon
  <2> QED
    BY <1>2, <1>3, <1>4, <2>1, <2>2
<1>7. IsState(t)
  BY <1>2, <1>5, <1>6 DEF IsState
<1>8. /\ Len(s.models) <= Len(t.models) /\ Len(s.did_list) <= Len(t.did_list)
      /\ Len(s.model_list) <= Len(t.model_list) /\ DOMAIN t.did_list = DOMAIN s.did_list
  BY <1>1, <1>2, StateFacts
<1>9. Grows(s, t, file, n)
  BY <1>1, <1>2, <1>7, <1>8 DEF Grows
<1> QED
  BY <1>2, <1>3, <1>9

LEMMA DidRenamed ==
    ASSUME NEW s, IsState(s), NEW d \in DOMAIN s.did_list, NEW name,
           NEW t, DOMAIN t = StateFields, t.models = s.models,
           t.did_list = [s.did_list EXCEPT ![d].name = name], t.model_list = s.model_list,
           NEW file, NEW n
    PROVE  Grows(s, t, file, n) /\ DOMAIN t.did_list = DOMAIN s.did_list
<1>1. PICK a \in Nat : a = Len(s.did_list) /\ DOMAIN s.did_list = 1 .. a
  BY StateFacts
<1>2. \A k \in 1 .. a : t.did_list[k] = IF k = d THEN [s.did_list[k] EXCEPT !.name = name]
                                        ELSE s.did_list[k]
  BY <1>1
<1>3. t.did_list = [k \in 1 .. a |-> t.did_list[k]]
  BY <1>1
<1>4. IsSequence(t.did_list) /\ Len(t.did_list) = a /\ DOMAIN t.did_list = 1 .. a
  BY <1>3, MapIsSequence
<1>5. \A k \in 1 .. a : /\ DOMAIN t.did_list[k] = DidFields
                        /\ t.did_list[k].did = s.did_list[k].did
                        /\ t.did_list[k].model = s.did_list[k].model
  BY <1>1, <1>2 DEF IsState, DidFields
<1>6. IsState(t)
  BY <1>1, <1>4, <1>5 DEF IsState
<1>7. Len(s.models) <= Len(t.models) /\ Len(s.model_list) <= Len(t.model_list)
  BY StateFacts
<1> QED
  BY <1>1, <1>4, <1>5, <1>6, <1>7 DEF Grows

-----------------------------------------------------------------------------
\* Reading slang

LEMMA ElementGrows ==
    ASSUME NEW s, IsState(s), s.models # <<>>, NEW e, IsElement(e),
           NEW file, NEW n \in Nat, n < Len(s.models)
    PROVE  LET t == Element(s, e)
           IN /\ Grows(s, t, file, n) /\ Len(t.models) = Len(s.models)
              /\ t.model_list = s.model_list
              /\ \A d \in DOMAIN t.did_list \ DOMAIN s.did_list :
                    t.did_list[d].model = Len(s.models)
              /\ e.kind = "did" => Knows(t, e.did)
<1> DEFINE t == Element(s, e)
<1>1. PICK i \in Nat : i = Len(s.models) /\ DOMAIN s.models = 1 .. i
  BY StateFacts
<1>2. i > n /\ i \in DOMAIN s.models
  BY <1>1
<1>3. IsModel(s.models[i])
  BY <1>2 DEF IsState
<1>4. DOMAIN s = StateFields
  BY DEF IsState
<1>5. CASE e.kind \in {"name", "len", "datapoints", "define"}
  <2> DEFINE m == t.models[i]
  <2>1. /\ DOMAIN t = StateFields /\ t.models = [s.models EXCEPT ![i] = m]
        /\ t.did_list = s.did_list /\ t.model_list = s.model_list
    <3>1. CASE e.kind = "name"
      BY <1>1, <1>2, <1>4, <3>1 DEF Element, StateFields
    <3>2. CASE e.kind = "len"
      BY <1>1, <1>2, <1>4, <3>2 DEF Element, StateFields
    <3>3. CASE e.kind = "datapoints"
      BY <1>1, <1>2, <1>4, <3>3 DEF Element, StateFields
    <3>4. CASE e.kind = "define"
      BY <1>1, <1>2, <1>4, <3>4 DEF Element, StateFields
    <3> QED
      BY <1>5, <3>1, <3>2, <3>3, <3>4
  <2>2. IsModel(m) /\ m.file = s.models[i].file /\ m.fills = s.models[i].fills
    <3>1. CASE e.kind \in {"name", "len", "define"}
      <4>1. /\ DOMAIN m = ModelFields /\ m.dp_blocks = s.models[i].dp_blocks
            /\ m.file = s.models[i].file /\ m.fills = s.models[i].fills
        <5>1. CASE e.kind = "name"
          BY <1>1, <1>2, <1>3, <1>4, <5>1 DEF Element, StateFields, IsModel, ModelFields
        <5>2. CASE e.kind = "len"
          BY <1>1, <1>2, <1>3, <1>4, <5>2 DEF Element, StateFields, IsModel, ModelFields
        <5>3. CASE e.kind = "define"
          BY <1>1, <1>2, <1>3, <1>4, <5>3 DEF Element, StateFields, IsModel, ModelFields
        <5> QED
          BY <3>1, <5>1, <5>2, <5>3
      <4> HIDE DEF m
      <4> QED
        BY <1>3, <4>1 DEF IsModel
    <3>2. CASE e.kind = "datapoints"
      <4> DEFINE block == [repeating |-> e.repeating, dps |-> e.dps, len |-> 0]
      <4>1. /\ DOMAIN m = ModelFields
            /\ m.dp_blocks = Append(s.models[i].dp_blocks, block)
            /\ m.file = s.models[i].file /\ m.fills = s.models[i].fills
        BY <1>1, <1>2, <1>3, <1>4, <3>2 DEF Element, StateFields, IsModel, ModelFields
      <4>2. IsBlock(block)
        BY <3>2 DEF IsElement, IsBlock, BlockFields
      <4> HIDE DEF m, block
      <4>3. PICK h \in Nat : h = Len(s.models[i].dp_blocks) /\ DOMAIN s.models[i].dp_blocks = 1 .. h
        BY <1>3, SequenceFacts DEF IsModel
      <4>4. /\ IsSequence(m.dp_blocks) /\ DOMAIN m.dp_blocks = 1 .. h + 1
            /\ \A b \in 1 .. h : m.dp_blocks[b] = s.models[i].dp_blocks[b]
            /\ m.dp_blocks[h + 1] = block
        BY <1>3, <4>1, <4>3, AppendFacts, SequenceFacts DEF IsModel
      <4>5. \A b \in 1 .. h + 1 : b \in 1 .. h \/ b = h + 1
        OBVIOUS
      <4>6. \A b \in DOMAIN m.dp_blocks : IsBlock(m.dp_blocks[b])
        BY <1>3, <4>2, <4>3, <4>4, <4>5 DEF IsModel
      <4> QED
        BY <4>1, <4>4, <4>6 DEF IsModel
    <3> QED
      BY <1>5, <3>1, <3>2
  <2> HIDE DEF m, t
  <2>3. Grows(s, t, file, n) /\ DOMAIN t.models = DOMAIN s.models
    BY <1>2, <2>1, <2>2, ModelReplaced
  <2>4. Len(t.models) = Len(s.models)
    <3>1. t.models = [k \in 1 .. i |-> t.models[k]]
      BY <1>1, <2>1
    <3> QED
      BY <1>1, <3>1, MapIsSequence
  <2> QED
    BY <1>5, <2>1, <2>3, <2>4 DEF t
<1>6. CASE e.kind = "did"
  <2> DEFINE d == [did |-> e.did, model |-> i,
                   name |-> IF e.name = NULL THEN s.models[i].name ELSE e.name]
  <2>1. /\ DOMAIN t = StateFields /\ t.models = s.models
        /\ Appended(s.did_list, d, t.did_list) /\ t.model_list = s.model_list
    BY <1>1, <1>4, <1>6 DEF Element, StateFields, Appended
  <2>2. DOMAIN d = DidFields /\ d.model = i /\ d.did = e.did
    BY DEF DidFields
  <2> HIDE DEF d, t
  <2>3. /\ Grows(s, t, file, n) /\ Knows(t, e.did)
        /\ \A k \in DOMAIN t.did_list \ DOMAIN s.did_list : t.did_list[k] = d
    <3>1. d.model \in DOMAIN s.models /\ d.model > n
      BY <1>2, <2>2
    <3>2. /\ Grows(s, t, file, n) /\ Knows(t, d.did)
          /\ \A k \in DOMAIN t.did_list \ DOMAIN s.did_list : t.did_list[k] = d
      <4>0. IsState(s)
        OBVIOUS
      <4>1. PICK u : u = t
        OBVIOUS
      <4>2. PICK c : c = d
        OBVIOUS
      <4>3. /\ Appended(s.did_list, c, u.did_list) /\ DOMAIN c = DidFields
            /\ DOMAIN u = StateFields /\ u.models = s.models /\ u.model_list = s.model_list
        BY <2>1, <2>2, <4>1, <4>2
      <4>4. c.model \in DOMAIN s.models /\ c.model > n
        BY <3>1, <4>2
      <4>5. /\ Grows(s, u, file, n) /\ Knows(u, c.did)
            /\ \A k \in DOMAIN u.did_list \ DOMAIN s.did_list : u.did_list[k] = c
        BY ONLY <4>0, <4>3, <4>4, DidAdded
      <4> QED
        BY ONLY <4>1, <4>2, <4>5
    <3> QED
      BY <2>2, <3>2
  <2> QED
    BY <1>1, <2>1, <2>2, <2>3 DEF t
<1> QED
  BY <1>5, <1>6 DEF IsElement

LEMMA NewModelIsModel ==
    ASSUME NEW file
    PROVE  IsModel(NewModel(file)) /\ NewModel(file).file = file /\ NewModel(file).fills = 0
  BY EmptyIsSequence DEF IsModel, NewModel, ModelFields

LEMMA ElementsGrow ==
    ASSUME NEW s, IsState(s), NEW item, item.kind \in {"model", "broken"}, IsItem(item),
           NEW file
    PROVE  LET t == ModelElements(s, item, file)
           IN /\ Grows(s, t, file, Len(s.models)) /\ Len(t.models) = Len(s.models) + 1
              /\ t.model_list = s.model_list
              /\ \A d \in DOMAIN t.did_list \ DOMAIN s.did_list :
                    t.did_list[d].model = Len(s.models) + 1
              /\ \A k \in DOMAIN item.elmts :
                    item.elmts[k].kind = "did" => Knows(t, item.elmts[k].did)
<1>1. PICK n \in Nat : n = Len(s.models)
  BY StateFacts
<1>2. PICK N \in Nat : N = Len(item.elmts) /\ DOMAIN item.elmts = 1 .. N
  BY SequenceFacts DEF IsItem
<1>3. PICK f : /\ f[0] = Begun(s, file)
               /\ \A k \in 1 .. N : f[k] = Element(f[k - 1], item.elmts[k])
               /\ ModelElements(s, item, file) = f[N]
  <2>1. N \in Nat /\ N = Len(item.elmts)
    BY <1>2
  <2>2. PICK f : Elements(f, s, item, file, N)
    BY ONLY <2>1, ElementsSteps
  <2> QED
    BY <2>2 DEF Elements
<1> DEFINE New(t)   == \A d \in DOMAIN t.did_list \ DOMAIN s.did_list :
                          t.did_list[d].model = n + 1
           Shape(t) == /\ Grows(s, t, file, n) /\ Len(t.models) = n + 1
                       /\ t.model_list = s.model_list /\ New(t)
           Read(k)  == \A j \in 1 .. k :
                          item.elmts[j].kind = "did" => Knows(f[k], item.elmts[j].did)
           T == {k \in 0 .. N : Shape(f[k]) /\ Read(k)}
<1>4. 0 \in T
  <2>1. PICK t : t = f[0]
    OBVIOUS
  <2>2. /\ DOMAIN t = StateFields /\ Appended(s.models, NewModel(file), t.models)
        /\ t.did_list = s.did_list /\ t.model_list = s.model_list
    BY <1>3, <2>1 DEF Begun, IsState, StateFields, Appended
  <2>3. Grows(s, t, file, n) /\ Len(t.models) = Len(s.models) + 1
    <3>1. PICK m : m = NewModel(file)
      OBVIOUS
    <3>2. IsModel(m) /\ m.file = file /\ m.fills = 0
      BY <3>1, NewModelIsModel
    <3>3. IsState(s) /\ Appended(s.models, m, t.models)
      BY <2>2, <3>1
    <3> QED
      BY <2>2, <3>2, <3>3, ModelAdded
  <2>4. Shape(t)
    BY <1>1, <2>2, <2>3
  <2>5. 1 .. 0 = {}
    OBVIOUS
  <2> HIDE DEF Shape
  <2> QED
    BY <1>2, <2>1, <2>4, <2>5
<1>5. ASSUME NEW k \in 1 .. N, k - 1 \in T PROVE k \in T
  <2>1. PICK t : t = f[k - 1]
    OBVIOUS
  <2>2. PICK u : u = f[k]
    OBVIOUS
  <2>3. PICK e : e = item.elmts[k]
    OBVIOUS
  <2>4. Shape(t) /\ IsState(t)
    BY <1>5, <2>1 DEF Grows
  <2>5. IsElement(e) /\ u = Element(t, e)
    BY <1>2, <1>3, <2>1, <2>2, <2>3 DEF IsItem
  <2>6. t.models # <<>> /\ n < Len(t.models)
    BY <2>4
  <2>7. /\ Grows(t, u, file, n) /\ Len(u.models) = Len(t.models)
        /\ u.model_list = t.model_list
        /\ \A d \in DOMAIN u.did_list \ DOMAIN t.did_list :
              u.did_list[d].model = Len(t.models)
        /\ e.kind = "did" => Knows(u, e.did)
    BY <2>4, <2>5, <2>6, ElementGrows
  <2>8. Grows(s, u, file, n)
    BY <2>4, <2>7, GrowsTransitive
  <2>9. New(u)
    <3>1. SUFFICES ASSUME NEW d \in DOMAIN u.did_list, d \notin DOMAIN s.did_list
                   PROVE  u.did_list[d].model = n + 1
      OBVIOUS
    <3>2. CASE d \in DOMAIN t.did_list
      <4>1. u.did_list[d].model = t.did_list[d].model
        BY <2>7, <3>2 DEF Grows
      <4> QED
        BY <2>4, <3>1, <3>2, <4>1
    <3>3. CASE d \notin DOMAIN t.did_list
      BY <2>4, <2>7, <3>3
    <3> QED
      BY <3>2, <3>3
  <2>10. Shape(u)
    BY <2>4, <2>7, <2>8, <2>9
  <2>11. ASSUME NEW j \in 1 .. k, item.elmts[j].kind = "did"
         PROVE  Knows(u, item.elmts[j].did)
    <3>1. CASE j = k
      BY <2>3, <2>7, <2>11, <3>1
    <3>2. CASE j # k
      <4>1. j \in 1 .. k - 1
        BY <3>2
      <4>2. Knows(t, item.elmts[j].did)
        BY <1>5, <2>1, <2>11, <4>1
      <4> QED
        BY <2>4, <2>7, <4>2, GrowsKnows
    <3> QED
      BY <3>1, <3>2
  <2> HIDE DEF Shape
  <2> QED
    BY <2>2, <2>10, <2>11
<1>6. Shape(f[N]) /\ Read(N)
  <2> HIDE DEF Shape, Read
  <2>1. N \in T
    <3> HIDE DEF T
    <3>1. 0 .. N \subseteq T
      BY <1>2, <1>4, <1>5, UpTo
    <3> QED
      BY <1>2, <3>1
  <2> QED
    BY <2>1
<1> QED
  BY <1>1, <1>2, <1>3, <1>6

LEMMA ModelBlockGrows ==
    ASSUME NEW s, IsState(s), NEW item, item.kind = "model", IsItem(item), NEW file
    PROVE  LET t == ModelBlock(s, item, file)
           IN /\ Grows(s, t, file, Len(s.models))
              /\ \A d \in DOMAIN t.did_list \ DOMAIN s.did_list :
                    \E k \in DOMAIN t.model_list : t.model_list[k] = t.did_list[d].model
              /\ \A k \in DOMAIN item.elmts :
                    item.elmts[k].kind = "did" => Knows(t, item.elmts[k].did)
<1>1. PICK n \in Nat : n = Len(s.models) /\ DOMAIN s.models = 1 .. n
  BY StateFacts
<1>2. PICK u : u = ModelElements(s, item, file)
  OBVIOUS
<1>3. /\ Grows(s, u, file, n) /\ Len(u.models) = n + 1
      /\ u.model_list = s.model_list
      /\ \A d \in DOMAIN u.did_list \ DOMAIN s.did_list : u.did_list[d].model = n + 1
      /\ \A k \in DOMAIN item.elmts :
            item.elmts[k].kind = "did" => Knows(u, item.elmts[k].did)
  BY <1>1, <1>2, ElementsGrow
<1>4. PICK i \in Nat : i = n + 1
  OBVIOUS
<1>5. IsState(u) /\ i = Len(u.models) /\ i \in DOMAIN u.models /\ i \notin DOMAIN s.models
  <2>1. IsState(u)
    BY <1>3 DEF Grows
  <2>2. DOMAIN u.models = 1 .. n + 1
    BY <1>3, <2>1, StateFacts
  <2> QED
    BY <1>1, <1>3, <1>4, <2>1, <2>2
<1>6. PICK m : m = ResolveDefines(s, u.models[i])
  OBVIOUS
<1>7. IsModel(m) /\ m.file = u.models[i].file /\ m.fills = u.models[i].fills
  <2>1. IsModel(u.models[i])
    BY <1>5 DEF IsState
  <2> QED
    BY <1>6, <2>1, ResolveKeeps
<1>8. PICK v : v = [u EXCEPT !.models = [u.models EXCEPT ![i] = m]]
  OBVIOUS
<1>9. /\ DOMAIN v = StateFields /\ v.models = [u.models EXCEPT ![i] = m]
      /\ v.did_list = u.did_list /\ v.model_list = u.model_list
  BY <1>5, <1>8 DEF IsState, StateFields
<1>10. Grows(u, v, file, n) /\ DOMAIN v.models = DOMAIN u.models
  BY <1>5, <1>7, <1>9, ModelReplaced
<1>11. IsState(v) /\ \A k \in DOMAIN v.model_list : v.model_list[k] # i
  <2>1. IsState(v)
    BY <1>10 DEF Grows
  <2>2. \A k \in DOMAIN s.model_list : s.model_list[k] \in DOMAIN s.models
    BY DEF IsState
  <2> QED
    BY <1>3, <1>5, <1>9, <2>1, <2>2
<1>12. PICK t : t = ModelBlock(s, item, file)
  OBVIOUS
<1>13. /\ DOMAIN t = StateFields /\ t.models = v.models
       /\ t.did_list = v.did_list /\ Appended(v.model_list, i, t.model_list)
  BY <1>2, <1>5, <1>6, <1>9, <1>12 DEF ModelBlock, IsState, StateFields, Appended
<1>14. /\ Grows(v, t, file, n)
       /\ \E k \in DOMAIN t.model_list : t.model_list[k] = i
  BY <1>5, <1>10, <1>11, <1>13, ModelListed
<1>15. Grows(s, v, file, n)
  BY <1>3, <1>10, GrowsTransitive
<1>16. Grows(s, t, file, n)
  BY <1>14, <1>15, GrowsTransitive
<1>17. ASSUME NEW d \in DOMAIN t.did_list, d \notin DOMAIN s.did_list
       PROVE  \E k \in DOMAIN t.model_list : t.model_list[k] = t.did_list[d].model
  <2>1. t.did_list[d].model = i
    BY <1>3, <1>4, <1>9, <1>13, <1>17
  <2> QED
    BY <1>14, <2>1
<1>18. \A k \in DOMAIN item.elmts :
            item.elmts[k].kind = "did" => Knows(t, item.elmts[k].did)
  <2>1. t.did_list = u.did_list
    BY <1>9, <1>13
  <2> QED
    BY <1>3, <2>1 DEF Knows
<1> QED
  BY <1>1, <1>12, <1>16, <1>17, <1>18

LEMMA ItemGrows ==
    ASSUME NEW s, IsState(s), NEW item, IsItem(item), NEW file
    PROVE  LET t == Item(s, item, file)
           IN /\ Grows(s, t, file, Len(s.models))
              /\ item.kind # "broken" /\ Indexed(s) => Indexed(t)
              /\ item.kind \in {"model", "broken"} =>
                    \A k \in DOMAIN item.elmts :
                       item.elmts[k].kind = "did" => Knows(t, item.elmts[k].did)
<1> DEFINE t == Item(s, item, file)
<1>1. CASE item.kind = "model"
  <2>1. t = ModelBlock(s, item, file)
    BY <1>1 DEF Item
  <2> HIDE DEF t
  <2>2. /\ Grows(s, t, file, Len(s.models))
        /\ \A d \in DOMAIN t.did_list \ DOMAIN s.did_list :
              \E k \in DOMAIN t.model_list : t.model_list[k] = t.did_list[d].model
        /\ \A k \in DOMAIN item.elmts :
              item.elmts[k].kind = "did" => Knows(t, item.elmts[k].did)
    BY <1>1, <2>1, ModelBlockGrows
  <2>3. Indexed(s) => Indexed(t)
    BY <2>2, GrowsIndexed
  <2> QED
    BY <2>2, <2>3 DEF t
<1>2. CASE item.kind = "broken"
  <2>1. t = ModelElements(s, item, file)
    BY <1>2 DEF Item
  <2> HIDE DEF t
  <2> QED
    BY <1>2, <2>1, ElementsGrow DEF t
<1>3. CASE item.kind \in {"data", "define", "junk"}
  <2>1. /\ DOMAIN t = StateFields /\ t.models = s.models
        /\ t.did_list = s.did_list /\ t.model_list = s.model_list
    <3>1. CASE item.kind = "data"
      BY <3>1 DEF Item, IsState, StateFields
    <3>2. CASE item.kind = "define"
      BY <3>2 DEF Item, IsState, StateFields
    <3>3. CASE item.kind = "junk"
      BY <3>3 DEF Item, IsState, StateFields
    <3> QED
      BY <1>3, <3>1, <3>2, <3>3
  <2> HIDE DEF t
  <2>2. IsState(t)
    BY <2>1 DEF IsState
  <2>3. Grows(s, t, file, Len(s.models))
    BY <2>1, <2>2, StateFacts DEF Grows
  <2>4. Indexed(s) => Indexed(t)
    BY <2>1 DEF Indexed
  <2> QED
    BY <1>3, <2>3, <2>4 DEF t
<1> QED
  BY <1>1, <1>2, <1>3 DEF IsItem

LEMMA GrowsWeaker ==
    ASSUME NEW s, NEW t, NEW file, NEW a \in Nat, NEW b \in Nat, b <= a, Grows(s, t, file, a)
    PROVE  Grows(s, t, file, b)
<1>1. IsState(t)
  BY DEF Grows
<1>2. ASSUME NEW d \in DOMAIN t.did_list, t.did_list[d].model > a
      PROVE  t.did_list[d].model > b
  <2>1. t.did_list[d].model \in Nat
    BY <1>1, StateFacts DEF IsState
  <2> QED
    BY <1>2, <2>1
<1> QED
  BY <1>2 DEF Grows

LEMMA ErrorFacts ==
    ASSUME NEW items, IsSequence(items)
    PROVE  /\ FirstError(items) \in 0 .. Len(items)
           /\ FirstError(items) # 0 <=> \E k \in 1 .. Len(items) : IsError(items[k])
           /\ FirstError(items) # 0 => IsError(items[FirstError(items)])
           /\ \A k \in 1 .. FirstError(items) - 1 : ~IsError(items[k])
           /\ Taken(items) \in 0 .. Len(items)
           /\ Taken(items) # Len(items) => FirstError(items) # 0
           /\ FirstError(items) = 0 => Taken(items) = Len(items)
<1> DEFINE n == Len(items)
           I == {k \in 1 .. n : IsError(items[k])}
           e == FirstError(items)
<1>1. n \in Nat
  BY SequenceFacts
<1>2. e = IF I # {} THEN Min(I) ELSE 0
  BY DEF FirstError, SelectInSeq
<1>3. I \in SUBSET (1 .. n) /\ \A k \in 1 .. n : k \in I <=> IsError(items[k])
  OBVIOUS
<1> HIDE DEF I, n, e
<1>4. I # {} => Min(I) \in I /\ \A k \in I : Min(I) <= k
  BY <1>1, <1>3, FirstFacts
<1>5. e \in 0 .. n /\ (e # 0 <=> I # {}) /\ (e # 0 => e \in I)
  <2>1. I \in SUBSET (1 .. n)
    BY <1>3
  <2>2. CASE I = {}
    BY <1>1, <1>2, <2>2
  <2>3. CASE I # {}
    <3>1. e \in I /\ e \in 1 .. n
      BY <1>2, <1>4, <2>1, <2>3
    <3> QED
      BY <1>1, <2>3, <3>1
  <2> QED
    BY <2>2, <2>3
<1>6. \A k \in 1 .. e - 1 : k \notin I
  BY <1>1, <1>2, <1>3, <1>4, <1>5
<1>7. \A k \in 1 .. e - 1 : k \in 1 .. n
  BY <1>1, <1>5
<1>8. Taken(items) = IF e = 0 THEN n ELSE e
  BY DEF Taken, e, n
<1>9. /\ e # 0 <=> \E k \in 1 .. n : IsError(items[k])
      /\ e # 0 => IsError(items[e])
      /\ \A k \in 1 .. e - 1 : ~IsError(items[k])
  BY <1>3, <1>5, <1>6, <1>7
<1>10. /\ Taken(items) \in 0 .. n
       /\ Taken(items) # n => e # 0
       /\ e = 0 => Taken(items) = n
  BY <1>1, <1>5, <1>8
<1> QED
  BY <1>5, <1>9, <1>10 DEF e, n

LEMMA ParseGrows ==
    ASSUME NEW s, IsState(s),
           NEW items, IsSequence(items), \A k \in DOMAIN items : IsItem(items[k]),
           NEW file
    PROVE  LET t == Parse(s, items, file)
           IN /\ Grows(s, t, file, Len(s.models))
              /\ FirstError(items) = 0 /\ Indexed(s) => Indexed(t)
              /\ \A k \in 1 .. Taken(items) : items[k].kind \in {"model", "broken"} =>
                    \A n \in DOMAIN items[k].elmts :
                       items[k].elmts[n].kind = "did" => Knows(t, items[k].elmts[n].did)
<1>1. PICK n \in Nat : n = Len(s.models)
  BY StateFacts
<1> DEFINE N == Taken(items)
<1>2. N \in Nat /\ \A k \in 1 .. N : k \in DOMAIN items
  BY ErrorFacts, SequenceFacts
<1>3. PICK f : /\ f[0] = s
               /\ \A k \in 1 .. N : f[k] = Item(f[k - 1], items[k], file)
               /\ Parse(s, items, file) = f[N]
  BY <1>2, ParseSteps
<1> HIDE DEF N
<1>4. FirstError(items) = 0 => \A k \in 1 .. N : items[k].kind # "broken"
  BY <1>2, ErrorFacts, SequenceFacts DEF IsError
<1> DEFINE Named(item, t) == item.kind \in {"model", "broken"} =>
                               \A h \in DOMAIN item.elmts :
                                 item.elmts[h].kind = "did" => Knows(t, item.elmts[h].did)
           Read(k) == /\ Grows(s, f[k], file, n)
                      /\ FirstError(items) = 0 /\ Indexed(s) => Indexed(f[k])
                      /\ \A j \in 1 .. k : Named(items[j], f[k])
           T == {k \in 0 .. N : Read(k)}
<1>5. 0 \in T
  <2>1. Grows(s, f[0], file, n) /\ (Indexed(s) => Indexed(f[0]))
    BY <1>3, GrowsReflexive
  <2>2. 1 .. 0 = {}
    OBVIOUS
  <2> QED
    BY <1>2, <2>1, <2>2
<1>6. ASSUME NEW k \in 1 .. N, k - 1 \in T PROVE k \in T
  <2>1. PICK t : t = f[k - 1]
    OBVIOUS
  <2>2. PICK u : u = f[k]
    OBVIOUS
  <2>3. PICK item : item = items[k]
    OBVIOUS
  <2>4. IsItem(item) /\ u = Item(t, item, file)
    BY <1>2, <1>3, <2>1, <2>2, <2>3
  <2>5. /\ Grows(s, t, file, n)
        /\ FirstError(items) = 0 /\ Indexed(s) => Indexed(t)
        /\ \A j \in 1 .. k - 1 : Named(items[j], t)
    BY <1>6, <2>1
  <2>6. IsState(t)
    BY <2>5 DEF Grows
  <2>7. /\ Grows(t, u, file, Len(t.models))
        /\ item.kind # "broken" /\ Indexed(t) => Indexed(u)
        /\ Named(item, u)
    BY <2>4, <2>6, ItemGrows
  <2>8. Grows(t, u, file, n)
    <3>1. Len(t.models) \in Nat /\ n <= Len(t.models)
      BY <1>1, <2>5, <2>6, StateFacts DEF Grows
    <3> QED
      BY <2>7, <3>1, GrowsWeaker
  <2>9. Grows(s, u, file, n)
    BY <2>5, <2>8, GrowsTransitive
  <2>10. FirstError(items) = 0 /\ Indexed(s) => Indexed(u)
    BY <1>4, <2>3, <2>5, <2>7
  <2>11. ASSUME NEW j \in 1 .. k PROVE Named(items[j], u)
    <3>1. CASE j = k
      BY <2>3, <2>7, <3>1
    <3>2. CASE j # k
      <4>1. j \in 1 .. k - 1
        BY <3>2
      <4>2. Named(items[j], t)
        BY <2>5, <4>1
      <4> QED
        BY <2>6, <2>8, <4>2, GrowsKnows
    <3> QED
      BY <3>1, <3>2
  <2> HIDE DEF Named
  <2> QED
    BY <2>2, <2>9, <2>10, <2>11
<1>7. Read(N)
  <2> HIDE DEF Read
  <2>1. N \in T
    <3> HIDE DEF T
    <3>1. 0 .. N \subseteq T
      BY <1>2, <1>5, <1>6, UpTo
    <3> QED
      BY <1>2, <3>1
  <2> QED
    BY <2>1
<1> QED
  BY <1>1, <1>3, <1>7 DEF N

-----------------------------------------------------------------------------
\* Reading XML

LEMMA FindDidFacts ==
    ASSUME NEW s, IsState(s), NEW did
    PROVE  /\ FindDid(s, did) \in 0 .. Len(s.did_list)
           /\ FindDid(s, did) # 0 <=> Knows(s, did)
           /\ FindDid(s, did) # 0 => s.did_list[FindDid(s, did)].did = did
           /\ \A k \in 1 .. FindDid(s, did) - 1 : s.did_list[k].did # did
<1> DEFINE n == Len(s.did_list)
           I == {k \in 1 .. n : s.did_list[k].did = did}
           d == FindDid(s, did)
<1>1. n \in Nat /\ DOMAIN s.did_list = 1 .. n
  BY StateFacts
<1>2. d = IF I # {} THEN Min(I) ELSE 0
  BY DEF FindDid, SelectInSeq
<1>3. I \in SUBSET (1 .. n) /\ \A k \in 1 .. n : k \in I <=> s.did_list[k].did = did
  OBVIOUS
<1> HIDE DEF I, n, d
<1>4. I # {} => Min(I) \in I /\ \A k \in I : Min(I) <= k
  BY <1>1, <1>3, FirstFacts
<1>5. d \in 0 .. n /\ (d # 0 <=> I # {}) /\ (d # 0 => d \in I)
  <2>1. I \in SUBSET (1 .. n)
    BY <1>3
  <2>2. CASE I = {}
    BY <1>1, <1>2, <2>2
  <2>3. CASE I # {}
    <3>1. d \in I /\ d \in 1 .. n
      BY <1>2, <1>4, <2>1, <2>3
    <3> QED
      BY <1>1, <2>3, <3>1
  <2> QED
    BY <2>2, <2>3
<1>6. \A k \in 1 .. d - 1 : k \notin I /\ k \in 1 .. n
  <2>1. \A k \in 1 .. d - 1 : k \notin I
    BY <1>1, <1>2, <1>3, <1>4, <1>5
  <2>2. \A k \in 1 .. d - 1 : k \in 1 .. n
    BY <1>1, <1>5
  <2> QED
    BY <2>1, <2>2
<1>7. d # 0 <=> Knows(s, did)
  BY <1>1, <1>3, <1>5 DEF Knows
<1>8. /\ d # 0 => s.did_list[d].did = did
      /\ \A k \in 1 .. d - 1 : s.did_list[k].did # did
  BY <1>3, <1>5, <1>6
<1> QED
  BY <1>5, <1>7, <1>8 DEF d, n

LEMMA XmlPointIsPoint ==
    ASSUME NEW p, p.type \in Types, p.len \in Nat PROVE IsPoint(XmlPoint(p))
  BY DEF XmlPoint, IsPoint, PointFields

LEMMA XmlBlockIsBlock ==
    ASSUME NEW block, IsXmlBlock(block) PROVE IsBlock(XmlBlock(block))
<1>1. PICK points : points = block.points
  OBVIOUS
<1>2. PICK dps : dps = [k \in DOMAIN points |-> XmlPoint(points[k])]
  OBVIOUS
<1>3. PICK u : u = XmlBlock(block)
  OBVIOUS
<1>4. DOMAIN u = BlockFields /\ u.len = 0 /\ u.dps = dps
  BY <1>1, <1>2, <1>3 DEF XmlBlock, BlockFields
<1>5. IsSequence(points) /\ \A k \in DOMAIN points : points[k].type \in Types /\ points[k].len \in Nat
  BY <1>1 DEF IsXmlBlock
<1>6. PICK h \in Nat : DOMAIN points = 1 .. h
  BY <1>5, SequenceFacts
<1>7. dps = [k \in 1 .. h |-> dps[k]]
  BY <1>2, <1>6
<1>8. IsSequence(dps) /\ DOMAIN dps = 1 .. h
  BY <1>7, MapIsSequence, SequenceFacts
<1>9. \A k \in 1 .. h : IsPoint(dps[k])
  BY <1>2, <1>5, <1>6, XmlPointIsPoint
<1> QED
  BY <1>3, <1>4, <1>8, <1>9 DEF IsBlock, IsPoints

LEMMA XmlBlocksFacts ==
    ASSUME NEW x, IsXmlModel(x), NEW file, NEW blocks,
           blocks = [b \in DOMAIN x.blocks |-> XmlBlock(x.blocks[b])]
    PROVE  LET m == [NewModel(file) EXCEPT !.dp_blocks = blocks]
           IN IsModel(m) /\ m.file = file /\ m.fills = 0
<1>1. PICK n \in Nat : DOMAIN x.blocks = 1 .. n
  BY SequenceFacts DEF IsXmlModel
<1>2. blocks = [b \in 1 .. n |-> blocks[b]]
  BY <1>1
<1>3. IsSequence(blocks) /\ DOMAIN blocks = 1 .. n
  BY <1>2, MapIsSequence, SequenceFacts
<1>4. \A b \in 1 .. n : IsBlock(blocks[b])
  BY <1>1, XmlBlockIsBlock DEF IsXmlModel
<1> DEFINE m == [NewModel(file) EXCEPT !.dp_blocks = blocks]
<1>5. DOMAIN m = ModelFields /\ m.dp_blocks = blocks /\ m.file = file /\ m.fills = 0
  BY DEF NewModel, ModelFields
<1> HIDE DEF m
<1>6. IsModel(m)
  BY <1>3, <1>4, <1>5 DEF IsModel
<1> QED
  BY <1>5, <1>6 DEF m

LEMMA XmlModelGrows ==
    ASSUME NEW s, IsState(s), NEW x, IsXmlModel(x), NEW file
    PROVE  LET t == XmlModel(s, x, file)
           IN /\ Grows(s, t, file, Len(s.models))
              /\ Indexed(s) => Indexed(t)
              /\ x.id # NoId => Knows(t, x.id)
<1>1. PICK n \in Nat : n = Len(s.models) /\ DOMAIN s.models = 1 .. n
  BY StateFacts
<1>2. PICK t : t = XmlModel(s, x, file)
  OBVIOUS
<1>3. CASE x.id = NoId
  <2>1. t = s
    BY <1>2, <1>3 DEF XmlModel
  <2> QED
    BY <1>1, <1>2, <1>3, <2>1, GrowsReflexive
<1>4. CASE x.id # NoId
  <2>1. PICK blocks : blocks = [b \in DOMAIN x.blocks |-> XmlBlock(x.blocks[b])]
    OBVIOUS
  <2>2. PICK m : m = [NewModel(file) EXCEPT !.dp_blocks = blocks]
    OBVIOUS
  <2>3. IsModel(m) /\ m.file = file /\ m.fills = 0
    BY <2>1, <2>2, XmlBlocksFacts
  <2>4. PICK i \in Nat : i = n + 1
    OBVIOUS
  <2>5. PICK d : d = [did |-> x.id, model |-> i, name |-> NULL]
    OBVIOUS
  <2>6. t = [s EXCEPT !.models = Append(s.models, m), !.did_list = Append(s.did_list, d),
                      !.model_list = Append(s.model_list, i)]
    BY <1>1, <1>2, <1>4, <2>1, <2>2, <2>4, <2>5 DEF XmlModel
  <2>7. /\ DOMAIN t = StateFields
        /\ Appended(s.models, m, t.models)
        /\ Appended(s.did_list, d, t.did_list)
        /\ Appended(s.model_list, i, t.model_list)
    BY <2>6 DEF Appended, IsState, StateFields
  <2>8. PICK v : v = [s EXCEPT !.models = t.models]
    OBVIOUS
  <2>9. PICK w : w = [s EXCEPT !.models = t.models, !.did_list = t.did_list]
    OBVIOUS
  <2>10. /\ DOMAIN v = StateFields /\ v.models = t.models
         /\ v.did_list = s.did_list /\ v.model_list = s.model_list
    BY <2>8 DEF IsState, StateFields
  <2>11. /\ DOMAIN w = StateFields /\ w.models = t.models
         /\ w.did_list = t.did_list /\ w.model_list = s.model_list
    BY <2>9 DEF IsState, StateFields
  <2>12. Grows(s, v, file, n) /\ Len(v.models) = n + 1
    BY <1>1, <2>3, <2>7, <2>10, ModelAdded
  <2>13. IsState(v) /\ DOMAIN v.models = 1 .. n + 1
    <3>1. IsState(v)
      BY <2>12 DEF Grows
    <3> QED
      BY <2>12, <3>1, StateFacts
  <2>14. DOMAIN d = DidFields /\ d.model \in DOMAIN v.models /\ d.model > n /\ d.did = x.id /\ d.model = i
    BY <2>4, <2>5, <2>13 DEF DidFields
  <2>15. w.models = v.models /\ Appended(v.did_list, d, w.did_list) /\ w.model_list = v.model_list
    BY <2>7, <2>10, <2>11
  <2>16. /\ Grows(v, w, file, n) /\ Knows(w, d.did)
         /\ \A k \in DOMAIN w.did_list \ DOMAIN v.did_list : w.did_list[k] = d
    <3>1. DOMAIN d = DidFields /\ d.model \in DOMAIN v.models /\ d.model > n
      BY <2>14
    <3>2. IsState(v) /\ DOMAIN w = StateFields
      BY <2>11, <2>13
    <3> QED
      BY <2>15, <3>1, <3>2, DidAdded
  <2>17. IsState(w) /\ i \in DOMAIN w.models /\ \A k \in DOMAIN w.model_list : w.model_list[k] # i
    <3>1. IsState(w)
      BY <2>16 DEF Grows
    <3>2. \A k \in DOMAIN s.model_list : s.model_list[k] \in 1 .. n
      BY <1>1 DEF IsState
    <3>3. i \notin 1 .. n
      BY <2>4
    <3> QED
      BY <2>11, <2>14, <2>15, <3>1, <3>2, <3>3
  <2>18. t.models = w.models /\ t.did_list = w.did_list /\ Appended(w.model_list, i, t.model_list)
    BY <2>7, <2>11
  <2>19. Grows(w, t, file, n) /\ \E k \in DOMAIN t.model_list : t.model_list[k] = i
    BY <2>7, <2>17, <2>18, ModelListed
  <2>20. Grows(s, w, file, n)
    BY <2>12, <2>16, GrowsTransitive
  <2>21. Grows(s, t, file, n)
    BY <2>19, <2>20, GrowsTransitive
  <2>22. Indexed(s) => Indexed(t)
    <3>1. \A k \in DOMAIN t.did_list \ DOMAIN s.did_list : t.did_list[k].model = i
      BY <2>10, <2>14, <2>16, <2>18
    <3> QED
      BY <2>19, <2>21, <3>1, GrowsIndexed
  <2>23. Knows(t, x.id)
    BY <2>14, <2>16, <2>18 DEF Knows
  <2> QED
    BY <1>1, <1>2, <2>21, <2>22, <2>23
<1> QED
  BY <1>3, <1>4

LEMMA XmlStringsGrow ==
    ASSUME NEW s, IsState(s), NEW x, NEW file, NEW n
    PROVE  LET t == XmlStrings(s, x)
           IN Grows(s, t, file, n) /\ (Indexed(s) => Indexed(t))
<1>1. PICK d : d = FindDid(s, x.id)
  OBVIOUS
<1>2. PICK i : i = s.did_list[d].model
  OBVIOUS
<1>3. PICK t : t = XmlStrings(s, x)
  OBVIOUS
<1>4. CASE x.id = NoId \/ x.locale # "en" \/ d = 0 \/ ~ x.model
  <2>1. t = s
    BY <1>1, <1>3, <1>4 DEF XmlStrings
  <2> QED
    BY <1>3, <2>1, GrowsReflexive
<1>5. CASE ~(x.id = NoId \/ x.locale # "en" \/ d = 0 \/ ~ x.model)
  <2>1. d \in DOMAIN s.did_list /\ i \in DOMAIN s.models
    <3>1. d \in DOMAIN s.did_list
      BY <1>1, <1>5, FindDidFacts, StateFacts
    <3> QED
      BY <1>2, <3>1 DEF IsState
  <2>2. PICK l : l = Labelled(s.models[i], x.points)
    OBVIOUS
  <2>3. PICK m : m = [l EXCEPT !.name = x.label]
    OBVIOUS
  <2>4. IsModel(l) /\ l.file = s.models[i].file /\ l.fills = s.models[i].fills
    <3>1. IsModel(s.models[i])
      BY <2>1 DEF IsState
    <3> QED
      BY <2>2, <3>1, LabelledKeeps
  <2>5. IsModel(m) /\ m.file = s.models[i].file /\ m.fills = s.models[i].fills
    <3>1. /\ DOMAIN m = ModelFields /\ m.dp_blocks = l.dp_blocks
          /\ m.file = l.file /\ m.fills = l.fills
      BY <2>3, <2>4 DEF IsModel, ModelFields
    <3> QED
      BY <2>4, <3>1 DEF IsModel
  <2>6. t = [s EXCEPT !.did_list = [s.did_list EXCEPT ![d].name = x.label],
                      !.models = [s.models EXCEPT ![i] = m]]
    BY <1>1, <1>2, <1>3, <1>5, <2>2, <2>3 DEF XmlStrings
  <2>7. /\ DOMAIN t = StateFields
        /\ t.models = [s.models EXCEPT ![i] = m]
        /\ t.did_list = [s.did_list EXCEPT ![d].name = x.label]
        /\ t.model_list = s.model_list
    BY <2>6 DEF IsState, StateFields
  <2>8. PICK v : v = [s EXCEPT !.models = t.models]
    OBVIOUS
  <2>9. /\ DOMAIN v = StateFields /\ v.models = t.models
        /\ v.did_list = s.did_list /\ v.model_list = s.model_list
    BY <2>8 DEF IsState, StateFields
  <2>10. Grows(s, v, file, n)
    <3>1. v.models = [s.models EXCEPT ![i] = m]
      BY <2>7, <2>9
    <3> QED
      BY <2>1, <2>5, <2>9, <3>1, ModelReplaced
  <2>11. IsState(v)
    BY <2>10 DEF Grows
  <2>12. Grows(v, t, file, n) /\ DOMAIN t.did_list = DOMAIN s.did_list
    <3>1. t.did_list = [v.did_list EXCEPT ![d].name = x.label] /\ d \in DOMAIN v.did_list
      BY <2>1, <2>7, <2>9
    <3> QED
      BY <2>7, <2>9, <2>11, <3>1, DidRenamed
  <2>13. Grows(s, t, file, n)
    BY <2>10, <2>12, GrowsTransitive
  <2>14. Indexed(s) => Indexed(t)
    <3>1. DOMAIN t.did_list \ DOMAIN s.did_list = {}
      BY <2>12
    <3> QED
      BY <2>13, <3>1, GrowsIndexed
  <2> QED
    BY <1>3, <2>13, <2>14
<1> QED
  BY <1>4, <1>5

LEMMA XmlModelsGrow ==
    ASSUME NEW s, IsState(s), NEW models, IsSequence(models),
           \A k \in DOMAIN models : IsXmlModel(models[k]),
           NEW file
    PROVE  LET t == XmlModels(s, models, file)
           IN /\ Grows(s, t, file, Len(s.models))
              /\ Indexed(s) => Indexed(t)
              /\ \A k \in DOMAIN models : models[k].id # NoId => Knows(t, models[k].id)
<1>1. PICK n \in Nat : n = Len(s.models)
  BY StateFacts
<1> DEFINE N == Len(models)
<1>2. N \in Nat /\ DOMAIN models = 1 .. N
  BY SequenceFacts
<1>3. PICK f : /\ f[0] = s
               /\ \A k \in 1 .. N : f[k] = XmlModel(f[k - 1], models[k], file)
               /\ XmlModels(s, models, file) = f[N]
  BY <1>2, XmlModelsSteps
<1> HIDE DEF N
<1> DEFINE Read(k) == /\ Grows(s, f[k], file, n)
                      /\ Indexed(s) => Indexed(f[k])
                      /\ \A j \in 1 .. k : models[j].id # NoId => Knows(f[k], models[j].id)
           T == {k \in 0 .. N : Read(k)}
<1>4. 0 \in T
  <2>1. Grows(s, f[0], file, n) /\ (Indexed(s) => Indexed(f[0]))
    BY <1>3, GrowsReflexive
  <2>2. 1 .. 0 = {}
    OBVIOUS
  <2> QED
    BY <1>2, <2>1, <2>2
<1>5. ASSUME NEW k \in 1 .. N, k - 1 \in T PROVE k \in T
  <2>1. PICK t : t = f[k - 1]
    OBVIOUS
  <2>2. PICK u : u = f[k]
    OBVIOUS
  <2>3. PICK x : x = models[k]
    OBVIOUS
  <2>4. IsXmlModel(x) /\ u = XmlModel(t, x, file)
    BY <1>2, <1>3, <2>1, <2>2, <2>3
  <2>5. /\ Grows(s, t, file, n)
        /\ Indexed(s) => Indexed(t)
        /\ \A j \in 1 .. k - 1 : models[j].id # NoId => Knows(t, models[j].id)
    BY <1>5, <2>1
  <2>6. IsState(t)
    BY <2>5 DEF Grows
  <2>7. /\ Grows(t, u, file, Len(t.models))
        /\ Indexed(t) => Indexed(u)
        /\ x.id # NoId => Knows(u, x.id)
    BY <2>4, <2>6, XmlModelGrows
  <2>8. Grows(t, u, file, n)
    <3>1. Len(t.models) \in Nat /\ n <= Len(t.models)
      BY <1>1, <2>5, <2>6, StateFacts DEF Grows
    <3> QED
      BY <2>7, <3>1, GrowsWeaker
  <2>9. Grows(s, u, file, n)
    BY <2>5, <2>8, GrowsTransitive
  <2>10. ASSUME NEW j \in 1 .. k, models[j].id # NoId PROVE Knows(u, models[j].id)
    <3>1. CASE j = k
      BY <2>3, <2>7, <2>10, <3>1
    <3>2. CASE j # k
      <4>1. j \in 1 .. k - 1
        BY <3>2
      <4>2. Knows(t, models[j].id)
        BY <2>5, <2>10, <4>1
      <4> QED
        BY <2>6, <2>8, <4>2, GrowsKnows
    <3> QED
      BY <3>1, <3>2
  <2> QED
    BY <2>2, <2>5, <2>7, <2>9, <2>10
<1>6. Read(N)
  <2> HIDE DEF Read
  <2>1. N \in T
    <3> HIDE DEF T
    <3>1. 0 .. N \subseteq T
      BY <1>2, <1>4, <1>5, UpTo
    <3> QED
      BY <1>2, <3>1
  <2> QED
    BY <2>1
<1> QED
  BY <1>1, <1>2, <1>3, <1>6

LEMMA AllXmlStringsGrow ==
    ASSUME NEW s, IsState(s), NEW strings, IsSequence(strings), NEW file, NEW n
    PROVE  LET t == AllXmlStrings(s, strings)
           IN Grows(s, t, file, n) /\ (Indexed(s) => Indexed(t))
<1> DEFINE N == Len(strings)
<1>1. N \in Nat
  BY SequenceFacts
<1>2. PICK f : /\ f[0] = s
               /\ \A k \in 1 .. N : f[k] = XmlStrings(f[k - 1], strings[k])
               /\ AllXmlStrings(s, strings) = f[N]
  BY <1>1, XmlStringsSteps
<1> HIDE DEF N
<1> DEFINE Read(k) == Grows(s, f[k], file, n) /\ (Indexed(s) => Indexed(f[k]))
           T == {k \in 0 .. N : Read(k)}
<1>3. 0 \in T
  BY <1>1, <1>2, GrowsReflexive
<1>4. ASSUME NEW k \in 1 .. N, k - 1 \in T PROVE k \in T
  <2>1. PICK t : t = f[k - 1]
    OBVIOUS
  <2>2. PICK u : u = XmlStrings(t, strings[k]) /\ u = f[k]
    BY <1>2, <2>1
  <2>3. Grows(s, t, file, n) /\ (Indexed(s) => Indexed(t)) /\ IsState(t)
    BY <1>4, <2>1 DEF Grows
  <2>4. Grows(t, u, file, n) /\ (Indexed(t) => Indexed(u))
    BY <2>2, <2>3, XmlStringsGrow
  <2>5. Grows(s, u, file, n)
    BY <2>3, <2>4, GrowsTransitive
  <2> QED
    BY <2>2, <2>3, <2>4, <2>5
<1>5. Read(N)
  <2> HIDE DEF Read
  <2>1. N \in T
    <3> HIDE DEF T
    <3>1. 0 .. N \subseteq T
      BY <1>1, <1>3, <1>4, UpTo
    <3> QED
      BY <1>1, <3>1
  <2> QED
    BY <2>1
<1> QED
  BY <1>2, <1>5

LEMMA ParseXmlGrows ==
    ASSUME NEW s, IsState(s), NEW x, IsSequence(x.models), IsSequence(x.strings),
           \A k \in DOMAIN x.models : IsXmlModel(x.models[k]),
           NEW file
    PROVE  LET t == ParseXml(s, x, file)
           IN /\ Grows(s, t, file, Len(s.models))
              /\ Indexed(s) => Indexed(t)
              /\ \A k \in DOMAIN x.models :
                    x.models[k].id # NoId => Knows(t, x.models[k].id)
<1>1. PICK t : t = XmlModels(s, x.models, file)
  OBVIOUS
<1>2. /\ Grows(s, t, file, Len(s.models))
      /\ Indexed(s) => Indexed(t)
      /\ \A k \in DOMAIN x.models : x.models[k].id # NoId => Knows(t, x.models[k].id)
  BY <1>1, XmlModelsGrow
<1>3. IsState(t)
  BY <1>2 DEF Grows
<1>4. PICK u : u = AllXmlStrings(t, x.strings)
  OBVIOUS
<1>5. Grows(t, u, file, Len(s.models)) /\ (Indexed(t) => Indexed(u))
  BY <1>3, <1>4, AllXmlStringsGrow
<1>6. Grows(s, u, file, Len(s.models))
  BY <1>2, <1>5, GrowsTransitive
<1>7. \A k \in DOMAIN x.models : x.models[k].id # NoId => Knows(u, x.models[k].id)
  BY <1>2, <1>3, <1>5, GrowsKnows
<1>8. u = ParseXml(s, x, file)
  BY <1>1, <1>4 DEF ParseXml
<1> QED
  BY <1>2, <1>5, <1>6, <1>7, <1>8

-----------------------------------------------------------------------------
\* Places

IsPlace(p) == p = <<p[1], p[2], p[3]>> /\ p[1] \in Nat /\ p[2] \in {1, 2} /\ p[3] \in Nat

LEMMA SourcesFacts ==
    ASSUME NEW r, IsRun(r)
    PROVE  /\ IsSequence(Sources(r))
           /\ Len(Sources(r)) = IF NamesFiles(r) THEN Len(r.args) ELSE Len(r.path)
<1>1. CASE NamesFiles(r)
  BY <1>1 DEF Sources, IsRun
<1>2. CASE ~NamesFiles(r)
  <2>1. PICK n \in Nat : n = Len(r.path) /\ DOMAIN r.path = 1 .. n
    BY SequenceFacts DEF IsRun
  <2>2. Sources(r) = [k \in 1 .. n |-> [opt |-> "M", value |-> r.path[k]]]
    BY <1>2, <2>1 DEF Sources
  <2>3. Sources(r) = [k \in 1 .. n |-> Sources(r)[k]]
    BY <2>2
  <2> QED
    BY <1>2, <2>1, <2>3, MapIsSequence
<1> QED
  BY <1>1, <1>2

LEMMA ListingsNat ==
    ASSUME NEW r, IsRun(r) PROVE Listings(r) \in SUBSET Nat
<1>1. ASSUME NEW d \in DOMAIN r.dirs PROVE DOMAIN r.dirs[d] \in SUBSET Nat
  BY SequenceFacts DEF IsRun
<1> QED
  BY <1>1 DEF Listings

LEMMA PositionFacts ==
    ASSUME NEW r, IsRun(r), NEW f, NEW p \in Positions(r, f)
    PROVE  /\ IsPlace(p) /\ p[1] \in 1 .. Len(Sources(r))
           /\ StandsAt(r, f, Sources(r)[p[1]], p[2], p[3])
<1>1. DOMAIN Sources(r) = 1 .. Len(Sources(r)) /\ Len(Sources(r)) \in Nat
  BY SourcesFacts, SequenceFacts
<1>2. p \in (DOMAIN Sources(r)) \X {1, 2} \X Listings(r)
  BY DEF Positions
<1>3. /\ p = <<p[1], p[2], p[3]>>
      /\ p[1] \in DOMAIN Sources(r) /\ p[2] \in {1, 2} /\ p[3] \in Listings(r)
  BY <1>2
<1>4. StandsAt(r, f, Sources(r)[p[1]], p[2], p[3])
  BY DEF Positions
<1> QED
  BY <1>1, <1>3, <1>4, ListingsNat DEF IsPlace

\* The other way round.
LEMMA StandsPosition ==
    ASSUME NEW r, IsRun(r), NEW f, NEW c \in 1 .. Len(Sources(r)), NEW l \in {1, 2}, NEW n,
           StandsAt(r, f, Sources(r)[c], l, n)
    PROVE  /\ <<c, l, n>> \in Positions(r, f) /\ IsPlace(<<c, l, n>>)
<1>1. DOMAIN Sources(r) = 1 .. Len(Sources(r)) /\ Len(Sources(r)) \in Nat
  BY SourcesFacts, SequenceFacts
<1>2. n \in Listings(r)
  BY DEF StandsAt, Listings
<1>3. PICK p : p = <<c, l, n>>
  OBVIOUS
<1>4. p \in (DOMAIN Sources(r)) \X {1, 2} \X Listings(r)
  BY <1>1, <1>2, <1>3
<1>5. p[1] = c /\ p[2] = l /\ p[3] = n
  BY <1>3
<1>6. p \in Positions(r, f)
  BY <1>4, <1>5 DEF Positions
<1> QED
  BY <1>3, <1>6, PositionFacts

LEMMA BeforeTransitive ==
    ASSUME NEW p, NEW q, NEW o, IsPlace(p), IsPlace(q), IsPlace(o), Before(p, q), Before(q, o)
    PROVE  Before(p, o)
  BY DEF IsPlace, Before

LEMMA BeforeTotal ==
    ASSUME NEW p, NEW q, IsPlace(p), IsPlace(q), p # q
    PROVE  Before(p, q) \/ Before(q, p)
<1>1. p[1] # q[1] \/ p[2] # q[2] \/ p[3] # q[3]
  BY DEF IsPlace
<1>2. /\ p[1] \in Nat /\ p[2] \in Nat /\ p[3] \in Nat
      /\ q[1] \in Nat /\ q[2] \in Nat /\ q[3] \in Nat
  BY DEF IsPlace
<1> QED
  BY <1>1, <1>2 DEF Before

LEMMA BeforeStrict ==
    ASSUME NEW p, IsPlace(p) PROVE ~Before(p, p)
  BY DEF IsPlace, Before

-----------------------------------------------------------------------------
\* Directories

\* The files of a list have these places in a directory, and no others are missing.
Chosen(names, suffixes, list, n, at) ==
    /\ IsSequence(list)
    /\ \A j \in 1 .. Len(list) :
          /\ at[j] \in 1 .. n
          /\ Files[names[at[j]]].suffix \in suffixes
          /\ list[j] = [name |-> names[at[j]], xml |-> suffixes = XmlSuffixes]
    /\ \A j, h \in 1 .. Len(list) : j < h => at[j] < at[h]
    /\ \A k \in 1 .. n : Files[names[k]].suffix \in suffixes =>
          \E j \in 1 .. Len(list) : at[j] = k

LEMMA FilteredChosen ==
    ASSUME NEW names, NEW suffixes, NEW list, NEW n \in Nat, NEW at,
           Chosen(names, suffixes, list, n, at)
    PROVE  \E next : Chosen(names, suffixes, Filtered(list, names[n + 1], suffixes), n + 1, next)
<1>1. PICK a \in Nat : a = Len(list)
  BY SequenceFacts DEF Chosen
<1>2. PICK name : name = names[n + 1]
  OBVIOUS
<1>3. CASE Files[name].suffix \notin suffixes
  <2>1. Filtered(list, name, suffixes) = list
    BY <1>3 DEF Filtered
  <2>2. \A k \in 1 .. n + 1 : Files[names[k]].suffix \in suffixes => k \in 1 .. n
    BY <1>2, <1>3
  <2>3. \A k \in 1 .. n : k \in 1 .. n + 1
    OBVIOUS
  <2>4. Chosen(names, suffixes, list, n + 1, at)
    BY <2>2, <2>3 DEF Chosen
  <2> QED
    BY <1>2, <2>1, <2>4
<1>4. CASE Files[name].suffix \in suffixes
  <2>1. PICK e : e = [name |-> name, xml |-> suffixes = XmlSuffixes]
    OBVIOUS
  <2>2. PICK long : long = Filtered(list, name, suffixes)
    OBVIOUS
  <2>3. long = Append(list, e)
    BY <1>4, <2>1, <2>2 DEF Filtered
  <2>4. IsSequence(list)
    BY DEF Chosen
  <2>5. /\ IsSequence(long) /\ Len(long) = a + 1
        /\ \A j \in 1 .. a : long[j] = list[j]
        /\ long[a + 1] = e
    BY <1>1, <2>3, <2>4, AppendFacts
  <2>6. PICK next : next = [j \in 1 .. a + 1 |-> IF j = a + 1 THEN n + 1 ELSE at[j]]
    OBVIOUS
  <2>7. next[a + 1] = n + 1 /\ \A j \in 1 .. a : next[j] = at[j]
    BY <2>6
  <2>8. \A j \in 1 .. a + 1 : j \in 1 .. a \/ j = a + 1
    OBVIOUS
  <2>9. \A j \in 1 .. a : at[j] \in 1 .. n
    BY <1>1 DEF Chosen
  <2>10. \A j \in 1 .. a + 1 : next[j] \in 1 .. n + 1
    BY <2>7, <2>8, <2>9
  <2>11. \A j \in 1 .. a + 1 : /\ Files[names[next[j]]].suffix \in suffixes
                               /\ long[j] = [name |-> names[next[j]], xml |-> suffixes = XmlSuffixes]
    <3> TAKE j \in 1 .. a + 1
    <3>1. CASE j \in 1 .. a
      <4>1. next[j] = at[j] /\ long[j] = list[j]
        BY <2>5, <2>7, <3>1
      <4>2. /\ Files[names[at[j]]].suffix \in suffixes
            /\ list[j] = [name |-> names[at[j]], xml |-> suffixes = XmlSuffixes]
        BY <1>1, <3>1 DEF Chosen
      <4> QED
        BY <4>1, <4>2, Zenon
    <3>2. CASE j = a + 1
      BY <1>2, <1>4, <2>1, <2>5, <2>7, <3>2
    <3> QED
      BY <2>8, <3>1, <3>2
  <2>12. \A j, h \in 1 .. a + 1 : j < h => next[j] < next[h]
    <3> SUFFICES ASSUME NEW j \in 1 .. a + 1, NEW h \in 1 .. a + 1, j < h
                 PROVE  next[j] < next[h]
      OBVIOUS
    <3>1. j \in 1 .. a
      BY <2>8
    <3>2. CASE h \in 1 .. a
      <4>1. at[j] < at[h]
        BY <1>1, <3>1, <3>2 DEF Chosen
      <4> QED
        BY <2>7, <3>1, <3>2, <4>1
    <3>3. CASE h = a + 1
      BY <2>7, <2>9, <3>1, <3>3
    <3> QED
      BY <2>8, <3>2, <3>3
  <2>13. ASSUME NEW k \in 1 .. n + 1, Files[names[k]].suffix \in suffixes
         PROVE  \E j \in 1 .. a + 1 : next[j] = k
    <3>1. CASE k = n + 1
      BY <2>7, <3>1
    <3>2. CASE k # n + 1
      <4>1. k \in 1 .. n
        BY <3>2
      <4>2. PICK j \in 1 .. a : at[j] = k
        BY <1>1, <2>13, <4>1 DEF Chosen
      <4>3. j \in 1 .. a + 1
        BY <4>2
      <4> QED
        BY <2>7, <4>2, <4>3
    <3> QED
      BY <3>1, <3>2
  <2>14. Chosen(names, suffixes, long, n + 1, next)
    BY <2>5, <2>10, <2>11, <2>12, <2>13 DEF Chosen
  <2> QED
    BY <1>2, <2>2, <2>14
<1> QED
  BY <1>3, <1>4

LEMMA FilesOfChosen ==
    ASSUME NEW names, IsSequence(names), NEW suffixes
    PROVE  \E at : Chosen(names, suffixes, FilesOf(names, suffixes), Len(names), at)
<1> DEFINE N == Len(names)
<1>1. N \in Nat
  BY SequenceFacts
<1>2. PICK f : /\ f[0] = <<>>
               /\ \A k \in 1 .. N : f[k] = Filtered(f[k - 1], names[k], suffixes)
               /\ FilesOf(names, suffixes) = f[N]
  BY <1>1, FilesOfSteps
<1> HIDE DEF N
<1> DEFINE T == {k \in 0 .. N : \E at : Chosen(names, suffixes, f[k], k, at)}
<1>3. 0 \in T
  <2>1. 1 .. 0 = {} /\ IsSequence(f[0]) /\ Len(f[0]) = 0
    BY <1>2, EmptyIsSequence
  <2>2. Chosen(names, suffixes, f[0], 0, <<>>)
    BY <2>1 DEF Chosen
  <2> QED
    BY <1>1, <2>2
<1>4. ASSUME NEW k \in 1 .. N, k - 1 \in T PROVE k \in T
  <2>1. PICK n \in Nat : n = k - 1 /\ k = n + 1
    BY <1>1
  <2>2. PICK list : list = f[n]
    OBVIOUS
  <2>3. PICK at : Chosen(names, suffixes, list, n, at)
    BY <1>4, <2>1, <2>2
  <2>4. f[k] = Filtered(list, names[n + 1], suffixes)
    BY <1>2, <2>1, <2>2
  <2>5. \E next : Chosen(names, suffixes, f[k], n + 1, next)
    BY <2>3, <2>4, FilteredChosen
  <2> QED
    BY <2>1, <2>5
<1>5. \E at : Chosen(names, suffixes, f[N], N, at)
  <2>1. N \in T
    <3> HIDE DEF T
    <3>1. 0 .. N \subseteq T
      BY <1>1, <1>3, <1>4, UpTo
    <3> QED
      BY <1>1, <3>1
  <2> QED
    BY <2>1
<1> QED
  BY <1>2, <1>5 DEF N

-----------------------------------------------------------------------------
\* What is still to load of a source

\* The files to load stand at these places of source c, in their order; a place
\* of the source that is not among them comes before them all.
Plan(r, list, c, pos) ==
    /\ IsSequence(list)
    /\ \A j \in 1 .. Len(list) :
          /\ pos[j] \in Positions(r, list[j].name)
          /\ pos[j][1] = c /\ pos[j][2] = IF list[j].xml THEN 2 ELSE 1
    /\ \A j, h \in 1 .. Len(list) : j < h => Before(pos[j], pos[h])
    /\ \A f : \A p \in Positions(r, f) : p[1] = c =>
          \/ \E j \in 1 .. Len(list) : pos[j] = p
          \/ \A j \in 1 .. Len(list) : Before(p, pos[j])

\* None of the source has been loaded.
Fresh(r, list, c, pos) ==
    /\ Plan(r, list, c, pos)
    /\ \A f : \A p \in Positions(r, f) : p[1] = c => \E j \in 1 .. Len(list) : pos[j] = p

\* A place whose file has been loaded.
Done(p, list, c, pos) ==
    p[1] < c \/ (p[1] = c /\ \A j \in 1 .. Len(list) : Before(p, pos[j]))

LEMMA NothingPlanned ==
    ASSUME NEW r, IsRun(r), NEW c, NEW pos,
           \A f : \A p \in Positions(r, f) : p[1] # c
    PROVE  Fresh(r, <<>>, c, pos)
<1>1. 1 .. 0 = {}
  OBVIOUS
<1> QED
  BY <1>1, EmptyIsSequence DEF Fresh, Plan

LEMMA FilePlanned ==
    ASSUME NEW r, IsRun(r), NEW c \in 1 .. Len(Sources(r)), Sources(r)[c].opt \in {"m", "X"}
    PROVE  \E pos : Fresh(r, <<[name |-> Sources(r)[c].value, xml |-> Sources(r)[c].opt = "X"]>>,
                          c, pos)
<1>1. PICK e : e = [name |-> Sources(r)[c].value, xml |-> Sources(r)[c].opt = "X"]
  OBVIOUS
<1>2. PICK l \in {1, 2} : l = IF Sources(r)[c].opt = "X" THEN 2 ELSE 1
  OBVIOUS
<1>3. e.name = Sources(r)[c].value /\ l = IF e.xml THEN 2 ELSE 1
  BY <1>1, <1>2
<1>4. StandsAt(r, e.name, Sources(r)[c], l, 0)
  BY <1>2, <1>3 DEF StandsAt
<1>5. PICK q : q = <<c, l, 0>>
  OBVIOUS
<1>6. q \in Positions(r, e.name) /\ q[1] = c /\ q[2] = l
  BY <1>4, <1>5, StandsPosition
<1>7. ASSUME NEW f, NEW p \in Positions(r, f), p[1] = c PROVE p = q
  <2>1. IsPlace(p) /\ StandsAt(r, f, Sources(r)[c], p[2], p[3])
    BY <1>7, PositionFacts
  <2>2. p[3] = 0 /\ Sources(r)[c].opt = IF p[2] = 1 THEN "m" ELSE "X"
    BY <2>1 DEF StandsAt
  <2>3. p[2] = l
    BY <1>2, <2>1, <2>2 DEF IsPlace
  <2>4. p = <<p[1], p[2], p[3]>>
    BY <2>1 DEF IsPlace
  <2> QED
    BY <1>5, <1>7, <2>2, <2>3, <2>4
<1>8. PICK list : list = <<e>>
  OBVIOUS
<1>9. IsSequence(list) /\ Len(list) = 1 /\ list[1] = e /\ 1 .. 1 = {1}
  <2>1. list = [k \in 1 .. 1 |-> list[k]] /\ 1 \in Nat
    BY <1>8
  <2>2. IsSequence(list) /\ Len(list) = 1
    BY <2>1, MapIsSequence
  <2> QED
    BY <1>8, <2>2
<1>10. PICK pos : pos = [j \in {1} |-> q]
  OBVIOUS
<1>11. pos[1] = q
  BY <1>10
<1>12. Plan(r, list, c, pos)
  <2>1. \A j \in 1 .. Len(list) : /\ pos[j] \in Positions(r, list[j].name)
                                  /\ pos[j][1] = c /\ pos[j][2] = IF list[j].xml THEN 2 ELSE 1
    BY <1>3, <1>6, <1>9, <1>11
  <2>2. \A j, h \in 1 .. Len(list) : j < h => Before(pos[j], pos[h])
    BY <1>9
  <2>3. \A f : \A p \in Positions(r, f) : p[1] = c => \E j \in 1 .. Len(list) : pos[j] = p
    BY <1>7, <1>9, <1>11
  <2> QED
    BY <1>9, <2>1, <2>2, <2>3 DEF Plan
<1>13. \A f : \A p \in Positions(r, f) : p[1] = c => \E j \in 1 .. Len(list) : pos[j] = p
  BY <1>7, <1>9, <1>11
<1> QED
  BY <1>1, <1>8, <1>12, <1>13 DEF Fresh

LEMMA DirPlanned ==
    ASSUME NEW r, IsRun(r), NEW c \in 1 .. Len(Sources(r)), Sources(r)[c].opt = "M"
    PROVE  \E pos : Fresh(r, SearchDir(r.dirs, Sources(r)[c].value), c, pos)
<1>1. PICK dir : dir = Sources(r)[c].value
  OBVIOUS
<1>2. CASE dir \notin DOMAIN r.dirs
  <2>1. SearchDir(r.dirs, dir) = <<>>
    BY <1>2 DEF SearchDir
  <2>2. ASSUME NEW f, NEW p \in Positions(r, f), p[1] = c PROVE FALSE
    <3>1. StandsAt(r, f, Sources(r)[c], p[2], p[3])
      BY <2>2, PositionFacts
    <3> QED
      BY <1>1, <1>2, <3>1 DEF StandsAt
  <2> QED
    BY <1>1, <2>1, <2>2, NothingPlanned
<1>3. CASE dir \in DOMAIN r.dirs
  <2>1. PICK names : names = r.dirs[dir]
    OBVIOUS
  <2>2. IsSequence(names)
    BY <1>3, <2>1 DEF IsRun
  <2>3. PICK n \in Nat : n = Len(names) /\ DOMAIN names = 1 .. n
    BY <2>2, SequenceFacts
  <2>4. PICK A : A = FilesOf(names, SlangSuffixes)
    OBVIOUS
  <2>5. PICK B : B = FilesOf(names, XmlSuffixes)
    OBVIOUS
  <2>6. PICK at1 : Chosen(names, SlangSuffixes, A, n, at1)
    BY <2>2, <2>3, <2>4, FilesOfChosen
  <2>7. PICK at2 : Chosen(names, XmlSuffixes, B, n, at2)
    BY <2>2, <2>3, <2>5, FilesOfChosen
  <2>8. PICK a \in Nat : a = Len(A)
    BY <2>6, SequenceFacts DEF Chosen
  <2>9. PICK b \in Nat : b = Len(B)
    BY <2>7, SequenceFacts DEF Chosen
  <2>10. PICK list : list = A \o B
    OBVIOUS
  <2>11. list = SearchDir(r.dirs, dir)
    BY <1>3, <2>1, <2>4, <2>5, <2>10 DEF SearchDir
  <2>12. /\ IsSequence(list) /\ Len(list) = a + b
         /\ \A j \in 1 .. a : list[j] = A[j]
         /\ \A j \in 1 .. b : list[a + j] = B[j]
    BY <2>6, <2>7, <2>8, <2>9, <2>10, ConcatFacts DEF Chosen
  <2>13. SlangSuffixes # XmlSuffixes
    BY DEF SlangSuffixes, XmlSuffixes
  <2>14. \A j \in 1 .. a : /\ at1[j] \in 1 .. n
                           /\ Files[names[at1[j]]].suffix \in SlangSuffixes
                           /\ A[j] = [name |-> names[at1[j]], xml |-> FALSE]
    BY <2>6, <2>8, <2>13 DEF Chosen
  <2>15. \A j \in 1 .. b : /\ at2[j] \in 1 .. n
                           /\ Files[names[at2[j]]].suffix \in XmlSuffixes
                           /\ B[j] = [name |-> names[at2[j]], xml |-> TRUE]
    BY <2>7, <2>9 DEF Chosen
  <2>16. PICK pos : pos = [j \in 1 .. a + b |-> IF j <= a THEN <<c, 1, at1[j]>>
                                                ELSE <<c, 2, at2[j - a]>>]
    OBVIOUS
  <2>17. \A j \in 1 .. a : j \in 1 .. a + b /\ pos[j] = <<c, 1, at1[j]>>
    BY <2>16
  <2>18. \A j \in 1 .. b : a + j \in 1 .. a + b /\ pos[a + j] = <<c, 2, at2[j]>>
    <3> TAKE j \in 1 .. b
    <3>1. a + j \in 1 .. a + b /\ ~(a + j <= a) /\ (a + j) - a = j
      OBVIOUS
    <3> QED
      BY <2>16, <3>1
  <2>19. \A j \in 1 .. a + b : j \in 1 .. a \/ \E h \in 1 .. b : j = a + h
    <3> TAKE j \in 1 .. a + b
    <3>1. CASE j <= a
      BY <3>1
    <3>2. CASE ~(j <= a)
      <4>1. j - a \in 1 .. b /\ j = a + (j - a)
        BY <3>2
      <4> QED
        BY <4>1
    <3> QED
      BY <3>1, <3>2
  <2>20. \A j \in 1 .. a : StandsAt(r, names[at1[j]], Sources(r)[c], 1, at1[j])
    BY <1>1, <1>3, <2>1, <2>3, <2>14 DEF StandsAt
  <2>21. \A j \in 1 .. b : StandsAt(r, names[at2[j]], Sources(r)[c], 2, at2[j])
    <3> TAKE j \in 1 .. b
    <3>1. PICK k : k = at2[j]
      OBVIOUS
    <3>2. k \in DOMAIN r.dirs[dir] /\ Files[names[k]].suffix \in XmlSuffixes
      BY <2>1, <2>3, <2>15, <3>1
    <3>3. StandsAt(r, names[k], Sources(r)[c], 2, k)
      BY <1>1, <1>3, <2>1, <3>2 DEF StandsAt
    <3> QED
      BY <3>1, <3>3
  <2>22. ASSUME NEW j \in 1 .. a + b
         PROVE  /\ pos[j] \in Positions(r, list[j].name)
                /\ pos[j][1] = c /\ pos[j][2] = IF list[j].xml THEN 2 ELSE 1
    <3>1. CASE j \in 1 .. a
      <4>1. pos[j] = <<c, 1, at1[j]>> /\ list[j].name = names[at1[j]] /\ list[j].xml = FALSE
        <5>1. pos[j] = <<c, 1, at1[j]>> /\ list[j] = A[j]
          BY <2>12, <2>17, <3>1
        <5>2. A[j] = [name |-> names[at1[j]], xml |-> FALSE]
          BY <2>14, <3>1
        <5> QED
          BY <5>1, <5>2
      <4>2. <<c, 1, at1[j]>> \in Positions(r, names[at1[j]])
        BY <2>20, <3>1, StandsPosition
      <4> QED
        BY <4>1, <4>2
    <3>2. ASSUME NEW h \in 1 .. b, j = a + h
          PROVE  /\ pos[j] \in Positions(r, list[j].name)
                 /\ pos[j][1] = c /\ pos[j][2] = IF list[j].xml THEN 2 ELSE 1
      <4>1. pos[j] = <<c, 2, at2[h]>> /\ list[j].name = names[at2[h]] /\ list[j].xml = TRUE
        <5>1. pos[j] = <<c, 2, at2[h]>> /\ list[j] = B[h]
          BY <2>12, <2>18, <3>2
        <5>2. B[h] = [name |-> names[at2[h]], xml |-> TRUE]
          BY <2>15, <3>2
        <5> QED
          BY <5>1, <5>2
      <4>2. <<c, 2, at2[h]>> \in Positions(r, names[at2[h]])
        BY <2>21, <3>2, StandsPosition
      <4> QED
        BY <4>1, <4>2
    <3> QED
      BY <2>19, <3>1, <3>2
  <2>23. ASSUME NEW j \in 1 .. a + b, NEW h \in 1 .. a + b, j < h
         PROVE  Before(pos[j], pos[h])
    <3>1. CASE h \in 1 .. a
      <4>1. j \in 1 .. a
        BY <2>23, <3>1
      <4>2. at1[j] < at1[h]
        BY <2>6, <2>8, <2>23, <3>1, <4>1 DEF Chosen
      <4>3. pos[j] = <<c, 1, at1[j]>> /\ pos[h] = <<c, 1, at1[h]>>
        BY <2>17, <3>1, <4>1
      <4> QED
        BY <4>2, <4>3 DEF Before
    <3>2. ASSUME NEW k \in 1 .. b, h = a + k PROVE Before(pos[j], pos[h])
      <4>1. pos[h] = <<c, 2, at2[k]>>
        BY <2>18, <3>2
      <4>2. CASE j \in 1 .. a
        <5>1. pos[j] = <<c, 1, at1[j]>>
          BY <2>17, <4>2
        <5> QED
          BY <4>1, <5>1 DEF Before
      <4>3. ASSUME NEW i \in 1 .. b, j = a + i PROVE Before(pos[j], pos[h])
        <5>1. pos[j] = <<c, 2, at2[i]>>
          BY <2>18, <4>3
        <5>2. i < k
          BY <2>23, <3>2, <4>3
        <5>3. at2[i] < at2[k]
          BY <2>7, <2>9, <5>2 DEF Chosen
        <5> QED
          BY <4>1, <5>1, <5>3 DEF Before
      <4> QED
        BY <2>19, <4>2, <4>3
    <3> QED
      BY <2>19, <3>1, <3>2
  <2>24. ASSUME NEW f, NEW p \in Positions(r, f), p[1] = c
         PROVE  \E j \in 1 .. a + b : pos[j] = p
    <3>1. IsPlace(p) /\ StandsAt(r, f, Sources(r)[c], p[2], p[3])
      BY <2>24, PositionFacts
    <3>2. PICK k \in 1 .. n : k = p[3] /\ names[k] = f
      BY <1>1, <2>1, <2>3, <3>1 DEF StandsAt
    <3>3. Files[f].suffix \in IF p[2] = 1 THEN SlangSuffixes ELSE XmlSuffixes
      BY <1>1, <3>1 DEF StandsAt
    <3>4. p = <<c, p[2], k>> /\ p[2] \in {1, 2}
      BY <2>24, <3>1, <3>2 DEF IsPlace
    <3>5. CASE p[2] = 1
      <4>1. \A i \in 1 .. n : Files[names[i]].suffix \in SlangSuffixes =>
                \E j \in 1 .. a : at1[j] = i
        BY <2>6, <2>8 DEF Chosen
      <4>2. PICK j \in 1 .. a : at1[j] = k
        BY <3>2, <3>3, <3>5, <4>1
      <4> QED
        BY <2>17, <3>4, <3>5, <4>2
    <3>6. CASE p[2] = 2
      <4>1. \A i \in 1 .. n : Files[names[i]].suffix \in XmlSuffixes =>
                \E j \in 1 .. b : at2[j] = i
        BY <2>7, <2>9 DEF Chosen
      <4>2. PICK j \in 1 .. b : at2[j] = k
        BY <3>2, <3>3, <3>6, <4>1
      <4> QED
        BY <2>18, <3>4, <3>6, <4>2
    <3> QED
      BY <3>4, <3>5, <3>6
  <2>25. Fresh(r, list, c, pos)
    BY <2>12, <2>22, <2>23, <2>24 DEF Fresh, Plan
  <2> QED
    BY <1>1, <2>11, <2>25
<1> QED
  BY <1>2, <1>3

\* One file stands at a place.
LEMMA OneFileEach ==
    ASSUME NEW r, IsRun(r), NEW f, NEW g, NEW p \in Positions(r, f), p \in Positions(r, g)
    PROVE  f = g
<1>1. /\ StandsAt(r, f, Sources(r)[p[1]], p[2], p[3])
      /\ StandsAt(r, g, Sources(r)[p[1]], p[2], p[3])
  BY PositionFacts
<1>2. PICK source : source = Sources(r)[p[1]]
  OBVIOUS
<1>3. CASE source.opt = "M"
  BY <1>1, <1>2, <1>3 DEF StandsAt
<1>4. CASE source.opt # "M"
  BY <1>1, <1>2, <1>4 DEF StandsAt
<1> QED
  BY <1>3, <1>4

LEMMA TailPlanned ==
    ASSUME NEW r, IsRun(r), NEW list, NEW c, NEW pos, Plan(r, list, c, pos), list # <<>>
    PROVE  \E next :
              /\ Plan(r, Tail(list), c, next)
              /\ pos[1] \in Positions(r, Head(list).name)
              /\ pos[1][2] = IF Head(list).xml THEN 2 ELSE 1
              /\ Done(pos[1], Tail(list), c, next)
              /\ ~Done(pos[1], list, c, pos)
              /\ \A f : \A p \in Positions(r, f) :
                    /\ Done(p, list, c, pos) => Done(p, Tail(list), c, next)
                    /\ Done(p, Tail(list), c, next) => Done(p, list, c, pos) \/ p = pos[1]
                    /\ Done(p, list, c, pos) => Before(p, pos[1])
                    /\ ~Done(p, list, c, pos) => p = pos[1] \/ Before(pos[1], p)
<1>1. PICK n \in Nat : n = Len(list)
  BY SequenceFacts DEF Plan
<1>2. PICK rest : rest = Tail(list)
  OBVIOUS
<1>3. /\ n >= 1 /\ Head(list) = list[1]
      /\ IsSequence(rest) /\ Len(rest) = n - 1
      /\ \A k \in 1 .. n - 1 : rest[k] = list[k + 1]
  BY <1>1, <1>2, TailFacts DEF Plan
<1>4. PICK next : next = [k \in 1 .. n - 1 |-> pos[k + 1]]
  OBVIOUS
<1>5. \A k \in 1 .. n - 1 : k + 1 \in 1 .. n /\ next[k] = pos[k + 1] /\ rest[k] = list[k + 1]
  BY <1>1, <1>3, <1>4
<1>6. \A j \in 1 .. n :
          /\ pos[j] \in Positions(r, list[j].name)
          /\ pos[j][1] = c /\ pos[j][2] = IF list[j].xml THEN 2 ELSE 1
          /\ IsPlace(pos[j])
  BY <1>1, PositionFacts DEF Plan
<1>7. \A j, h \in 1 .. n : j < h => Before(pos[j], pos[h])
  BY <1>1 DEF Plan
<1>8. \A f : \A p \in Positions(r, f) : p[1] = c =>
          \/ \E j \in 1 .. n : pos[j] = p
          \/ \A j \in 1 .. n : Before(p, pos[j])
  BY <1>1 DEF Plan
<1>9. \A j \in 1 .. n : j = 1 \/ \E k \in 1 .. n - 1 : j = k + 1
  <2> TAKE j \in 1 .. n
  <2>1. CASE j # 1
    <3>1. j - 1 \in 1 .. n - 1 /\ j = (j - 1) + 1
      BY <2>1
    <3> QED
      BY <3>1
  <2> QED
    BY <2>1
<1>10. 1 \in 1 .. n
  BY <1>3
<1>11. \A k \in 1 .. n - 1 : Before(pos[1], next[k])
  <2> TAKE k \in 1 .. n - 1
  <2>1. 1 < k + 1 /\ k + 1 \in 1 .. n
    BY <1>5
  <2> QED
    BY <1>5, <1>7, <1>10, <2>1
<1>12. Plan(r, rest, c, next)
  <2>1. \A j \in 1 .. n - 1 :
            /\ next[j] \in Positions(r, rest[j].name)
            /\ next[j][1] = c /\ next[j][2] = IF rest[j].xml THEN 2 ELSE 1
    BY <1>5, <1>6
  <2>2. \A j, h \in 1 .. n - 1 : j < h => Before(next[j], next[h])
    <3> SUFFICES ASSUME NEW j \in 1 .. n - 1, NEW h \in 1 .. n - 1, j < h
                 PROVE  Before(next[j], next[h])
      OBVIOUS
    <3>1. j + 1 < h + 1
      OBVIOUS
    <3>2. Before(pos[j + 1], pos[h + 1])
      BY <1>5, <1>7, <3>1
    <3> QED
      BY <1>5, <3>2
  <2>3. ASSUME NEW f, NEW p \in Positions(r, f), p[1] = c
        PROVE  \/ \E j \in 1 .. n - 1 : next[j] = p
               \/ \A j \in 1 .. n - 1 : Before(p, next[j])
    <3>1. ASSUME NEW j \in 1 .. n, pos[j] = p
          PROVE  \/ \E k \in 1 .. n - 1 : next[k] = p
                 \/ \A k \in 1 .. n - 1 : Before(p, next[k])
      <4>1. CASE j = 1
        BY <1>11, <3>1, <4>1
      <4>2. ASSUME NEW k \in 1 .. n - 1, j = k + 1 PROVE next[k] = p
        BY <1>5, <3>1, <4>2
      <4> QED
        BY <1>9, <4>1, <4>2
    <3>2. ASSUME \A j \in 1 .. n : Before(p, pos[j])
          PROVE  \A k \in 1 .. n - 1 : Before(p, next[k])
      BY <1>5, <3>2
    <3> QED
      BY <1>8, <2>3, <3>1, <3>2
  <2> QED
    BY <1>3, <2>1, <2>2, <2>3 DEF Plan
<1>13. pos[1] \in Positions(r, list[1].name) /\ pos[1][2] = IF list[1].xml THEN 2 ELSE 1
  BY <1>6, <1>10
<1>14. Done(pos[1], rest, c, next)
  BY <1>3, <1>6, <1>10, <1>11 DEF Done
<1>15. ~Done(pos[1], list, c, pos)
  <2>1. pos[1][1] = c /\ IsPlace(pos[1]) /\ c \in Nat
    BY <1>6, <1>10 DEF IsPlace
  <2>2. ~Before(pos[1], pos[1]) /\ ~(c < c)
    BY <2>1, BeforeStrict
  <2> QED
    BY <1>1, <1>10, <2>1, <2>2 DEF Done
<1>16. ASSUME NEW f, NEW p \in Positions(r, f)
       PROVE  /\ Done(p, list, c, pos) => Done(p, rest, c, next)
              /\ Done(p, rest, c, next) => Done(p, list, c, pos) \/ p = pos[1]
              /\ Done(p, list, c, pos) => Before(p, pos[1])
              /\ ~Done(p, list, c, pos) => p = pos[1] \/ Before(pos[1], p)
  <2>1. IsPlace(p) /\ IsPlace(pos[1]) /\ pos[1][1] = c /\ c \in Nat /\ p[1] \in Nat
    BY <1>6, <1>10, PositionFacts DEF IsPlace
  <2>2. CASE p[1] < c
    BY <2>1, <2>2 DEF Done, Before
  <2>3. CASE p[1] > c
    BY <2>1, <2>3 DEF Done, Before
  <2>4. CASE p[1] = c
    <3>1. CASE \A j \in 1 .. n : Before(p, pos[j])
      <4>1. \A k \in 1 .. n - 1 : Before(p, next[k])
        BY <1>5, <3>1
      <4>2. Done(p, list, c, pos) /\ Done(p, rest, c, next)
        BY <1>1, <1>3, <2>4, <3>1, <4>1 DEF Done
      <4> QED
        BY <1>10, <3>1, <4>2
    <3>2. CASE p = pos[1]
      BY <1>14, <1>15, <3>2
    <3>3. ASSUME NEW k \in 1 .. n - 1, p = next[k]
          PROVE  Before(pos[1], p) /\ ~Done(p, list, c, pos) /\ ~Done(p, rest, c, next)
      <4>1. Before(pos[1], p)
        BY <1>11, <3>3
      <4>2. ~Before(p, p) /\ ~(c < c)
        BY <2>1, BeforeStrict
      <4>3. p = pos[k + 1] /\ k + 1 \in 1 .. n
        BY <1>5, <3>3
      <4>4. ~Done(p, list, c, pos)
        BY <1>1, <2>4, <4>2, <4>3 DEF Done
      <4>5. ~Done(p, rest, c, next)
        BY <1>3, <2>4, <3>3, <4>2 DEF Done
      <4> QED
        BY <4>1, <4>4, <4>5
    <3>4. \/ \A j \in 1 .. n : Before(p, pos[j])
          \/ p = pos[1]
          \/ \E k \in 1 .. n - 1 : p = next[k]
      <4>1. ASSUME NEW j \in 1 .. n, pos[j] = p
            PROVE  p = pos[1] \/ \E k \in 1 .. n - 1 : p = next[k]
        BY <1>5, <1>9, <4>1
      <4> QED
        BY <1>8, <2>4, <4>1
    <3>5. Done(p, list, c, pos) <=> \A j \in 1 .. n : Before(p, pos[j])
      BY <1>1, <2>1, <2>4 DEF Done
    <3> QED
      BY <3>1, <3>2, <3>3, <3>4, <3>5
  <2> QED
    BY <2>1, <2>2, <2>3, <2>4
<1> QED
  BY <1>2, <1>3, <1>12, <1>13, <1>14, <1>15, <1>16

-----------------------------------------------------------------------------
\* Who wins a did

LEMMA FindDidGrows ==
    ASSUME NEW s, IsState(s), NEW t, NEW file, NEW n, Grows(s, t, file, n),
           NEW did, Knows(s, did)
    PROVE  /\ FindDid(t, did) = FindDid(s, did) /\ FindDid(s, did) \in DOMAIN s.did_list
           /\ t.models[t.did_list[FindDid(t, did)].model].file
                 = s.models[s.did_list[FindDid(s, did)].model].file
<1>1. PICK d : d = FindDid(s, did)
  OBVIOUS
<1>2. PICK e : e = FindDid(t, did)
  OBVIOUS
<1>3. IsState(t) /\ Knows(t, did)
  BY GrowsKnows DEF Grows
<1>4. PICK a \in Nat : a = Len(s.did_list) /\ DOMAIN s.did_list = 1 .. a
  BY StateFacts
<1>5. PICK b \in Nat : b = Len(t.did_list) /\ DOMAIN t.did_list = 1 .. b
  BY <1>3, StateFacts
<1>6. a <= b
  BY <1>4, <1>5 DEF Grows
<1>7. \A k \in 1 .. a : /\ k \in 1 .. b
                        /\ t.did_list[k].did = s.did_list[k].did
                        /\ t.did_list[k].model = s.did_list[k].model
  BY <1>4, <1>5, <1>6 DEF Grows
<1>8. /\ d \in 1 .. a /\ s.did_list[d].did = did
      /\ \A k \in 1 .. d - 1 : s.did_list[k].did # did
  BY <1>1, <1>4, FindDidFacts
<1>9. /\ e \in 1 .. b /\ t.did_list[e].did = did
      /\ \A k \in 1 .. e - 1 : t.did_list[k].did # did
  BY <1>2, <1>3, <1>5, FindDidFacts
<1>10. d = e
  <2>1. ~(d < e)
    <3> SUFFICES ASSUME d < e PROVE FALSE
      OBVIOUS
    <3>1. d \in 1 .. e - 1
      BY <1>8, <1>9
    <3> QED
      BY <1>7, <1>8, <1>9, <3>1
  <2>2. ~(e < d)
    <3> SUFFICES ASSUME e < d PROVE FALSE
      OBVIOUS
    <3>1. e \in 1 .. d - 1 /\ e \in 1 .. a
      BY <1>8, <1>9
    <3> QED
      BY <1>7, <1>8, <1>9, <3>1
  <2> QED
    BY <1>8, <1>9, <2>1, <2>2
<1>11. PICK i : i = s.did_list[d].model
  OBVIOUS
<1>12. i \in DOMAIN s.models /\ t.did_list[d].model = i
  BY <1>4, <1>7, <1>8, <1>11 DEF IsState
<1>13. i \in DOMAIN t.models
  <2>1. Len(s.models) <= Len(t.models)
    BY DEF Grows
  <2> QED
    BY <1>3, <1>12, <2>1, StateFacts
<1>14. t.models[i].file = s.models[i].file
  BY <1>12, <1>13 DEF Grows
<1> QED
  BY <1>1, <1>2, <1>4, <1>8, <1>10, <1>11, <1>12, <1>14

\* A did leads to a model of this file.
LeadsTo(s, did, file) ==
    FindDid(s, did) # 0 /\ s.models[s.did_list[FindDid(s, did)].model].file = file

LEMMA NewWinner ==
    ASSUME NEW s, IsState(s), NEW n, n = Len(s.models), NEW t, NEW file,
           Grows(s, t, file, n),
           NEW did, ~Knows(s, did), Knows(t, did)
    PROVE  LeadsTo(t, did, file)
<1>1. PICK e : e = FindDid(t, did)
  OBVIOUS
<1>2. IsState(t)
  BY DEF Grows
<1>3. e # 0 /\ e \in DOMAIN t.did_list /\ t.did_list[e].did = did
  BY <1>1, <1>2, FindDidFacts, StateFacts
<1>4. e \notin DOMAIN s.did_list
  BY <1>3 DEF Grows, Knows
<1>5. PICK i : i = t.did_list[e].model
  OBVIOUS
<1>6. i > Len(s.models) /\ i \in DOMAIN t.models
  BY <1>2, <1>3, <1>4, <1>5 DEF Grows, IsState
<1>7. i \notin DOMAIN s.models
  BY <1>2, <1>6, StateFacts
<1>8. t.models[i].file = file
  BY <1>6, <1>7 DEF Grows
<1> QED
  BY <1>1, <1>3, <1>5, <1>8 DEF LeadsTo

\* The file is one that has been loaded.
LoadedFrom(r, f, list, c, pos) ==
    f \in FoundIn(r) /\ \E p \in Positions(r, f) : Done(p, list, c, pos)

AllFromFiles(r, s, list, c, pos) ==
    \A i \in DOMAIN s.models : LoadedFrom(r, s.models[i].file, list, c, pos)

\* WhoWins, of what has been loaded.
WonSoFar(r, s, list, c, pos) ==
    \A f \in FoundIn(r) : \A l \in {1, 2} :
        /\ \E q \in PlacesOf(r, f, l) : Done(q, list, c, pos)
        /\ ~Spoilt(r, PlacesOf(r, f, l))
        => \A d \in DeclaredIn(f, l) : WonBy(r, s, d, f, PlacesOf(r, f, l))

LEMMA WonByGrows ==
    ASSUME NEW r, NEW s, IsState(s), NEW t, NEW file, NEW n, Grows(s, t, file, n),
           NEW d, NEW f, NEW places, WonBy(r, s, d, f, places)
    PROVE  WonBy(r, t, d, f, places)
<1>1. FindDid(s, d) # 0 /\ Knows(s, d)
  BY FindDidFacts DEF WonBy
<1>2. /\ FindDid(t, d) # 0
      /\ t.models[t.did_list[FindDid(t, d)].model].file
            = s.models[s.did_list[FindDid(s, d)].model].file
  BY <1>1, FindDidGrows
<1>3. PICK winner : winner = s.models[s.did_list[FindDid(s, d)].model].file
  OBVIOUS
<1>4. winner = f \/ \E p \in Positions(r, winner) : \A q \in places : Before(p, q)
  BY <1>3 DEF WonBy
<1> QED
  BY <1>2, <1>3, <1>4 DEF WonBy

\* The next file of the list, found and read, or neither.
LEMMA NextLoaded ==
    ASSUME NEW r, IsRun(r), NEW list, NEW c, NEW pos, Plan(r, list, c, pos), list # <<>>,
           NEW s, IsState(s),
           AllFromFiles(r, s, list, c, pos), WonSoFar(r, s, list, c, pos),
           NEW file, file = Head(list).name,
           NEW l, l = IF Head(list).xml THEN 2 ELSE 1,
           NEW t,
           IF file \in FoundIn(r)
           THEN /\ Grows(s, t, file, Len(s.models))
                /\ /\ \A q \in PlacesOf(r, file, l) : ~Done(q, list, c, pos)
                   /\ ~Spoilt(r, PlacesOf(r, file, l))
                   => \A d \in DeclaredIn(file, l) : Knows(t, d)
           ELSE t = s,
           NEW next, Plan(r, Tail(list), c, next),
           pos[1] \in Positions(r, file), pos[1][2] = l,
           Done(pos[1], Tail(list), c, next),
           \A f : \A p \in Positions(r, f) :
              /\ Done(p, list, c, pos) => Done(p, Tail(list), c, next)
              /\ Done(p, Tail(list), c, next) => Done(p, list, c, pos) \/ p = pos[1]
              /\ Done(p, list, c, pos) => Before(p, pos[1])
              /\ ~Done(p, list, c, pos) => p = pos[1] \/ Before(pos[1], p)
    PROVE  AllFromFiles(r, t, Tail(list), c, next) /\ WonSoFar(r, t, Tail(list), c, next)
<1> DEFINE rest == Tail(list)
<1> HIDE DEF rest
<1>1. /\ Done(pos[1], rest, c, next)
      /\ \A f : \A p \in Positions(r, f) :
            /\ Done(p, list, c, pos) => Done(p, rest, c, next)
            /\ Done(p, rest, c, next) => Done(p, list, c, pos) \/ p = pos[1]
            /\ Done(p, list, c, pos) => Before(p, pos[1])
            /\ ~Done(p, list, c, pos) => p = pos[1] \/ Before(pos[1], p)
  BY DEF rest
<1>2. ASSUME NEW f, LoadedFrom(r, f, list, c, pos) PROVE LoadedFrom(r, f, rest, c, next)
  BY <1>1, <1>2 DEF LoadedFrom
<1>3. CASE file \notin FoundIn(r)
  <2>1. t = s
    BY <1>3
  <2>2. AllFromFiles(r, t, rest, c, next)
    BY <1>2, <2>1 DEF AllFromFiles
  <2>3. ASSUME NEW f \in FoundIn(r), NEW k \in {1, 2},
               NEW q \in PlacesOf(r, f, k), Done(q, rest, c, next),
               ~Spoilt(r, PlacesOf(r, f, k)),
               NEW d \in DeclaredIn(f, k)
        PROVE  WonBy(r, t, d, f, PlacesOf(r, f, k))
    <3>1. q \in Positions(r, f)
      BY DEF PlacesOf
    <3>2. q # pos[1]
      <4> SUFFICES ASSUME q = pos[1] PROVE FALSE
        OBVIOUS
      <4>1. f = file
        BY <3>1, OneFileEach
      <4> QED
        BY <1>3, <4>1
    <3>3. Done(q, list, c, pos)
      BY <1>1, <2>3, <3>1, <3>2
    <3> QED
      BY <2>1, <2>3, <3>3 DEF WonSoFar
  <2>4. WonSoFar(r, t, rest, c, next)
    BY <2>3 DEF WonSoFar
  <2> QED
    BY <2>2, <2>4 DEF rest
<1>4. CASE file \in FoundIn(r)
  <2>1. /\ Grows(s, t, file, Len(s.models))
        /\ /\ \A q \in PlacesOf(r, file, l) : ~Done(q, list, c, pos)
           /\ ~Spoilt(r, PlacesOf(r, file, l))
           => \A d \in DeclaredIn(file, l) : Knows(t, d)
    BY <1>4
  <2>2. LoadedFrom(r, file, rest, c, next)
    BY <1>1, <1>4 DEF LoadedFrom
  <2>3. AllFromFiles(r, t, rest, c, next)
    <3> SUFFICES ASSUME NEW i \in DOMAIN t.models
                 PROVE  LoadedFrom(r, t.models[i].file, rest, c, next)
      BY DEF AllFromFiles
    <3>1. CASE i \in DOMAIN s.models
      <4>1. t.models[i].file = s.models[i].file
        BY <2>1, <3>1 DEF Grows
      <4>2. LoadedFrom(r, s.models[i].file, list, c, pos)
        BY <3>1 DEF AllFromFiles
      <4> QED
        BY <1>2, <4>1, <4>2
    <3>2. CASE i \notin DOMAIN s.models
      <4>1. t.models[i].file = file
        BY <2>1, <3>2 DEF Grows
      <4> QED
        BY <2>2, <4>1
    <3> QED
      BY <3>1, <3>2
  <2>4. ASSUME NEW f \in FoundIn(r), NEW k \in {1, 2},
               NEW q \in PlacesOf(r, f, k), Done(q, rest, c, next),
               ~Spoilt(r, PlacesOf(r, f, k)),
               NEW d \in DeclaredIn(f, k)
        PROVE  WonBy(r, t, d, f, PlacesOf(r, f, k))
    <3> DEFINE places == PlacesOf(r, f, k)
    <3>1. \A o \in places : o \in Positions(r, f) /\ o[2] = k
      BY DEF PlacesOf
    <3> HIDE DEF places
    <3>2. q \in places /\ ~Spoilt(r, places)
      BY <2>4 DEF places
    <3>3. CASE \E o \in places : Done(o, list, c, pos)
      <4>1. WonBy(r, s, d, f, places)
        BY <2>4, <3>3 DEF WonSoFar, places
      <4>2. WonBy(r, t, d, f, places)
        BY <2>1, <4>1, WonByGrows
      <4> QED
        BY <4>2 DEF places
    <3>4. CASE \A o \in places : ~Done(o, list, c, pos)
      <4>1. q = pos[1]
        BY <1>1, <2>4, <3>1, <3>2, <3>4
      <4>2. f = file /\ k = l
        BY <3>1, <3>2, <4>1, OneFileEach
      <4>3. Knows(t, d)
        BY <2>1, <2>4, <3>2, <3>4, <4>2 DEF places
      <4>4. CASE Knows(s, d)
        <5>1. /\ FindDid(t, d) = FindDid(s, d) /\ FindDid(s, d) \in DOMAIN s.did_list
              /\ t.models[t.did_list[FindDid(t, d)].model].file
                    = s.models[s.did_list[FindDid(s, d)].model].file
          BY <2>1, <4>4, FindDidGrows
        <5>2. PICK winner : winner = s.models[s.did_list[FindDid(s, d)].model].file
          OBVIOUS
        <5>a. PICK i : i = s.did_list[FindDid(s, d)].model
          OBVIOUS
        <5>b. i \in DOMAIN s.models
          BY <5>1, <5>a DEF IsState
        <5>3. LoadedFrom(r, winner, list, c, pos)
          BY <5>2, <5>a, <5>b DEF AllFromFiles
        <5>4. PICK p \in Positions(r, winner) : Done(p, list, c, pos)
          BY <5>3 DEF LoadedFrom
        <5>5. Before(p, pos[1]) /\ IsPlace(p) /\ IsPlace(pos[1])
          BY <1>1, <5>4, PositionFacts
        <5>6. ASSUME NEW o \in places PROVE Before(p, o)
          <6>1. IsPlace(o) /\ (o = pos[1] \/ Before(pos[1], o))
            BY <1>1, <3>1, <3>4, PositionFacts
          <6> QED
            BY <5>5, <6>1, BeforeTransitive
        <5>7. FindDid(t, d) # 0
          BY <4>4, <5>1, FindDidFacts
        <5>8. WonBy(r, t, d, f, places)
          BY <5>1, <5>2, <5>4, <5>6, <5>7 DEF WonBy
        <5> QED
          BY <5>8 DEF places
      <4>5. CASE ~Knows(s, d)
        <5>1. LeadsTo(t, d, file)
          <6>1. PICK n : n = Len(s.models)
            OBVIOUS
          <6>2. IsState(s) /\ Grows(s, t, file, n)
            BY <2>1, <6>1
          <6> QED
            BY ONLY <4>3, <4>5, <6>1, <6>2, NewWinner
        <5>2. PICK winner : winner = t.models[t.did_list[FindDid(t, d)].model].file
          OBVIOUS
        <5>3. winner = f
          BY <4>2, <5>1, <5>2 DEF LeadsTo
        <5>4. WonBy(r, t, d, f, places)
          BY <5>1, <5>2, <5>3 DEF WonBy, LeadsTo
        <5> QED
          BY <5>4 DEF places
      <4> QED
        BY <4>4, <4>5
    <3> QED
      BY <3>3, <3>4
  <2>5. WonSoFar(r, t, rest, c, next)
    BY <2>4 DEF WonSoFar
  <2> QED
    BY <2>3, <2>5 DEF rest
<1> QED
  BY <1>3, <1>4

-----------------------------------------------------------------------------
\* Models that are filled in

\* FlattenSeq of sequences over a set is one over it.
LEMMA FlattenOver ==
    ASSUME NEW S, NEW x, IsSequence(x), \A k \in DOMAIN x : x[k] \in Seq(S)
    PROVE  FlattenSeq(x) \in Seq(S)
<1>1. PICK N \in Nat : N = Len(x) /\ DOMAIN x = 1 .. N
  BY SequenceFacts
<1>2. CASE N = 0
  <2>1. x = <<>>
    <3>1. x = [k \in 1 .. N |-> x[k]] /\ 1 .. 0 = {}
      BY <1>1, SequenceFacts
    <3> QED
      BY <1>2, <3>1
  <2> QED
    BY <2>1 DEF FlattenSeq
<1>3. CASE N # 0
  <2> DEFINE B == Seq(S)
             base == <<>>
             step == [k \in 1 .. N |-> [y \in B |-> y \o x[k]]]
  <2>1. base \in B /\ \A k \in 1 .. N : x[k] \in B
    BY <1>1
  <2>2. \A k \in 1 .. N : \A y \in B : step[k][y] = y \o x[k] /\ step[k][y] \in B
    BY <2>1
  <2> HIDE DEF B, step, base
  <2>3. PICK g \in [0 .. N -> B] : Follows(g, base, step, N)
    BY <1>1, <2>1, <2>2, Recursion
  <2>4. ASSUME NEW k \in 1 .. N
        PROVE  k - 1 \in 0 .. N /\ g[k] = g[k - 1] \o x[k] /\ g[k] \in B /\ g[k - 1] \in B
    <3>1. k \in 0 .. N /\ k - 1 \in 0 .. N
      BY <1>1
    <3>2. g[k] \in B /\ g[k - 1] \in B /\ g[k] = step[k][g[k - 1]]
      BY <2>3, <3>1 DEF Follows
    <3> QED
      BY <2>2, <3>1, <3>2
  <2>5. 1 \in 1 .. N /\ g[1] = x[1]
    <3>1. 1 \in 1 .. N /\ 1 - 1 = 0
      BY <1>1, <1>3
    <3>2. g[1] = g[0] \o x[1]
      BY <2>4, <3>1
    <3>3. g[0] = <<>>
      BY <2>3 DEF Follows, base
    <3>4. <<>> \o x[1] = x[1]
      BY <2>1, <3>1 DEF B
    <3> QED
      BY <3>1, <3>2, <3>3, <3>4
  <2> DEFINE F(f) == [i \in 1 .. N |-> IF i = 1 THEN x[i] ELSE f[i - 1] \o x[i]]
             flat == CHOOSE f : f = F(f)
  <2>6. FlattenSeq(x) = flat[N]
    BY <1>1, <1>3 DEF FlattenSeq
  <2>7. flat = F(flat)
    <3> DEFINE h == [i \in 1 .. N |-> g[i]]
    <3>1. h = F(h)
      <4>1. ASSUME NEW i \in 1 .. N PROVE h[i] = IF i = 1 THEN x[i] ELSE h[i - 1] \o x[i]
        <5>1. CASE i = 1
          BY <2>5, <5>1
        <5>2. CASE i # 1
          <6>1. i - 1 \in 1 .. N
            BY <5>2
          <6> QED
            BY <2>4, <5>2, <6>1
        <5> QED
          BY <5>1, <5>2
      <4> QED
        BY <4>1
    <3> HIDE DEF F, h
    <3> QED
      BY <3>1
  <2> HIDE DEF flat
  <2>8. \A i \in 1 .. N : flat[i] = IF i = 1 THEN x[i] ELSE flat[i - 1] \o x[i]
    BY <2>7
  <2> DEFINE T == {i \in 0 .. N : i = 0 \/ flat[i] \in B}
  <2>9. ASSUME NEW i \in 1 .. N, i - 1 \in T PROVE i \in T
    <3>1. CASE i = 1
      BY <2>1, <2>8, <3>1
    <3>2. CASE i # 1
      <4>3. i - 1 # 0 /\ flat[i - 1] \in B
        BY <2>9, <3>2
      <4>4. flat[i] = flat[i - 1] \o x[i]
        BY <2>8, <3>2
      <4>1. flat[i - 1] \in B /\ flat[i] = flat[i - 1] \o x[i] /\ x[i] \in B
        BY <2>1, <4>3, <4>4
      <4>2. flat[i] \in B
        BY <4>1 DEF B
      <4> QED
        BY <4>2
    <3> QED
      BY <3>1, <3>2
  <2>10. N \in T
    <3>1. 0 \in T
      BY <1>1
    <3> HIDE DEF T
    <3>2. 0 .. N \subseteq T
      BY <1>1, <2>9, <3>1, UpTo
    <3> QED
      BY <1>1, <3>2
  <2> QED
    BY <1>3, <2>6, <2>10 DEF B
<1> QED
  BY <1>2, <1>3

\* The points of a model that is laid out have their places.
LEMMA PointsLaid ==
    ASSUME NEW m, IsModel(m), AllLaid(m), NEW k \in DOMAIN PointsOf(m)
    PROVE  PointsOf(m)[k].offset >= 0
<1> DEFINE S == UNION {{m.dp_blocks[b].dps[j] : j \in DOMAIN m.dp_blocks[b].dps} :
                         b \in DOMAIN m.dp_blocks}
           x == [b \in DOMAIN m.dp_blocks |-> m.dp_blocks[b].dps]
<1>1. \A dp \in S : dp.offset >= 0
  BY DEF AllLaid, Laid
<1>2. PICK n \in Nat : n = Len(m.dp_blocks) /\ DOMAIN m.dp_blocks = 1 .. n
  BY SequenceFacts DEF IsModel
<1>3. IsSequence(x) /\ DOMAIN x = DOMAIN m.dp_blocks
  <2>1. x = [b \in 1 .. n |-> x[b]]
    BY <1>2
  <2> HIDE DEF x
  <2>2. IsSequence(x)
    BY <2>1, MapIsSequence
  <2> QED
    BY <1>2, <2>1, <2>2
<1>4. ASSUME NEW b \in DOMAIN x PROVE x[b] \in Seq(S)
  <2>1. x[b] = m.dp_blocks[b].dps /\ IsSequence(x[b])
    BY <1>3 DEF IsModel, IsBlock, IsPoints
  <2>2. PICK y : y = x[b]
    OBVIOUS
  <2>3. \A j \in DOMAIN y : y[j] \in S
    BY <1>3, <2>1, <2>2
  <2>4. y = [j \in 1 .. Len(y) |-> y[j]] /\ Len(y) \in Nat /\ DOMAIN y = 1 .. Len(y)
    BY <2>1, <2>2, SequenceFacts
  <2> HIDE DEF S
  <2>5. y \in Seq(S)
    BY <2>3, <2>4
  <2> QED
    BY <2>2, <2>5
<1> HIDE DEF S
<1>5. FlattenSeq(x) \in Seq(S)
  <2> HIDE DEF x
  <2> QED
    BY <1>3, <1>4, FlattenOver
<1>6. PICK points : points = PointsOf(m)
  OBVIOUS
<1>7. points \in Seq(S)
  BY <1>5, <1>6 DEF PointsOf
<1>8. points[k] \in S
  BY <1>6, <1>7
<1> QED
  BY <1>1, <1>6, <1>8

\* The models that suns_model_fill_offsets() has been at are laid out.
Ready(s) ==
    \A k \in DOMAIN s.model_list :
        s.models[s.model_list[k]].fills = 1 /\ AllLaid(s.models[s.model_list[k]])

\* FillModels, of any state.
Filling(s, models) ==
    models = [i \in DOMAIN s.models |->
                IF Contains(s.model_list, i) THEN FillOffsets(s.models[i]) ELSE s.models[i]]

LEMMA FillingKeeps ==
    ASSUME NEW s, IsState(s), Unfilled(s), NEW models, Filling(s, models),
           NEW t, t = [s EXCEPT !.models = models]
    PROVE  /\ IsState(t) /\ Ready(t)
           /\ t.did_list = s.did_list /\ t.model_list = s.model_list
           /\ DOMAIN t.models = DOMAIN s.models
           /\ \A i \in DOMAIN s.models : t.models[i].file = s.models[i].file
<1>1. /\ DOMAIN t = StateFields /\ t.models = models
      /\ t.did_list = s.did_list /\ t.model_list = s.model_list
  BY DEF IsState, StateFields
<1>2. PICK n \in Nat : n = Len(s.models) /\ DOMAIN s.models = 1 .. n
  BY StateFacts
<1>3. DOMAIN models = 1 .. n /\ IsSequence(models)
  <2>1. models = [i \in 1 .. n |-> models[i]]
    BY <1>2 DEF Filling
  <2> QED
    BY <2>1, MapIsSequence
<1>4. ASSUME NEW i \in 1 .. n
      PROVE  IsModel(models[i]) /\ models[i].file = s.models[i].file
  <2>1. IsModel(s.models[i])
    BY <1>2 DEF IsState
  <2>2. models[i] = IF Contains(s.model_list, i) THEN FillOffsets(s.models[i])
                    ELSE s.models[i]
    BY <1>2 DEF Filling
  <2> QED
    BY <2>1, <2>2, FillOffsetsFills
<1>5. ASSUME NEW k \in DOMAIN s.model_list, NEW i, i = s.model_list[k]
      PROVE  models[i].fills = 1 /\ AllLaid(models[i])
  <2>1. i \in DOMAIN s.models /\ Contains(s.model_list, i)
    <3>1. i \in DOMAIN s.models
      BY <1>5 DEF IsState
    <3>2. Contains(s.model_list, i)
      BY <1>5, StateFacts DEF Contains
    <3> QED
      BY <3>1, <3>2
  <2>2. models[i] = FillOffsets(s.models[i])
    BY <2>1 DEF Filling
  <2>3. IsModel(s.models[i]) /\ s.models[i].fills = 0
    BY <2>1 DEF IsState, Unfilled
  <2> QED
    BY <2>2, <2>3, FillOffsetsFills
<1>6. IsState(t)
  BY <1>1, <1>2, <1>3, <1>4 DEF IsState
<1>7. Ready(t)
  BY <1>1, <1>5 DEF Ready
<1> QED
  BY <1>1, <1>2, <1>3, <1>4, <1>6, <1>7

-----------------------------------------------------------------------------
\* How far the loading has come

\* A slang file with an error has been loaded.
Disturbed(r, list, c, pos) ==
    \E e \in FoundIn(r) : Erroneous(e) /\ \E p \in PlacesOf(r, e, 1) : Done(p, list, c, pos)

\* The files of the list are still to load from source c, with these items in
\* the scanner: all that came before is in the state s.
Reached(r, s, left, list, c, pos) ==
    /\ Plan(r, list, c, pos)
    /\ AllFromFiles(r, s, list, c, pos)
    /\ WonSoFar(r, s, list, c, pos)
    /\ left # <<>> => Disturbed(r, list, c, pos)

Loading(r, s, left, list, c) == \E pos : Reached(r, s, left, list, c, pos)

LEMMA PlacesFacts ==
    ASSUME NEW r, NEW f, NEW l
    PROVE  /\ \A p \in PlacesOf(r, f, l) : p \in Positions(r, f) /\ p[2] = l
           /\ \A p \in Positions(r, f) : p[2] = l => p \in PlacesOf(r, f, l)
  BY DEF PlacesOf

\* Nothing has been loaded before the first source.
LEMMA NothingReached ==
    ASSUME NEW r, IsRun(r)
    PROVE  Loading(r, EmptyState, <<>>, <<>>, 0)
<1>1. ASSUME NEW f, NEW p \in Positions(r, f) PROVE p[1] # 0 /\ ~(p[1] < 0)
  <2>1. p[1] \in 1 .. Len(Sources(r))
    BY PositionFacts
  <2>2. Len(Sources(r)) \in Nat
    BY SourcesFacts, SequenceFacts
  <2> QED
    BY <2>1, <2>2
<1>2. PICK pos : pos = <<>>
  OBVIOUS
<1>3. Plan(r, <<>>, 0, pos)
  BY <1>1, NothingPlanned DEF Fresh
<1>4. \A f : \A p \in Positions(r, f) : ~Done(p, <<>>, 0, pos)
  BY <1>1 DEF Done
<1>5. AllFromFiles(r, EmptyState, <<>>, 0, pos)
  <2>1. DOMAIN EmptyState.models = {}
    BY DEF EmptyState
  <2> QED
    BY <2>1 DEF AllFromFiles
<1>6. WonSoFar(r, EmptyState, <<>>, 0, pos)
  BY <1>4, PlacesFacts DEF WonSoFar
<1> QED
  BY <1>3, <1>5, <1>6 DEF Loading, Reached

\* On to the next source.
LEMMA NextSource ==
    ASSUME NEW r, IsRun(r), NEW s, NEW left, NEW c \in Nat,
           Loading(r, s, left, <<>>, c),
           NEW list, NEW next, Fresh(r, list, c + 1, next)
    PROVE  Loading(r, s, left, list, c + 1)
<1>1. PICK pos : Reached(r, s, left, <<>>, c, pos)
  BY DEF Loading
<1>2. PICK n \in Nat : n = c + 1
  OBVIOUS
<1>3. ASSUME NEW f, NEW p \in Positions(r, f)
      PROVE  Done(p, <<>>, c, pos) <=> Done(p, list, n, next)
  <2>1. IsPlace(p) /\ p[1] \in Nat
    BY PositionFacts DEF IsPlace
  <2>2. Done(p, <<>>, c, pos) <=> p[1] <= c
    BY <2>1 DEF Done
  <2>3. p[1] = n => \E j \in 1 .. Len(list) : next[j] = p
    BY <1>2 DEF Fresh
  <2>4. ~Before(p, p)
    BY <2>1, BeforeStrict
  <2>5. Done(p, list, n, next) <=> p[1] < n
    BY <2>3, <2>4 DEF Done
  <2> QED
    BY <1>2, <2>1, <2>2, <2>5
<1>4. Plan(r, list, n, next)
  BY <1>2 DEF Fresh
<1>5. AllFromFiles(r, s, list, n, next)
  BY <1>1, <1>3 DEF Reached, AllFromFiles, LoadedFrom
<1>6. WonSoFar(r, s, list, n, next)
  <2>1. WonSoFar(r, s, <<>>, c, pos)
    BY <1>1 DEF Reached
  <2>2. \A f, l : \A q \in PlacesOf(r, f, l) : Done(q, list, n, next) => Done(q, <<>>, c, pos)
    BY <1>3, PlacesFacts
  <2> QED
    BY <2>1, <2>2 DEF WonSoFar
<1>7. left # <<>> => Disturbed(r, list, n, next)
  <2>1. left # <<>> => Disturbed(r, <<>>, c, pos)
    BY <1>1 DEF Reached
  <2>2. \A f, l : \A q \in PlacesOf(r, f, l) : Done(q, <<>>, c, pos) => Done(q, list, n, next)
    BY <1>3, PlacesFacts
  <2> QED
    BY <2>1, <2>2 DEF Disturbed
<1> QED
  BY <1>2, <1>4, <1>5, <1>6, <1>7 DEF Loading, Reached

\* A file that cannot be opened.
LEMMA FileSkipped ==
    ASSUME NEW r, IsRun(r), NEW s, IsState(s), NEW left, NEW list, list # <<>>, NEW c,
           Loading(r, s, left, list, c), ~Opens(Head(list).name)
    PROVE  Loading(r, s, left, Tail(list), c)
<1>1. PICK pos : Reached(r, s, left, list, c, pos)
  BY DEF Loading
<1>2. PICK file : file = Head(list).name
  OBVIOUS
<1>3. PICK l : l = IF Head(list).xml THEN 2 ELSE 1
  OBVIOUS
<1>4. file \notin FoundIn(r)
  BY <1>2 DEF FoundIn, Opens
<1>5. Plan(r, list, c, pos)
  BY <1>1 DEF Reached
<1>6. PICK next :
              /\ Plan(r, Tail(list), c, next)
              /\ pos[1] \in Positions(r, file)
              /\ pos[1][2] = l
              /\ Done(pos[1], Tail(list), c, next)
              /\ \A f : \A p \in Positions(r, f) :
                    /\ Done(p, list, c, pos) => Done(p, Tail(list), c, next)
                    /\ Done(p, Tail(list), c, next) => Done(p, list, c, pos) \/ p = pos[1]
                    /\ Done(p, list, c, pos) => Before(p, pos[1])
                    /\ ~Done(p, list, c, pos) => p = pos[1] \/ Before(pos[1], p)
  BY <1>2, <1>3, <1>5, TailPlanned
<1>7. AllFromFiles(r, s, list, c, pos) /\ WonSoFar(r, s, list, c, pos)
  BY <1>1 DEF Reached
<1>8. AllFromFiles(r, s, Tail(list), c, next) /\ WonSoFar(r, s, Tail(list), c, next)
  BY <1>2, <1>3, <1>4, <1>5, <1>6, <1>7, NextLoaded
<1>9. left # <<>> => Disturbed(r, Tail(list), c, next)
  <2>1. left # <<>> => Disturbed(r, list, c, pos)
    BY <1>1 DEF Reached
  <2> QED
    BY <1>6, <2>1, PlacesFacts DEF Disturbed
<1> QED
  BY <1>6, <1>8, <1>9 DEF Loading, Reached

\* What the scanner gives to the parser when it opens a file.
Scanned(left, file) ==
    IF FirstError(left) # 0 THEN left ELSE left \o Files[file].items

Remaining(items) == SubSeq(items, Taken(items) + 1, Len(items))

IsItems(items) == IsSequence(items) /\ \A k \in DOMAIN items : IsItem(items[k])

LEMMA RemainingFacts ==
    ASSUME NEW items, IsItems(items)
    PROVE  /\ IsItems(Remaining(items))
           /\ Remaining(items) # <<>> => FirstError(items) # 0
<1>1. PICK n \in Nat : n = Len(items) /\ DOMAIN items = 1 .. n
  BY SequenceFacts DEF IsItems
<1>2. PICK m \in 0 .. n : m = Taken(items)
  BY <1>1, ErrorFacts DEF IsItems
<1>3. PICK rest : rest = Remaining(items)
  OBVIOUS
<1>4. /\ IsSequence(rest) /\ Len(rest) = n - m
      /\ \A k \in 1 .. n - m : rest[k] = items[m + k]
  <2>1. IsSequence(items) /\ m \in Nat /\ m <= Len(items)
    BY <1>1, <1>2 DEF IsItems
  <2>2. rest = SubSeq(items, m + 1, Len(items))
    BY <1>2, <1>3 DEF Remaining
  <2> QED
    BY <1>1, <2>1, <2>2, RestFacts
<1>5. DOMAIN rest = 1 .. n - m /\ \A k \in 1 .. n - m : m + k \in 1 .. n
  BY <1>2, <1>4, SequenceFacts
<1>6. \A k \in DOMAIN rest : IsItem(rest[k])
  BY <1>1, <1>4, <1>5 DEF IsItems
<1>7. ASSUME FirstError(items) = 0 PROVE rest = <<>>
  <2>1. m = n
    BY <1>1, <1>2, <1>7, ErrorFacts DEF IsItems
  <2>2. Len(rest) = 0 /\ 1 .. 0 = {}
    BY <1>4, <2>1
  <2>3. rest = [k \in 1 .. 0 |-> rest[k]]
    BY <1>4, <2>2, SequenceFacts
  <2> QED
    BY <2>2, <2>3
<1> QED
  BY <1>3, <1>4, <1>6, <1>7 DEF IsItems

LEMMA ScannedFacts ==
    ASSUME NEW left, IsItems(left), NEW file \in DOMAIN Files
    PROVE  /\ IsItems(Scanned(left, file))
           /\ FirstError(Scanned(left, file)) # 0 => left # <<>> \/ Erroneous(file)
           /\ left = <<>> => Scanned(left, file) = Files[file].items
<1>1. PICK own : own = Files[file].items
  OBVIOUS
<1>2. IsItems(own)
  BY <1>1, FilesAssumption DEF IsFile, IsItems
<1>3. PICK items : items = Scanned(left, file)
  OBVIOUS
<1>4. items = IF FirstError(left) # 0 THEN left ELSE left \o own
  BY <1>1, <1>3 DEF Scanned
<1>5. PICK a \in Nat : a = Len(left) /\ DOMAIN left = 1 .. a
  BY SequenceFacts DEF IsItems
<1>6. PICK b \in Nat : b = Len(own) /\ DOMAIN own = 1 .. b
  BY <1>2, SequenceFacts DEF IsItems
<1>7. left = <<>> => items = own
  <2>1. ASSUME left = <<>> PROVE FirstError(left) = 0
    <3>1. a = 0
      BY <1>5, <2>1, EmptyIsSequence
    <3> QED
      BY <1>5, <3>1, ErrorFacts DEF IsItems
  <2>2. <<>> \o own = own
    <3>1. own \in Seq({own[i] : i \in DOMAIN own})
      BY <1>2 DEF IsItems, IsSequence
    <3> QED
      BY <3>1
  <2> QED
    BY <1>4, <2>1, <2>2
<1>8. CASE FirstError(left) # 0
  <2>1. items = left
    BY <1>4, <1>8
  <2>2. left # <<>>
    BY <1>5, <1>8, EmptyIsSequence, ErrorFacts DEF IsItems
  <2> QED
    BY <1>1, <1>3, <1>7, <2>1, <2>2
<1>9. CASE FirstError(left) = 0
  <2>1. items = left \o own
    BY <1>4, <1>9
  <2>2. /\ IsSequence(items) /\ Len(items) = a + b
        /\ \A k \in 1 .. a : items[k] = left[k]
        /\ \A k \in 1 .. b : items[a + k] = own[k]
    BY <1>2, <1>5, <1>6, <2>1, ConcatFacts DEF IsItems
  <2>3. \A k \in 1 .. a + b : k \in 1 .. a \/ \E j \in 1 .. b : k = a + j
    <3> TAKE k \in 1 .. a + b
    <3>1. CASE k <= a
      BY <3>1
    <3>2. CASE ~(k <= a)
      <4>1. k - a \in 1 .. b /\ k = a + (k - a)
        BY <3>2
      <4> QED
        BY <4>1
    <3> QED
      BY <3>1, <3>2
  <2>4. DOMAIN items = 1 .. a + b
    BY <2>2, SequenceFacts
  <2>5. ASSUME NEW k \in DOMAIN items
        PROVE  IsItem(items[k]) /\ (IsError(items[k]) => \E j \in 1 .. b : IsError(own[j]))
    <3>1. CASE k \in 1 .. a
      <4>1. items[k] = left[k]
        BY <2>2, <3>1
      <4>2. ~IsError(left[k])
        BY <1>5, <1>9, <3>1, ErrorFacts DEF IsItems
      <4> QED
        BY <1>5, <3>1, <4>1, <4>2 DEF IsItems
    <3>2. ASSUME NEW j \in 1 .. b, k = a + j
          PROVE  IsItem(items[k]) /\ (IsError(items[k]) => \E h \in 1 .. b : IsError(own[h]))
      <4>1. items[k] = own[j]
        BY <2>2, <3>2
      <4> QED
        BY <1>2, <1>6, <4>1 DEF IsItems
    <3> QED
      BY <2>3, <2>4, <2>5, <3>1, <3>2
  <2>6. FirstError(items) # 0 => FirstError(own) # 0
    <3>1. FirstError(items) # 0 => \E k \in 1 .. a + b : IsError(items[k])
      BY <2>2, ErrorFacts
    <3>2. (\E j \in 1 .. b : IsError(own[j])) => FirstError(own) # 0
      BY <1>2, <1>6, ErrorFacts DEF IsItems
    <3> QED
      BY <2>4, <2>5, <3>1, <3>2
  <2> QED
    BY <1>1, <1>3, <1>7, <2>2, <2>5, <2>6 DEF IsItems, Erroneous
<1> QED
  BY <1>8, <1>9

\* A slang file is read.
LEMMA SlangRead ==
    ASSUME NEW r, IsRun(r), NEW s, IsState(s), NEW left, IsItems(left),
           NEW list, list # <<>>, NEW c, Loading(r, s, left, list, c),
           NEW file, file = Head(list).name, Opens(file), ~Head(list).xml,
           NEW items, items = Scanned(left, file),
           NEW t, t = Parse(s, items, file),
           NEW rest, rest = Remaining(items)
    PROVE  /\ Loading(r, t, rest, Tail(list), c)
           /\ Grows(s, t, file, Len(s.models)) /\ IsItems(rest)
           /\ (\A e \in FoundIn(r) : ~Erroneous(e)) /\ Indexed(s) => Indexed(t)
<1>1. PICK pos : Reached(r, s, left, list, c, pos)
  BY DEF Loading
<1>2. PICK l : l = 1 /\ l = IF Head(list).xml THEN 2 ELSE 1
  OBVIOUS
<1>3. Plan(r, list, c, pos)
  BY <1>1 DEF Reached
<1>4. PICK next :
              /\ Plan(r, Tail(list), c, next)
              /\ pos[1] \in Positions(r, file)
              /\ pos[1][2] = l
              /\ Done(pos[1], Tail(list), c, next)
              /\ \A f : \A p \in Positions(r, f) :
                    /\ Done(p, list, c, pos) => Done(p, Tail(list), c, next)
                    /\ Done(p, Tail(list), c, next) => Done(p, list, c, pos) \/ p = pos[1]
                    /\ Done(p, list, c, pos) => Before(p, pos[1])
                    /\ ~Done(p, list, c, pos) => p = pos[1] \/ Before(pos[1], p)
  BY <1>2, <1>3, TailPlanned
<1>5. file \in DOMAIN Files /\ file \in FoundIn(r)
  BY <1>4 DEF FoundIn, Opens
<1>6. /\ IsItems(items) /\ IsItems(rest)
      /\ rest # <<>> => FirstError(items) # 0
      /\ FirstError(items) # 0 => left # <<>> \/ Erroneous(file)
      /\ left = <<>> => items = Files[file].items
  BY <1>5, ScannedFacts, RemainingFacts
<1>7. /\ Grows(s, t, file, Len(s.models))
      /\ FirstError(items) = 0 /\ Indexed(s) => Indexed(t)
      /\ \A k \in 1 .. Taken(items) : items[k].kind \in {"model", "broken"} =>
            \A n \in DOMAIN items[k].elmts :
               items[k].elmts[n].kind = "did" => Knows(t, items[k].elmts[n].did)
  BY <1>6, ParseGrows DEF IsItems
<1>8. left # <<>> => Disturbed(r, list, c, pos)
  BY <1>1 DEF Reached
<1>9. ASSUME \A q \in PlacesOf(r, file, l) : ~Done(q, list, c, pos),
             ~Spoilt(r, PlacesOf(r, file, l)),
             NEW d \in DeclaredIn(file, l)
      PROVE  Knows(t, d)
  <2>1. left = <<>>
    <3> SUFFICES ASSUME left # <<>> PROVE FALSE
      OBVIOUS
    <3>1. PICK e \in FoundIn(r) : Erroneous(e) /\ \E p \in PlacesOf(r, e, 1) : Done(p, list, c, pos)
      BY <1>8 DEF Disturbed
    <3>2. PICK p \in PlacesOf(r, e, 1) : Done(p, list, c, pos)
      BY <3>1
    <3>3. IsPlace(p) /\ IsPlace(pos[1]) /\ Before(p, pos[1])
      BY <1>4, <3>2, PlacesFacts, PositionFacts
    <3>4. ASSUME NEW q \in PlacesOf(r, file, l) PROVE Before(p, q)
      <4>1. IsPlace(q) /\ (q = pos[1] \/ Before(pos[1], q))
        BY <1>4, <1>9, PlacesFacts, PositionFacts
      <4> QED
        BY <3>3, <4>1, BeforeTransitive
    <3> QED
      BY <1>9, <3>1, <3>4 DEF Spoilt
  <2>2. items = Files[file].items
    BY <1>6, <2>1
  <2>3. d \in DidsParsed(items)
    BY <1>2, <1>9, <2>2 DEF DeclaredIn
  <2>4. PICK k \in 1 .. Taken(items) :
             /\ items[k].kind \in {"model", "broken"}
             /\ \E n \in DOMAIN items[k].elmts :
                   items[k].elmts[n].kind = "did" /\ items[k].elmts[n].did = d
    BY <2>3 DEF DidsParsed
  <2> QED
    BY <1>7, <2>4
<1>10. AllFromFiles(r, s, list, c, pos) /\ WonSoFar(r, s, list, c, pos)
  BY <1>1 DEF Reached
<1>11. IF file \in FoundIn(r)
       THEN /\ Grows(s, t, file, Len(s.models))
            /\ /\ \A q \in PlacesOf(r, file, l) : ~Done(q, list, c, pos)
               /\ ~Spoilt(r, PlacesOf(r, file, l))
               => \A d \in DeclaredIn(file, l) : Knows(t, d)
       ELSE t = s
  BY <1>5, <1>7, <1>9
<1>12. AllFromFiles(r, t, Tail(list), c, next) /\ WonSoFar(r, t, Tail(list), c, next)
  BY <1>2, <1>3, <1>4, <1>10, <1>11, NextLoaded
<1>13. ASSUME rest # <<>> PROVE Disturbed(r, Tail(list), c, next)
  <2>1. CASE left # <<>>
    BY <1>4, <1>8, <2>1, PlacesFacts DEF Disturbed
  <2>2. CASE Erroneous(file)
    <3>1. pos[1] \in PlacesOf(r, file, 1)
      BY <1>2, <1>4, PlacesFacts
    <3> QED
      BY <1>4, <1>5, <2>2, <3>1 DEF Disturbed
  <2> QED
    BY <1>6, <1>13, <2>1, <2>2
<1>14. Loading(r, t, rest, Tail(list), c)
  BY <1>4, <1>12, <1>13 DEF Loading, Reached
<1>15. ASSUME \A e \in FoundIn(r) : ~Erroneous(e), Indexed(s) PROVE Indexed(t)
  <2>1. left = <<>>
    BY <1>8, <1>15 DEF Disturbed
  <2>2. FirstError(items) = 0
    BY <1>5, <1>6, <1>15, <2>1
  <2> QED
    BY <1>7, <1>15, <2>2
<1> QED
  BY <1>6, <1>7, <1>14, <1>15

\* An XML file is read.
LEMMA XmlRead ==
    ASSUME NEW r, IsRun(r), NEW s, IsState(s), NEW left,
           NEW list, list # <<>>, NEW c, Loading(r, s, left, list, c),
           NEW file, file = Head(list).name, Opens(file), Head(list).xml,
           NEW t, t = ParseXml(s, Files[file].xml, file)
    PROVE  /\ Loading(r, t, left, Tail(list), c)
           /\ Grows(s, t, file, Len(s.models))
           /\ Indexed(s) => Indexed(t)
<1>1. PICK pos : Reached(r, s, left, list, c, pos)
  BY DEF Loading
<1>2. PICK l : l = 2 /\ l = IF Head(list).xml THEN 2 ELSE 1
  OBVIOUS
<1>3. Plan(r, list, c, pos)
  BY <1>1 DEF Reached
<1>4. PICK next :
              /\ Plan(r, Tail(list), c, next)
              /\ pos[1] \in Positions(r, file)
              /\ pos[1][2] = l
              /\ Done(pos[1], Tail(list), c, next)
              /\ \A f : \A p \in Positions(r, f) :
                    /\ Done(p, list, c, pos) => Done(p, Tail(list), c, next)
                    /\ Done(p, Tail(list), c, next) => Done(p, list, c, pos) \/ p = pos[1]
                    /\ Done(p, list, c, pos) => Before(p, pos[1])
                    /\ ~Done(p, list, c, pos) => p = pos[1] \/ Before(pos[1], p)
  BY <1>2, <1>3, TailPlanned
<1>5. file \in DOMAIN Files /\ file \in FoundIn(r)
  BY <1>4 DEF FoundIn, Opens
<1>6. PICK x : x = Files[file].xml
  OBVIOUS
<1>7. /\ IsSequence(x.models) /\ IsSequence(x.strings)
      /\ \A k \in DOMAIN x.models : IsXmlModel(x.models[k])
  BY <1>5, <1>6, FilesAssumption DEF IsFile
<1>8. /\ Grows(s, t, file, Len(s.models))
      /\ Indexed(s) => Indexed(t)
      /\ \A k \in DOMAIN x.models : x.models[k].id # NoId => Knows(t, x.models[k].id)
  BY <1>6, <1>7, ParseXmlGrows
<1>9. ASSUME NEW d \in DeclaredIn(file, l) PROVE Knows(t, d)
  <2>1. DeclaredIn(file, l) = {x.models[k].id : k \in DOMAIN x.models} \ {NoId}
    BY <1>2, <1>6 DEF DeclaredIn
  <2> QED
    BY <1>8, <1>9, <2>1
<1>10. AllFromFiles(r, s, list, c, pos) /\ WonSoFar(r, s, list, c, pos)
  BY <1>1 DEF Reached
<1>11. IF file \in FoundIn(r)
       THEN /\ Grows(s, t, file, Len(s.models))
            /\ /\ \A q \in PlacesOf(r, file, l) : ~Done(q, list, c, pos)
               /\ ~Spoilt(r, PlacesOf(r, file, l))
               => \A d \in DeclaredIn(file, l) : Knows(t, d)
       ELSE t = s
  BY <1>5, <1>8, <1>9
<1>12. AllFromFiles(r, t, Tail(list), c, next) /\ WonSoFar(r, t, Tail(list), c, next)
  BY <1>2, <1>3, <1>4, <1>10, <1>11, NextLoaded
<1>13. left # <<>> => Disturbed(r, Tail(list), c, next)
  <2>1. left # <<>> => Disturbed(r, list, c, pos)
    BY <1>1 DEF Reached
  <2> QED
    BY <1>4, <2>1, PlacesFacts DEF Disturbed
<1> QED
  BY <1>4, <1>8, <1>12, <1>13 DEF Loading, Reached

-----------------------------------------------------------------------------
\* The command line and the search path

\* What is left of a sequence.
Suffix(x, y) ==
    /\ IsSequence(y) /\ Len(y) <= Len(x)
    /\ \A k \in 1 .. Len(y) : y[k] = x[Len(x) - Len(y) + k]

LEMMA SuffixFacts ==
    ASSUME NEW x, IsSequence(x)
    PROVE  /\ Suffix(x, x) /\ Suffix(x, <<>>)
           /\ \A y : Suffix(x, y) => Len(x) - Len(y) \in Nat /\ Len(y) \in Nat
<1>1. PICK n \in Nat : n = Len(x)
  BY SequenceFacts
<1>2. n - n = 0 /\ \A k \in 1 .. n : n - n + k = k
  BY <1>1
<1>3. Suffix(x, x)
  BY <1>1, <1>2 DEF Suffix
<1>4. Suffix(x, <<>>)
  BY <1>1, EmptyIsSequence DEF Suffix
<1>5. ASSUME NEW y, Suffix(x, y) PROVE Len(x) - Len(y) \in Nat /\ Len(y) \in Nat
  BY <1>1, <1>5, SequenceFacts DEF Suffix
<1> QED
  BY <1>3, <1>4, <1>5

LEMMA SuffixTail ==
    ASSUME NEW x, IsSequence(x), NEW y, Suffix(x, y), y # <<>>
    PROVE  LET c == Len(x) - Len(y)
           IN /\ Suffix(x, Tail(y)) /\ Len(x) - Len(Tail(y)) = c + 1
              /\ c + 1 \in 1 .. Len(x) /\ c \in Nat /\ Head(y) = x[c + 1]
<1>1. PICK n \in Nat : n = Len(x)
  BY SequenceFacts
<1>2. PICK m \in Nat : m = Len(y)
  BY SequenceFacts DEF Suffix
<1>3. PICK z : z = Tail(y)
  OBVIOUS
<1>4. m >= 1 /\ m <= n /\ Head(y) = y[1] /\ \A k \in 1 .. m : y[k] = x[n - m + k]
  BY <1>1, <1>2, TailFacts DEF Suffix
<1>5. IsSequence(z) /\ Len(z) = m - 1 /\ \A k \in 1 .. m - 1 : z[k] = y[k + 1]
  BY <1>2, <1>3, TailFacts DEF Suffix
<1>6. Head(y) = x[n - m + 1] /\ n - m + 1 \in 1 .. n /\ n - m \in Nat
  BY <1>4
<1>7. n - (m - 1) = n - m + 1
  OBVIOUS
<1>8. \A k \in 1 .. m - 1 : z[k] = x[n - (m - 1) + k]
  <2> TAKE k \in 1 .. m - 1
  <2>1. k + 1 \in 1 .. m /\ n - m + (k + 1) = n - (m - 1) + k
    OBVIOUS
  <2> QED
    BY <1>4, <1>5, <2>1
<1>9. Suffix(x, z)
  BY <1>1, <1>4, <1>5, <1>8 DEF Suffix
<1> QED
  BY <1>1, <1>2, <1>3, <1>5, <1>6, <1>7, <1>9

LEMMA EmptyIsState ==
    IsState(EmptyState) /\ Unfilled(EmptyState) /\ Indexed(EmptyState) /\ IsItems(<<>>)
<1>1. DOMAIN <<>> = {}
  OBVIOUS
<1>2. /\ DOMAIN EmptyState = StateFields
      /\ EmptyState.models = <<>> /\ EmptyState.did_list = <<>> /\ EmptyState.model_list = <<>>
  BY DEF EmptyState, StateFields
<1> QED
  BY <1>1, <1>2, EmptyIsSequence DEF IsState, Unfilled, Indexed, IsItems

-----------------------------------------------------------------------------
\* The inductive invariant

\* Sources that have been turned to.
Reading == IF NamesFiles(given) THEN Len(given.args) - Len(args)
           ELSE Len(given.path) - Len(path)

Winners(r, s) ==
    \A f \in FoundIn(r) : \A l \in {1, 2} :
        PlacesOf(r, f, l) # {} /\ ~Spoilt(r, PlacesOf(r, f, l)) =>
            \A d \in DeclaredIn(f, l) : WonBy(r, s, d, f, PlacesOf(r, f, l))

Typed ==
    /\ given \in Runs
    /\ app \in [override_model_searchpath : BOOLEAN, check_only : BOOLEAN,
                 export_fmt : {NULL, "slang", "xml", "other"}, option_error : BOOLEAN]
    /\ phase \in Final \union {"options", "search", "filled", "work"}
    /\ Suffix(given.args, args) /\ Suffix(given.path, path)
    /\ IsState(sps) /\ IsItems(leftover)

\* Only an error leaves anything in the scanner, or a model out of the list.
ErrorsOnly ==
    /\ leftover # <<>> => \E e \in FoundIn(given) : Erroneous(e)
    /\ (\A e \in FoundIn(given) : ~Erroneous(e)) => Indexed(sps)

\* The search path is for command lines that name no files.
OneKind ==
    /\ app.override_model_searchpath <=>
          \E k \in 1 .. Len(given.args) - Len(args) : given.args[k].opt \in FileOptions
    /\ phase = "options" => path = given.path /\ (~NamesFiles(given) => todo = <<>>)
    /\ phase = "search" => args = <<>> /\ (NamesFiles(given) => path = <<>>)

IInv ==
    /\ Typed
    /\ ErrorsOnly
    /\ OneKind
    /\ phase \in {"options", "search"} =>
          Unfilled(sps) /\ Loading(given, sps, leftover, todo, Reading)
    /\ phase \in {"filled", "work"} => Ready(sps) /\ Winners(given, sps)

LEMMA InitIInv == Init => IInv
<1> SUFFICES ASSUME Init PROVE IInv
  OBVIOUS
<1>1. /\ given \in Runs /\ args = given.args /\ path = given.path /\ todo = <<>>
      /\ sps = EmptyState /\ leftover = <<>> /\ phase = "options"
      /\ app = [override_model_searchpath |-> FALSE, check_only |-> FALSE,
                export_fmt |-> NULL, option_error |-> FALSE]
  BY DEF Init
<1>2. IsRun(given) /\ IsSequence(given.args) /\ IsSequence(given.path)
  BY <1>1, RunsAssumption DEF IsRun
<1>3. Typed
  BY <1>1, <1>2, SuffixFacts, EmptyIsState DEF Typed
<1>4. ErrorsOnly
  BY <1>1, EmptyIsState DEF ErrorsOnly
<1>5. Len(given.args) - Len(args) = 0 /\ Len(given.path) - Len(path) = 0 /\ 1 .. 0 = {}
  BY <1>1, <1>2, SequenceFacts
<1>6. OneKind
  BY <1>1, <1>5 DEF OneKind
<1>7. Unfilled(sps) /\ Loading(given, sps, leftover, todo, Reading)
  BY <1>1, <1>2, <1>5, EmptyIsState, NothingReached DEF Reading
<1> QED
  BY <1>1, <1>3, <1>4, <1>6, <1>7 DEF IInv

-----------------------------------------------------------------------------
\* Options

LEMMA NextOptionFacts ==
    ASSUME IInv, NEW opt, NextOption(opt)
    PROVE  LET c == Len(given.args) - Len(args)
           IN /\ IsRun(given) /\ phase = "options" /\ todo = <<>>
              /\ given' = given /\ path' = path /\ sps' = sps /\ leftover' = leftover
              /\ Suffix(given.args, args') /\ Len(given.args) - Len(args') = c + 1
              /\ c \in Nat /\ c + 1 \in 1 .. Len(given.args)
              /\ given.args[c + 1] = Head(args) /\ given.args[c + 1].opt = opt
              /\ opt \in FileOptions => NamesFiles(given)
              /\ NamesFiles(given) =>
                    Reading = c /\ Reading' = c + 1 /\ Sources(given) = given.args
              /\ ~NamesFiles(given) => Reading' = Reading
<1>1. /\ phase = "options" /\ todo = <<>> /\ args # <<>> /\ Head(args).opt = opt
      /\ args' = Tail(args)
      /\ given' = given /\ path' = path /\ sps' = sps /\ leftover' = leftover
  BY DEF NextOption
<1>2. IsRun(given) /\ IsSequence(given.args) /\ Suffix(given.args, args)
  BY RunsAssumption DEF IInv, Typed, IsRun
<1>3. PICK c : c = Len(given.args) - Len(args)
  OBVIOUS
<1>4. /\ Suffix(given.args, args') /\ Len(given.args) - Len(args') = c + 1
      /\ c + 1 \in 1 .. Len(given.args) /\ c \in Nat /\ Head(args) = given.args[c + 1]
  BY <1>1, <1>2, <1>3, SuffixTail
<1>5. opt \in FileOptions => NamesFiles(given)
  BY <1>1, <1>2, <1>4, SequenceFacts DEF NamesFiles
<1>6. NamesFiles(given) => Reading = c /\ Reading' = c + 1 /\ Sources(given) = given.args
  BY <1>1, <1>3, <1>4 DEF Reading, Sources
<1>7. ~NamesFiles(given) => Reading' = Reading
  BY <1>1 DEF Reading
<1> QED
  BY <1>1, <1>2, <1>3, <1>4, <1>5, <1>6, <1>7

\* An option is taken off the command line; one that names files brings them.
LEMMA OptionKeeps ==
    ASSUME IInv, NEW opt, NextOption(opt),
           app' \in [override_model_searchpath : BOOLEAN, check_only : BOOLEAN,
                      export_fmt : {NULL, "slang", "xml", "other"}, option_error : BOOLEAN],
           app'.override_model_searchpath <=>
                app.override_model_searchpath \/ opt \in FileOptions,
           phase' \in {"options", "success"},
           opt \notin FileOptions => todo' = todo,
           opt \in FileOptions => \E next :
                Fresh(given, todo', Len(given.args) - Len(args) + 1, next)
    PROVE  IInv'
<1>1. PICK c : c = Len(given.args) - Len(args)
  OBVIOUS
<1>2. /\ IsRun(given) /\ phase = "options" /\ todo = <<>>
      /\ given' = given /\ path' = path /\ sps' = sps /\ leftover' = leftover
      /\ Suffix(given.args, args') /\ Len(given.args) - Len(args') = c + 1
      /\ c \in Nat /\ c + 1 \in 1 .. Len(given.args)
      /\ given.args[c + 1].opt = opt
      /\ opt \in FileOptions => NamesFiles(given)
      /\ NamesFiles(given) =>
            Reading = c /\ Reading' = c + 1 /\ Sources(given) = given.args
      /\ ~NamesFiles(given) => Reading' = Reading
  BY <1>1, NextOptionFacts
<1>3. Typed' /\ ErrorsOnly'
  BY <1>2 DEF IInv, Typed, ErrorsOnly, Final
<1>4. OneKind'
  <2>1. \A k \in 1 .. c + 1 : k = c + 1 \/ k \in 1 .. c
    BY <1>2
  <2>2. c + 1 \in 1 .. c + 1 /\ \A k \in 1 .. c : k \in 1 .. c + 1
    BY <1>2
  <2>3. app.override_model_searchpath <=>
          \E k \in 1 .. c : given.args[k].opt \in FileOptions
    BY <1>1 DEF IInv, OneKind
  <2>4. (\E k \in 1 .. c + 1 : given.args[k].opt \in FileOptions) <=>
          (\E k \in 1 .. c : given.args[k].opt \in FileOptions) \/ opt \in FileOptions
    BY <1>2, <2>1, <2>2
  <2>5. app'.override_model_searchpath <=>
          \E k \in 1 .. Len(given'.args) - Len(args') : given'.args[k].opt \in FileOptions
    BY <1>2, <2>3, <2>4
  <2>6. path' = given'.path /\ (~NamesFiles(given') => todo' = <<>>)
    BY <1>2 DEF IInv, OneKind
  <2>7. phase' # "search"
    OBVIOUS
  <2> QED
    BY <2>5, <2>6, <2>7 DEF OneKind
<1>5. Unfilled(sps) /\ Loading(given, sps, leftover, <<>>, Reading)
  BY <1>2 DEF IInv
<1>6. Loading(given, sps, leftover, todo', Reading')
  <2>1. CASE NamesFiles(given)
    <3>1. \E next : Fresh(given, todo', c + 1, next)
      <4>1. CASE opt \in FileOptions
        BY <1>1, <4>1
      <4>2. CASE opt \notin FileOptions
        <5>1. \A f : \A p \in Positions(given, f) : p[1] # c + 1
          <6> SUFFICES ASSUME NEW f, NEW p \in Positions(given, f), p[1] = c + 1 PROVE FALSE
            OBVIOUS
          <6>1. StandsAt(given, f, given.args[c + 1], p[2], p[3])
            BY <1>2, <2>1, PositionFacts
          <6>2. opt \in {"m", "X", "M"}
            BY <1>2, <6>1 DEF StandsAt
          <6> QED
            BY <4>2, <6>2 DEF FileOptions
        <5>2. Fresh(given, <<>>, c + 1, <<>>)
          BY <1>2, <5>1, NothingPlanned
        <5>3. todo' = <<>>
          BY <1>2, <4>2
        <5> QED
          BY <5>2, <5>3
      <4> QED
        BY <4>1, <4>2
    <3>2. PICK next : Fresh(given, todo', c + 1, next)
      BY <3>1
    <3>3. Loading(given, sps, leftover, <<>>, c)
      BY <1>2, <1>5, <2>1
    <3>4. Loading(given, sps, leftover, todo', c + 1)
      BY <1>2, <3>2, <3>3, NextSource
    <3> QED
      BY <1>2, <2>1, <3>4
  <2>2. CASE ~NamesFiles(given)
    <3>1. todo' = <<>> /\ Reading' = Reading
      BY <1>2, <2>2
    <3> QED
      BY <1>5, <3>1
  <2> QED
    BY <2>1, <2>2
<1>7. phase' \notin {"filled", "work"}
  OBVIOUS
<1> QED
  BY <1>2, <1>3, <1>4, <1>5, <1>6, <1>7 DEF IInv

LEMMA OptFileKeeps == IInv /\ OptFile => IInv'
<1> SUFFICES ASSUME IInv, OptFile PROVE IInv'
  OBVIOUS
<1>1. PICK opt \in {"m", "X"} :
         NextOption(opt) /\ todo' = <<[name |-> Head(args).value, xml |-> opt = "X"]>>
  BY DEF OptFile
<1>2. PICK c : c = Len(given.args) - Len(args)
  OBVIOUS
<1>3. /\ IsRun(given) /\ phase = "options"
      /\ c + 1 \in 1 .. Len(given.args)
      /\ given.args[c + 1] = Head(args) /\ given.args[c + 1].opt = opt
      /\ opt \in FileOptions => NamesFiles(given)
      /\ NamesFiles(given) => Sources(given) = given.args
  BY <1>1, <1>2, NextOptionFacts
<1>4. opt \in FileOptions
  BY DEF FileOptions
<1>5. PICK n : n = c + 1
  OBVIOUS
<1>6. /\ n \in 1 .. Len(Sources(given)) /\ Sources(given)[n].opt = opt
      /\ Sources(given)[n].value = Head(args).value
  BY <1>3, <1>4, <1>5
<1>7. \E next : Fresh(given, <<[name |-> Sources(given)[n].value,
                                xml |-> Sources(given)[n].opt = "X"]>>, n, next)
  BY <1>3, <1>6, FilePlanned
<1>8. \E next : Fresh(given, todo', Len(given.args) - Len(args) + 1, next)
  BY <1>1, <1>2, <1>5, <1>6, <1>7
<1>9. app' = [app EXCEPT !.override_model_searchpath = TRUE] /\ phase' = phase
  BY DEF OptFile
<1>10. app' \in [override_model_searchpath : BOOLEAN, check_only : BOOLEAN,
                  export_fmt : {NULL, "slang", "xml", "other"}, option_error : BOOLEAN]
       /\ app'.override_model_searchpath
  BY <1>9 DEF IInv, Typed
<1> QED
  BY <1>1, <1>3, <1>4, <1>8, <1>9, <1>10, OptionKeeps

LEMMA OptDirKeeps == IInv /\ OptDir => IInv'
<1> SUFFICES ASSUME IInv, OptDir PROVE IInv'
  OBVIOUS
<1>1. NextOption("M") /\ todo' = SearchDir(given.dirs, Head(args).value)
  BY DEF OptDir
<1>2. PICK c : c = Len(given.args) - Len(args)
  OBVIOUS
<1>3. /\ IsRun(given) /\ phase = "options"
      /\ c + 1 \in 1 .. Len(given.args)
      /\ given.args[c + 1] = Head(args) /\ given.args[c + 1].opt = "M"
      /\ "M" \in FileOptions => NamesFiles(given)
      /\ NamesFiles(given) => Sources(given) = given.args
  BY <1>1, <1>2, NextOptionFacts
<1>4. "M" \in FileOptions
  BY DEF FileOptions
<1>5. PICK n : n = c + 1
  OBVIOUS
<1>6. /\ n \in 1 .. Len(Sources(given)) /\ Sources(given)[n].opt = "M"
      /\ Sources(given)[n].value = Head(args).value
  BY <1>3, <1>4, <1>5
<1>7. \E next : Fresh(given, SearchDir(given.dirs, Sources(given)[n].value), n, next)
  BY <1>3, <1>6, DirPlanned
<1>8. \E next : Fresh(given, todo', Len(given.args) - Len(args) + 1, next)
  BY <1>1, <1>2, <1>5, <1>6, <1>7
<1>9. app' = [app EXCEPT !.override_model_searchpath = TRUE] /\ phase' = phase
  BY DEF OptDir
<1>10. app' \in [override_model_searchpath : BOOLEAN, check_only : BOOLEAN,
                  export_fmt : {NULL, "slang", "xml", "other"}, option_error : BOOLEAN]
       /\ app'.override_model_searchpath
  BY <1>9 DEF IInv, Typed
<1> QED
  BY <1>1, <1>3, <1>4, <1>8, <1>9, <1>10, OptionKeeps

LEMMA OtherOptionsKeep ==
    IInv /\ (OptCheck \/ OptExport \/ OptError \/ OptHelp) => IInv'
<1> SUFFICES ASSUME IInv, OptCheck \/ OptExport \/ OptError \/ OptHelp PROVE IInv'
  OBVIOUS
<1>1. PICK opt \in {"c", "x", "bad", "h"} : /\ NextOption(opt)
                                            /\ opt = "c" => OptCheck
                                            /\ opt = "x" => OptExport
                                            /\ opt = "bad" => OptError
                                            /\ opt = "h" => OptHelp
  <2>1. ASSUME OptCheck PROVE NextOption("c")
    BY <2>1 DEF OptCheck
  <2>2. ASSUME OptExport PROVE NextOption("x")
    BY <2>2 DEF OptExport
  <2>3. ASSUME OptError PROVE NextOption("bad")
    BY <2>3 DEF OptError
  <2>4. ASSUME OptHelp PROVE NextOption("h")
    BY <2>4 DEF OptHelp
  <2> QED
    BY <2>1, <2>2, <2>3, <2>4
<1>2. opt \notin FileOptions
  BY DEF FileOptions
<1>3. PICK c : c = Len(given.args) - Len(args)
  OBVIOUS
<1>4. /\ IsRun(given) /\ phase = "options" /\ c + 1 \in 1 .. Len(given.args)
      /\ given.args[c + 1] = Head(args) /\ given.args[c + 1].opt = opt
  BY <1>1, <1>3, NextOptionFacts
<1>5. opt = "x" => Head(args).value \in {"slang", "xml", "other"}
  BY <1>4, SequenceFacts DEF IsRun
<1>6. app \in [override_model_searchpath : BOOLEAN, check_only : BOOLEAN,
                export_fmt : {NULL, "slang", "xml", "other"}, option_error : BOOLEAN]
  BY DEF IInv, Typed
<1>7. /\ app' \in [override_model_searchpath : BOOLEAN, check_only : BOOLEAN,
                    export_fmt : {NULL, "slang", "xml", "other"}, option_error : BOOLEAN]
      /\ app'.override_model_searchpath = app.override_model_searchpath
      /\ phase' \in {"options", "success"} /\ todo' = todo
  <2>1. CASE opt = "c"
    BY <1>1, <1>4, <1>6, <2>1 DEF OptCheck
  <2>2. CASE opt = "x"
    BY <1>1, <1>4, <1>5, <1>6, <2>2 DEF OptExport
  <2>3. CASE opt = "bad"
    BY <1>1, <1>4, <1>6, <2>3 DEF OptError
  <2>4. CASE opt = "h"
    BY <1>1, <1>4, <1>6, <2>4 DEF OptHelp
  <2> QED
    BY <2>1, <2>2, <2>3, <2>4
<1> QED
  BY <1>1, <1>2, <1>7, OptionKeeps

LEMMA EndOfOptionsKeeps == IInv /\ EndOfOptions => IInv'
<1> SUFFICES ASSUME IInv, EndOfOptions PROVE IInv'
  OBVIOUS
<1>1. /\ phase = "options" /\ todo = <<>> /\ args = <<>>
      /\ phase' \in {"failure", "search"}
      /\ path' = IF app.override_model_searchpath THEN <<>> ELSE path
      /\ given' = given /\ args' = args /\ app' = app /\ todo' = todo /\ sps' = sps
      /\ leftover' = leftover
  BY DEF EndOfOptions
<1>2. IsRun(given) /\ IsSequence(given.args) /\ IsSequence(given.path)
  BY RunsAssumption DEF IInv, Typed, IsRun
<1>3. path' = path \/ path' = <<>>
  BY <1>1
<1>4. Typed' /\ ErrorsOnly'
  <2>1. Suffix(given.path, path')
    BY <1>2, <1>3, SuffixFacts DEF IInv, Typed
  <2> QED
    BY <1>1, <2>1 DEF IInv, Typed, ErrorsOnly, Final
<1>5. app.override_model_searchpath <=> NamesFiles(given)
  <2>1. PICK n \in Nat : n = Len(given.args) /\ DOMAIN given.args = 1 .. n
    BY <1>2, SequenceFacts
  <2>2. Len(given.args) - Len(args) = n
    BY <1>1, <2>1, EmptyIsSequence
  <2>3. app.override_model_searchpath <=> \E k \in 1 .. n : given.args[k].opt \in FileOptions
    BY <2>2 DEF IInv, OneKind
  <2> QED
    BY <2>1, <2>3 DEF NamesFiles
<1>6. OneKind'
  <2>1. NamesFiles(given) => path' = <<>>
    BY <1>1, <1>5
  <2> QED
    BY <1>1, <2>1 DEF IInv, OneKind
<1>7. Reading' = Reading
  <2>1. CASE NamesFiles(given)
    BY <1>1, <2>1 DEF Reading
  <2>2. CASE ~NamesFiles(given)
    <3>1. path' = path
      BY <1>1, <1>5, <2>2
    <3> QED
      BY <1>1, <2>2, <3>1 DEF Reading
  <2> QED
    BY <2>1, <2>2
<1>8. Unfilled(sps) /\ Loading(given, sps, leftover, todo, Reading)
  BY <1>1 DEF IInv
<1> QED
  BY <1>1, <1>4, <1>6, <1>7, <1>8 DEF IInv

-----------------------------------------------------------------------------
\* Loading

LEMMA SearchPathKeeps == IInv /\ SearchPath => IInv'
<1> SUFFICES ASSUME IInv, SearchPath PROVE IInv'
  OBVIOUS
<1>1. /\ phase = "search" /\ todo = <<>> /\ path # <<>>
      /\ todo' = SearchDir(given.dirs, Head(path)) /\ path' = Tail(path)
      /\ given' = given /\ args' = args /\ app' = app /\ sps' = sps
      /\ leftover' = leftover /\ phase' = phase
  BY DEF SearchPath
<1>2. IsRun(given) /\ IsSequence(given.path) /\ Suffix(given.path, path)
  BY RunsAssumption DEF IInv, Typed, IsRun
<1>3. ~NamesFiles(given)
  BY <1>1 DEF IInv, OneKind
<1>4. PICK c : c = Len(given.path) - Len(path)
  OBVIOUS
<1>5. /\ Suffix(given.path, path') /\ Len(given.path) - Len(path') = c + 1
      /\ c + 1 \in 1 .. Len(given.path) /\ c \in Nat /\ Head(path) = given.path[c + 1]
  BY <1>1, <1>2, <1>4, SuffixTail
<1>6. Reading = c /\ Reading' = c + 1
  BY <1>1, <1>3, <1>4, <1>5 DEF Reading
<1>7. PICK n : n = c + 1
  OBVIOUS
<1>8. /\ n \in 1 .. Len(Sources(given)) /\ Sources(given)[n].opt = "M"
      /\ Sources(given)[n].value = Head(path)
  <2>1. n \in DOMAIN given.path /\ Len(Sources(given)) = Len(given.path)
    BY <1>2, <1>3, <1>5, <1>7, SequenceFacts, SourcesFacts
  <2>2. Sources(given)[n] = [opt |-> "M", value |-> given.path[n]]
    BY <1>3, <2>1 DEF Sources
  <2> QED
    BY <1>5, <1>7, <2>1, <2>2
<1>9. PICK next : Fresh(given, SearchDir(given.dirs, Head(path)), n, next)
  <2>1. \E next : Fresh(given, SearchDir(given.dirs, Sources(given)[n].value), n, next)
    BY <1>2, <1>8, DirPlanned
  <2> QED
    BY <1>8, <2>1
<1>10. Unfilled(sps) /\ Loading(given, sps, leftover, <<>>, c)
  BY <1>1, <1>6 DEF IInv
<1>11. Loading(given, sps, leftover, todo', c + 1)
  BY <1>1, <1>2, <1>5, <1>7, <1>9, <1>10, NextSource
<1>12. Typed' /\ ErrorsOnly' /\ OneKind'
  BY <1>1, <1>3, <1>5 DEF IInv, Typed, ErrorsOnly, OneKind
<1> QED
  BY <1>1, <1>6, <1>10, <1>11, <1>12 DEF IInv

\* A file has been read, or could not be.
LEMMA FileKeeps ==
    ASSUME IInv, phase \in {"options", "search"}, todo # <<>>,
           phase' = phase, todo' = Tail(todo),
           UNCHANGED <<given, args, app, path>>,
           Loading(given, sps', leftover', Tail(todo), Reading),
           IsState(sps'), Unfilled(sps'), IsItems(leftover'),
           (\A e \in FoundIn(given) : ~Erroneous(e)) /\ Indexed(sps) => Indexed(sps')
    PROVE  IInv'
<1>1. given' = given /\ args' = args /\ app' = app /\ path' = path
  OBVIOUS
<1>2. Typed'
  BY <1>1 DEF IInv, Typed
<1>3. ErrorsOnly'
  <2>1. leftover' # <<>> => \E e \in FoundIn(given) : Erroneous(e)
    <3> SUFFICES ASSUME leftover' # <<>> PROVE \E e \in FoundIn(given) : Erroneous(e)
      OBVIOUS
    <3>1. PICK pos : Reached(given, sps', leftover', Tail(todo), Reading, pos)
      BY DEF Loading
    <3> QED
      BY <3>1 DEF Reached, Disturbed
  <2> QED
    BY <1>1, <2>1 DEF IInv, ErrorsOnly
<1>4. OneKind'
  <2>1. ~NamesFiles(given) /\ phase = "options" => FALSE
    BY DEF IInv, OneKind
  <2> QED
    BY <1>1, <2>1 DEF IInv, OneKind
<1>5. Reading' = Reading
  BY <1>1 DEF Reading
<1> QED
  BY <1>1, <1>2, <1>3, <1>4, <1>5 DEF IInv

LEMMA LoadSlangKeeps == IInv /\ LoadSlang => IInv'
<1> SUFFICES ASSUME IInv, LoadSlang PROVE IInv'
  OBVIOUS
<1>1. PICK file : file = Head(todo).name
  OBVIOUS
<1>2. /\ phase \in {"options", "search"} /\ todo # <<>> /\ ~Head(todo).xml
      /\ todo' = Tail(todo) /\ UNCHANGED <<given, args, app, path>>
  BY DEF LoadSlang
<1>3. IsRun(given) /\ IsState(sps) /\ IsItems(leftover) /\ Unfilled(sps)
  BY <1>2, RunsAssumption DEF IInv, Typed
<1>4. Loading(given, sps, leftover, todo, Reading)
  BY <1>2 DEF IInv
<1>5. PICK items : items = Scanned(leftover, file)
  OBVIOUS
<1>6. \/ ~Opens(file) /\ UNCHANGED <<sps, leftover, phase>>
      \/ phase' = "crashed" /\ UNCHANGED <<sps, leftover>>
      \/ /\ Opens(file) /\ phase' = phase
         /\ sps' = Parse(sps, items, file) /\ leftover' = Remaining(items)
  BY <1>1, <1>5 DEF LoadSlang, Scanned, Remaining
<1>7. CASE ~Opens(file) /\ UNCHANGED <<sps, leftover, phase>>
  <2>1. Loading(given, sps, leftover, Tail(todo), Reading)
    BY <1>1, <1>2, <1>3, <1>4, <1>7, FileSkipped
  <2> QED
    BY <1>2, <1>3, <1>7, <2>1, FileKeeps
<1>8. CASE phase' = "crashed" /\ UNCHANGED <<sps, leftover>>
  BY <1>2, <1>8 DEF IInv, Typed, ErrorsOnly, OneKind, Final
<1>9. CASE /\ Opens(file) /\ phase' = phase
           /\ sps' = Parse(sps, items, file) /\ leftover' = Remaining(items)
  <2>1. /\ Loading(given, sps', leftover', Tail(todo), Reading)
        /\ Grows(sps, sps', file, Len(sps.models)) /\ IsItems(leftover')
        /\ (\A e \in FoundIn(given) : ~Erroneous(e)) /\ Indexed(sps) => Indexed(sps')
    BY <1>1, <1>2, <1>3, <1>4, <1>5, <1>9, SlangRead
  <2>2. IsState(sps') /\ Unfilled(sps')
    BY <1>3, <2>1, GrowsUnfilled DEF Grows
  <2> QED
    BY <1>2, <1>9, <2>1, <2>2, FileKeeps
<1> QED
  BY <1>6, <1>7, <1>8, <1>9

LEMMA LoadXmlKeeps == IInv /\ LoadXml => IInv'
<1> SUFFICES ASSUME IInv, LoadXml PROVE IInv'
  OBVIOUS
<1>1. PICK file : file = Head(todo).name
  OBVIOUS
<1>2. /\ phase \in {"options", "search"} /\ todo # <<>> /\ Head(todo).xml
      /\ todo' = Tail(todo) /\ UNCHANGED <<given, args, app, path>>
      /\ leftover' = leftover /\ phase' = phase
  BY DEF LoadXml
<1>3. IsRun(given) /\ IsState(sps) /\ IsItems(leftover) /\ Unfilled(sps)
  BY <1>2, RunsAssumption DEF IInv, Typed
<1>4. Loading(given, sps, leftover, todo, Reading)
  BY <1>2 DEF IInv
<1>5. \/ ~Opens(file) /\ sps' = sps
      \/ Opens(file) /\ sps' = ParseXml(sps, Files[file].xml, file)
  BY <1>1 DEF LoadXml
<1>6. CASE ~Opens(file) /\ sps' = sps
  <2>1. Loading(given, sps, leftover, Tail(todo), Reading)
    BY <1>1, <1>2, <1>3, <1>4, <1>6, FileSkipped
  <2> QED
    BY <1>2, <1>3, <1>6, <2>1, FileKeeps
<1>7. CASE Opens(file) /\ sps' = ParseXml(sps, Files[file].xml, file)
  <2>1. /\ Loading(given, sps', leftover, Tail(todo), Reading)
        /\ Grows(sps, sps', file, Len(sps.models))
        /\ Indexed(sps) => Indexed(sps')
    BY <1>1, <1>2, <1>3, <1>4, <1>7, XmlRead
  <2>2. IsState(sps') /\ Unfilled(sps')
    BY <1>3, <2>1, GrowsUnfilled DEF Grows
  <2> QED
    BY <1>2, <1>3, <2>1, <2>2, FileKeeps
<1> QED
  BY <1>5, <1>6, <1>7

-----------------------------------------------------------------------------
\* When all is loaded

LEMMA AllLoaded ==
    ASSUME IInv, Loaded PROVE Winners(given, sps)
<1>1. phase = "search" /\ todo = <<>> /\ path = <<>> /\ args = <<>>
  BY DEF Loaded, IInv, OneKind
<1>2. IsRun(given) /\ IsSequence(given.args) /\ IsSequence(given.path)
  BY RunsAssumption DEF IInv, Typed, IsRun
<1>3. Reading = Len(Sources(given))
  <2>1. Len(given.args) - Len(args) = Len(given.args)
        /\ Len(given.path) - Len(path) = Len(given.path)
    BY <1>1, <1>2, SequenceFacts, EmptyIsSequence
  <2>2. Len(Sources(given)) = IF NamesFiles(given) THEN Len(given.args) ELSE Len(given.path)
    BY <1>2, SourcesFacts
  <2> QED
    BY <2>1, <2>2 DEF Reading
<1>4. PICK c \in Nat : c = Len(Sources(given))
  BY <1>2, SourcesFacts, SequenceFacts
<1>5. PICK pos : Reached(given, sps, leftover, <<>>, c, pos)
  BY <1>1, <1>3, <1>4 DEF IInv, Loading
<1>6. WonSoFar(given, sps, <<>>, c, pos)
  BY <1>5 DEF Reached
<1>7. ASSUME NEW f, NEW p \in Positions(given, f) PROVE Done(p, <<>>, c, pos)
  <2>1. p[1] \in 1 .. c
    BY <1>2, <1>4, PositionFacts
  <2>2. 1 .. Len(<<>>) = {}
    OBVIOUS
  <2> QED
    BY <1>4, <2>1, <2>2 DEF Done
<1>8. ASSUME NEW f \in FoundIn(given), NEW l \in {1, 2},
             PlacesOf(given, f, l) # {}, ~Spoilt(given, PlacesOf(given, f, l)),
             NEW d \in DeclaredIn(f, l)
      PROVE  WonBy(given, sps, d, f, PlacesOf(given, f, l))
  <2>1. PICK q : q \in PlacesOf(given, f, l)
    BY <1>8
  <2>2. Done(q, <<>>, c, pos)
    BY <1>7, <2>1, PlacesFacts
  <2> QED
    BY <1>6, <1>8, <2>1, <2>2 DEF WonSoFar
<1> QED
  BY <1>8 DEF Winners

\* Who wins depends on the dids and the files of the models only.
LEMMA WinnersSame ==
    ASSUME NEW r, NEW s, IsState(s), Winners(r, s), NEW t,
           t.did_list = s.did_list,
           \A i \in DOMAIN s.models : t.models[i].file = s.models[i].file
    PROVE  Winners(r, t)
<1>1. ASSUME NEW d, NEW f, NEW places, WonBy(r, s, d, f, places)
      PROVE  WonBy(r, t, d, f, places)
  <2>1. PICK e : e = FindDid(s, d)
    OBVIOUS
  <2>2. FindDid(t, d) = e
    BY <2>1 DEF FindDid
  <2>3. e # 0 /\ e \in DOMAIN s.did_list
    BY <1>1, <2>1, FindDidFacts, StateFacts DEF WonBy
  <2>4. PICK i : i = s.did_list[e].model
    OBVIOUS
  <2>5. i \in DOMAIN s.models /\ t.did_list[e].model = i
    BY <2>3, <2>4 DEF IsState
  <2>6. PICK winner : winner = s.models[i].file
    OBVIOUS
  <2>7. t.models[i].file = winner
    BY <2>5, <2>6
  <2>8. winner = f \/ \E p \in Positions(r, winner) : \A q \in places : Before(p, q)
    BY <1>1, <2>1, <2>4, <2>6 DEF WonBy
  <2> QED
    BY <2>2, <2>3, <2>5, <2>7, <2>8 DEF WonBy
<1> QED
  BY <1>1 DEF Winners

LEMMA FillModelsKeeps == IInv /\ FillModels => IInv'
<1> SUFFICES ASSUME IInv, FillModels PROVE IInv'
  OBVIOUS
<1>1. PICK models : models = FilledModels
  OBVIOUS
<1>2. /\ Loaded /\ sps' = [sps EXCEPT !.models = models] /\ phase' = "filled"
      /\ UNCHANGED <<given, args, app, path, todo, leftover>>
  BY <1>1 DEF FillModels
<1>3. IsState(sps) /\ Unfilled(sps) /\ Filling(sps, models)
  BY <1>1, <1>2 DEF IInv, Typed, Loaded, Filling, FilledModels
<1>4. /\ IsState(sps') /\ Ready(sps')
      /\ sps'.did_list = sps.did_list /\ sps'.model_list = sps.model_list
      /\ \A i \in DOMAIN sps.models : sps'.models[i].file = sps.models[i].file
  BY <1>2, <1>3, FillingKeeps
<1>5. Winners(given, sps)
  BY <1>2, AllLoaded
<1>6. Winners(given, sps')
  BY <1>3, <1>4, <1>5, WinnersSame
<1>7. Indexed(sps) => Indexed(sps')
  BY <1>4 DEF Indexed
<1>8. Typed' /\ ErrorsOnly' /\ OneKind'
  BY <1>2, <1>4, <1>7 DEF IInv, Typed, ErrorsOnly, OneKind
<1> QED
  BY <1>2, <1>4, <1>6, <1>8 DEF IInv

\* main() goes on, and the models stay as they are.
LEMMA MainKeeps ==
    ASSUME IInv, UNCHANGED <<given, args, app, path, todo, sps, leftover>>,
           \/ phase' \in Final
           \/ phase' = "work" /\ phase = "filled"
           \/ phase' = phase
    PROVE  IInv'
<1>1. /\ given' = given /\ args' = args /\ app' = app /\ path' = path /\ todo' = todo
      /\ sps' = sps /\ leftover' = leftover
  OBVIOUS
<1>2. Reading' = Reading
  BY <1>1 DEF Reading
<1>3. Typed' /\ ErrorsOnly'
  BY <1>1 DEF IInv, Typed, ErrorsOnly
<1>4. phase' = phase \/ phase' \notin {"options", "search"}
  BY DEF Final
<1>5. phase' \in {"filled", "work"} => phase \in {"filled", "work"}
  BY DEF Final
<1>6. OneKind'
  BY <1>1, <1>4 DEF IInv, OneKind
<1> QED
  BY <1>1, <1>2, <1>3, <1>4, <1>5, <1>6 DEF IInv

LEMMA NextIInv == IInv /\ [Next]_vars => IInv'
<1> SUFFICES ASSUME IInv, [Next]_vars PROVE IInv'
  OBVIOUS
<1>1. CASE LoadSlang
  BY <1>1, LoadSlangKeeps
<1>2. CASE LoadXml
  BY <1>2, LoadXmlKeeps
<1>3. CASE OptFile
  BY <1>3, OptFileKeeps
<1>4. CASE OptDir
  BY <1>4, OptDirKeeps
<1>5. CASE OptCheck \/ OptExport \/ OptError \/ OptHelp
  BY <1>5, OtherOptionsKeep
<1>6. CASE EndOfOptions
  BY <1>6, EndOfOptionsKeeps
<1>7. CASE SearchPath
  BY <1>7, SearchPathKeeps
<1>8. CASE FillModels
  BY <1>8, FillModelsKeeps
<1>9. CASE GiveUp
  <2>1. phase' \in Final /\ UNCHANGED <<given, args, app, path, todo, sps, leftover>>
    BY <1>9 DEF GiveUp, Final
  <2> QED
    BY <2>1, MainKeeps
<1>10. CASE CheckModels
  <2>1. phase' \in Final /\ UNCHANGED <<given, args, app, path, todo, sps, leftover>>
    BY <1>10 DEF CheckModels, Final
  <2> QED
    BY <2>1, MainKeeps
<1>11. CASE Export
  <2>1. phase' \in Final /\ UNCHANGED <<given, args, app, path, todo, sps, leftover>>
    BY <1>11 DEF Export, Final
  <2> QED
    BY <2>1, MainKeeps
<1>12. CASE Work
  <2>1. /\ phase = "filled" /\ phase' = "work"
        /\ UNCHANGED <<given, args, app, path, todo, sps, leftover>>
    BY <1>12 DEF Work
  <2> QED
    BY <2>1, MainKeeps
<1>13. CASE Ended \/ UNCHANGED vars
  <2>1. phase' = phase /\ UNCHANGED <<given, args, app, path, todo, sps, leftover>>
    BY <1>13 DEF Ended, vars
  <2> QED
    BY <2>1, MainKeeps
<1> QED
  BY <1>1, <1>2, <1>3, <1>4, <1>5, <1>6, <1>7, <1>8, <1>9, <1>10, <1>11, <1>12, <1>13
     DEF Next

-----------------------------------------------------------------------------
\* Theorems

\* The inductive invariant holds of the tool, for all runs and files: what is
\* in the state is what the files loaded so far declare, and what is still to
\* load is the rest of the options or of the search path (suns_app.c:1054-1112).
THEOREM Invariant == Spec => []IInv
<1>1. Init => IInv
  BY InitIInv
<1>2. IInv /\ [Next]_vars => IInv'
  BY NextIInv
<1> QED
  BY <1>1, <1>2, PTL DEF Spec

\* The did_list and the model_list lead to models there are, the model_list to
\* each once, and only items behind an error wait in the scanner.
THEOREM TypeCorrect == Spec => []TypeOK
<1>1. IInv => TypeOK
  <2> SUFFICES ASSUME IInv PROVE TypeOK
    OBVIOUS
  <2>1. Typed /\ ErrorsOnly
    BY DEF IInv
  <2>2. /\ \A d \in DOMAIN sps.did_list : sps.did_list[d].model \in DOMAIN sps.models
        /\ \A k \in DOMAIN sps.model_list : sps.model_list[k] \in DOMAIN sps.models
        /\ \A k, n \in DOMAIN sps.model_list : sps.model_list[k] = sps.model_list[n] => k = n
    BY <2>1 DEF Typed, IsState
  <2>3. \A i \in DOMAIN sps.models : \A b \in DOMAIN sps.models[i].dp_blocks :
            sps.models[i].dp_blocks[b].len \in Nat
    BY <2>1 DEF Typed, IsState, IsModel, IsBlock
  <2>4. ASSUME leftover # <<>>
        PROVE  \E f \in DOMAIN Files : \E k \in DOMAIN Files[f].items : IsError(Files[f].items[k])
    <3>1. PICK e \in FoundIn(given) : Erroneous(e)
      BY <2>1, <2>4 DEF ErrorsOnly
    <3>2. e \in DOMAIN Files
      BY DEF FoundIn
    <3>3. PICK items : items = Files[e].items
      OBVIOUS
    <3>4. IsSequence(items) /\ FirstError(items) # 0
      BY <3>1, <3>2, <3>3, FilesAssumption DEF IsFile, Erroneous
    <3>5. \E k \in DOMAIN items : IsError(items[k])
      BY <3>4, ErrorFacts, SequenceFacts
    <3> QED
      BY <3>2, <3>3, <3>5
  <2> QED
    BY <2>1, <2>2, <2>3, <2>4 DEF TypeOK, Typed
<1> QED
  BY <1>1, Invariant, PTL

\* A did belongs to the file that comes first among those that declare it, in
\* the order of the options or of the search path, slang before XML in a
\* directory; only an error in a slang file before it can change that.
THEOREM FirstWins == Spec => []WhoWins
<1>1. IInv => WhoWins
  <2> SUFFICES ASSUME IInv, Complete PROVE Winners(given, sps)
    BY DEF WhoWins, Winners, Found
  <2>1. CASE Loaded
    BY <2>1, AllLoaded
  <2>2. CASE phase \in {"filled", "work"}
    BY <2>2 DEF IInv
  <2> QED
    BY <2>1, <2>2 DEF Complete
<1> QED
  BY <1>1, Invariant, PTL

\* When no file has an error, whatever a did leads to is in the model_list and
\* has been through suns_model_fill_offsets() exactly once: all its points have
\* their places when the devices are read.
THEOREM ModelsReady == Spec => []IndexedIsReady
<1>1. IInv => IndexedIsReady
  <2> SUFFICES ASSUME IInv, phase \in {"filled", "work"}, \A f \in Found : ~Erroneous(f),
                      NEW d \in DOMAIN sps.did_list,
                      NEW m, m = sps.models[sps.did_list[d].model]
               PROVE  m.fills = 1 /\ \A k \in DOMAIN PointsOf(m) : PointsOf(m)[k].offset >= 0
    BY DEF IndexedIsReady
  <2>1. IsState(sps) /\ Indexed(sps) /\ Ready(sps)
    BY DEF IInv, Typed, ErrorsOnly, Found
  <2>2. PICK i : i = sps.did_list[d].model
    OBVIOUS
  <2>3. PICK k \in DOMAIN sps.model_list : sps.model_list[k] = i
    BY <2>1, <2>2 DEF Indexed
  <2>4. i \in DOMAIN sps.models /\ m = sps.models[i]
    BY <2>1, <2>2 DEF IsState
  <2>5. m.fills = 1 /\ AllLaid(m) /\ IsModel(m)
    BY <2>1, <2>3, <2>4 DEF Ready, IsState
  <2> QED
    BY <2>5, PointsLaid
<1> QED
  BY <1>1, Invariant, PTL
=============================================================================

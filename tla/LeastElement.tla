---------------------------- MODULE LeastElement ----------------------------
(***************************************************************************)
(* Induction in the form the provers can apply: a nonempty set of natural  *)
(* numbers has a least element, one that is bounded has a greatest; and    *)
(* what is defined step by step from 0 exists.                             *)
(***************************************************************************)
EXTENDS Integers, WellFoundedInduction, TLAPS

\* The well-ordering principle, from the library's well-foundedness of <.
LEMMA NatLeast ==
    ASSUME NEW T \in SUBSET Nat, T # {}
    PROVE  \E x \in T : \A y \in T : x <= y
<1> DEFINE R == {ss \in Nat \X Nat : ss[1] < ss[2]}
<1>1. IsWellFoundedOn(R, Nat)
  BY NatLessThanWellFounded DEF OpToRel
<1>2. \A x, y \in T : y < x => <<y, x>> \in R
  OBVIOUS
<1> HIDE DEF R
<1>3. \E x \in T : \A y \in T : ~(<<y, x>> \in R)
  BY <1>1, WFMin
<1>4. \A x, y \in T : ~(y < x) => x <= y
  OBVIOUS
<1> QED
  BY <1>2, <1>3, <1>4

\* The mirror image: a bounded nonempty set of numbers has a greatest element.
LEMMA NatGreatest ==
    ASSUME NEW N \in Nat, NEW T \in SUBSET (0 .. N), T # {}
    PROVE  \E x \in T : \A y \in T : y <= x
<1> DEFINE M == {N - y : y \in T}
<1>1. M \in SUBSET Nat /\ M # {}
  <2>1. PICK y \in T : TRUE
    OBVIOUS
  <2>2. N - y \in M
    OBVIOUS
  <2>3. \A z \in M : z \in Nat
    OBVIOUS
  <2> QED
    BY <2>2, <2>3
<1>2. PICK z \in M : \A y \in M : z <= y
  BY <1>1, NatLeast
<1>3. PICK x \in T : z = N - x
  OBVIOUS
<1>4. ASSUME NEW y \in T PROVE y <= x
  <2>1. N - y \in M
    OBVIOUS
  <2>2. N - x <= N - y
    BY <1>2, <1>3, <2>1
  <2> QED
    BY <2>2
<1> QED
  BY <1>4

\* Step by step from 0 to N.
LEMMA UpTo ==
    ASSUME NEW N \in Nat, NEW T, 0 \in T, \A k \in 1 .. N : k - 1 \in T => k \in T
    PROVE  0 .. N \subseteq T
<1> DEFINE Rest == (0 .. N) \ T
<1> SUFFICES ASSUME Rest # {} PROVE FALSE
  OBVIOUS
<1>1. PICK x \in Rest : \A y \in Rest : x <= y
  <2>1. Rest \in SUBSET Nat
    OBVIOUS
  <2> HIDE DEF Rest
  <2> QED
    BY <2>1, NatLeast
<1>2. x \in 1 .. N /\ x - 1 \in 0 .. N /\ ~(x <= x - 1)
  OBVIOUS
<1>3. x - 1 \in T
  BY <1>1, <1>2
<1> QED
  BY <1>2, <1>3

-----------------------------------------------------------------------------
\* Recursive functions

\* f begins with base and goes on by steps, each from the value before.
Follows(f, base, step, N) == f[0] = base /\ \A k \in 1 .. N : f[k] = step[k][f[k - 1]]

LEMMA Recursion ==
    ASSUME NEW S, NEW base \in S, NEW N \in Nat, NEW step,
           \A k \in 1 .. N : \A x \in S : step[k][x] \in S
    PROVE  \E f \in [0 .. N -> S] : Follows(f, base, step, N)
<1> USE DEF Follows
<1> DEFINE Is(f, n) == f \in [0 .. n -> S] /\ Follows(f, base, step, n)
           T == {n \in 0 .. N : ~ \E f : Is(f, n)}
<1>1. SUFFICES T = {}
  OBVIOUS
<1>2. SUFFICES ASSUME T # {} PROVE FALSE
  OBVIOUS
<1>3. PICK n \in T : \A m \in T : n <= m
  <2>1. T \in SUBSET Nat
    OBVIOUS
  <2> HIDE DEF T
  <2> QED
    BY <1>2, <2>1, NatLeast
<1>4. Is([k \in 0 .. 0 |-> base], 0)
  OBVIOUS
<1>5. n # 0 /\ n - 1 \in Nat /\ n - 1 \notin T
  <2>1. \E f : Is(f, 0)
    BY <1>4
  <2>2. 0 \notin T
    BY <2>1
  <2>3. n \in Nat
    BY <1>3
  <2> HIDE DEF T
  <2> QED
    BY <1>3, <2>2, <2>3
<1>6. PICK f : Is(f, n - 1)
  BY <1>5
<1>7. Is([k \in 0 .. n |-> IF k = n THEN step[n][f[n - 1]] ELSE f[k]], n)
  <2> DEFINE g == [k \in 0 .. n |-> IF k = n THEN step[n][f[n - 1]] ELSE f[k]]
  <2>1. n \in Nat \ {0} /\ f \in [0 .. n - 1 -> S] /\ f[n - 1] \in S
    BY <1>5, <1>6
  <2>2. step[n][f[n - 1]] \in S
    BY <2>1
  <2>3. g \in [0 .. n -> S] /\ g[0] = base
    BY <1>6, <2>1, <2>2
  <2>4. ASSUME NEW k \in 1 .. n PROVE g[k] = step[k][g[k - 1]]
    <3>1. CASE k = n
      BY <3>1, <2>1
    <3>2. CASE k # n
      BY <3>2, <2>1, <1>6
    <3> QED BY <3>1, <3>2
  <2> QED BY <2>3, <2>4
<1> QED
  BY <1>3, <1>7

\* A function on any set that is defined by what it is at a smaller argument.
Descends(f, D, Ends, base, down, step) ==
    f = [x \in D |-> IF x \in Ends THEN base[x] ELSE step[x][f[down[x]]]]

LEMMA Descent ==
    ASSUME NEW D, NEW S, NEW Ends \in SUBSET D, NEW size \in [D -> Nat],
           NEW base \in [D -> S], NEW down \in [D -> D], NEW step,
           \A x \in D \ Ends : size[down[x]] < size[x],
           \A x \in D : \A y \in S : step[x][y] \in S
    PROVE  \E f \in [D -> S] : Descends(f, D, Ends, base, down, step)
<1> DEFINE Up(n) == {x \in D : size[x] < n}
           Value(f, x) == IF x \in Ends THEN base[x] ELSE step[x][f[down[x]]]
           Is(f, n) == f \in [D -> S] /\ \A x \in Up(n) : f[x] = Value(f, x)
           Agree(f, g, n) == \A x \in Up(n) : f[x] = g[x]
<1>1. ASSUME NEW f, NEW g, NEW m \in Nat, Is(f, m), Is(g, m) PROVE Agree(f, g, m)
  <2> DEFINE Bad == {n \in Nat : n <= m /\ ~Agree(f, g, n)}
  <2>1. SUFFICES ASSUME Bad # {} PROVE FALSE
    OBVIOUS
  <2>2. PICK n \in Bad : \A k \in Bad : n <= k
    <3>1. Bad \in SUBSET Nat
      OBVIOUS
    <3> HIDE DEF Bad
    <3> QED
      BY <2>1, <3>1, NatLeast
  <2>3. PICK x \in Up(n) : f[x] # g[x]
    BY <2>2
  <2>4. x \in D /\ x \in Up(m) /\ size[x] \in Nat /\ size[x] < n /\ n \in Nat /\ n <= m
    <3>1. n \in Nat /\ n <= m /\ x \in D /\ size[x] < n
      BY <2>2, <2>3
    <3>2. size[x] \in Nat
      BY <3>1
    <3> QED
      BY <3>1, <3>2
  <2>5. x \notin Ends
    BY <1>1, <2>3, <2>4
  <2>6. down[x] \in D /\ size[down[x]] \in Nat /\ size[down[x]] < size[x]
    BY <2>4, <2>5
  <2>7. n - 1 \in Nat /\ n - 1 <= m /\ down[x] \in Up(n - 1) /\ ~(n <= n - 1)
    BY <2>4, <2>6
  <2>8. Agree(f, g, n - 1)
    BY <2>2, <2>7
  <2>9. f[down[x]] = g[down[x]]
    BY <2>7, <2>8
  <2> QED
    BY <1>1, <2>3, <2>4, <2>5, <2>9
<1>2. \A n \in Nat : \E f : Is(f, n)
  <2> DEFINE Bad == {n \in Nat : ~ \E f : Is(f, n)}
  <2>1. SUFFICES ASSUME Bad # {} PROVE FALSE
    OBVIOUS
  <2>2. PICK n \in Bad : \A k \in Bad : n <= k
    <3>1. Bad \in SUBSET Nat
      OBVIOUS
    <3> HIDE DEF Bad
    <3> QED
      BY <2>1, <3>1, NatLeast
  <2>3. Is(base, 0)
    OBVIOUS
  <2>4. n # 0 /\ n \in Nat
    BY <2>2, <2>3
  <2>5. n - 1 \in Nat /\ ~(n <= n - 1)
    BY <2>4
  <2>6. PICK f : Is(f, n - 1)
    BY <2>2, <2>5
  <2> DEFINE g == [x \in D |-> Value(f, x)]
  <2>7. g \in [D -> S]
    BY <2>6
  <2>8. ASSUME NEW x \in Up(n) PROVE g[x] = Value(g, x)
    <3>1. CASE x \in Ends
      BY <3>1
    <3>2. CASE x \notin Ends
      <4>1. down[x] \in D /\ size[x] \in Nat /\ size[down[x]] \in Nat
            /\ size[down[x]] < size[x] /\ size[x] < n
        BY <3>2
      <4>2. down[x] \in Up(n - 1)
        BY <2>4, <4>1
      <4>3. g[down[x]] = f[down[x]]
        BY <2>6, <4>1, <4>2
      <4> QED
        BY <3>2, <4>3
    <3> QED
      BY <3>1, <3>2
  <2>9. Is(g, n)
    <3> HIDE DEF g
    <3> QED
      BY <2>7, <2>8
  <2> QED
    BY <2>2, <2>9
<1> DEFINE F(n) == CHOOSE f : Is(f, n)
           f == [x \in D |-> F(size[x] + 1)[x]]
<1>3. \A n \in Nat : Is(F(n), n)
  BY <1>2
<1> HIDE DEF F
<1>4. ASSUME NEW x \in D
      PROVE  size[x] + 1 \in Nat /\ x \in Up(size[x] + 1)
             /\ f[x] = F(size[x] + 1)[x] /\ f[x] = Value(F(size[x] + 1), x) /\ f[x] \in S
  <2>1. size[x] + 1 \in Nat /\ size[x] < size[x] + 1
    OBVIOUS
  <2> QED
    BY <1>3, <2>1
<1>5. ASSUME NEW x \in D, x \notin Ends
      PROVE  f[down[x]] = F(size[x] + 1)[down[x]]
  <2> DEFINE k == size[down[x]] + 1
             n == size[x] + 1
  <2>1. down[x] \in D /\ k \in Nat /\ n \in Nat /\ k <= n /\ down[x] \in Up(k)
    BY <1>5
  <2>2. Is(F(k), k) /\ Is(F(n), n)
    BY <1>3, <2>1
  <2>3. Is(F(n), k)
    <3>1. \A y \in D : size[y] \in Nat
      OBVIOUS
    <3>2. Up(k) \subseteq Up(n)
      BY <2>1, <3>1
    <3> QED
      BY <2>2, <3>2
  <2>4. F(k)[down[x]] = F(n)[down[x]]
    BY <1>1, <2>1, <2>2, <2>3
  <2> QED
    BY <1>4, <2>1, <2>4
<1>6. \A x \in D : f[x] = Value(f, x)
  BY <1>4, <1>5
<1>7. f \in [D -> S]
  BY <1>4
<1> HIDE DEF f
<1>8. f = [x \in D |-> Value(f, x)]
  BY <1>6, <1>7
<1> QED
  BY <1>7, <1>8 DEF Descends
=============================================================================

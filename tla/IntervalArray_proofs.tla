---- MODULE IntervalArray_proofs ----
(***************************************************************************)
(* Theorems about IntervalArray, for any largest number and any largest    *)
(* array: what the methods do, when the copy that SafeInsert makes notices *)
(* that its memory overlaps.                                               *)
(***************************************************************************)
EXTENDS IntervalArray, FiniteSetTheorems, WellFoundedInduction, TLAPS

-----------------------------------------------------------------------------
(* Numbers and recursion.                                                  *)

\* A set of natural numbers that is not empty has a least element, which Min
\* finds.
LEMMA MinIsLeast ==
    ASSUME NEW T \in SUBSET Nat, T # {}
    PROVE  Min(T) \in T /\ \A y \in T : Min(T) <= y
  <1> DEFINE R == OpToRel(<, Nat)
  <1>1. IsWellFoundedOn(R, Nat)
    BY NatLessThanWellFounded
  <1>2. \A x, y \in Nat : <<y, x>> \in R <=> y < x
    BY DEF OpToRel
  <1> HIDE DEF R
  <1>3. PICK x \in T : \A y \in T : <<y, x>> \notin R
    BY <1>1, WFMin
  <1>4. ASSUME NEW y \in T
        PROVE  x <= y
    <2>1. x \in Nat /\ y \in Nat /\ ~ (y < x)
      BY <1>2, <1>3
    <2>2. QED
      BY <2>1
  <1>5. QED
    BY <1>4 DEF Min

\* A set that contains zero, and with every number the next one, contains all
\* natural numbers.
LEMMA Induction ==
    ASSUME NEW S \in SUBSET Nat, 0 \in S, \A n \in S : n + 1 \in S
    PROVE  S = Nat
  <1> DEFINE T == Nat \ S
  <1>1. CASE T # {}
    <2>1. PICK x \in T : \A y \in T : x <= y
      BY <1>1, MinIsLeast
    <2>2. x # 0 /\ x - 1 \in Nat /\ x - 1 \notin T
      BY <2>1
    <2>3. QED
      BY <2>2
  <1>2. QED
    BY <1>1

\* The same up to a number.
LEMMA InductionUpTo ==
    ASSUME NEW n \in Nat, NEW S, 0 \in S,
           \A k \in 0 .. n - 1 : k \in S => k + 1 \in S
    PROVE  \A k \in 0 .. n : k \in S
  <1> DEFINE T == {k \in Nat : k <= n => k \in S}
  <1>1. T \in SUBSET Nat /\ 0 \in T
    OBVIOUS
  <1>2. ASSUME NEW k \in T
        PROVE  k + 1 \in T
    <2>1. k \in Nat /\ k + 1 \in Nat /\ (k + 1 <= n => k <= n /\ k \in 0 .. n - 1)
      OBVIOUS
    <2>2. QED
      BY <2>1
  <1>3. T = Nat
    <2> HIDE DEF T
    <2>1. QED
      BY <1>1, <1>2, Induction
  <1>4. QED
    <2>1. \A k \in 0 .. n : k \in Nat /\ k <= n
      OBVIOUS
    <2>2. QED
      BY <1>3, <2>1

\* The n steps T of a recursion, which starts with x0 and stays in R.
Steps(n, R, x0, T) == n \in Nat /\ x0 \in R /\ T \in [1 .. n -> [R -> R]]

\* A function that is recursive in the number before exists.
LEMMA CountedRecursion ==
    ASSUME NEW n, NEW R, NEW x0, NEW T, Steps(n, R, x0, T)
    PROVE  \E f \in [0 .. n -> R] :
              f = [k \in 0 .. n |-> IF k = 0 THEN x0 ELSE T[k][f[k - 1]]]
  <1>0. n \in Nat /\ x0 \in R /\ T \in [1 .. n -> [R -> R]]
    BY DEF Steps
  <1> USE <1>0
  <1> DEFINE Solves(g, m) ==
                /\ g \in [0 .. m -> R] /\ g[0] = x0
                /\ \A k \in 1 .. m : g[k] = T[k][g[k - 1]]
             S == {m \in Nat : \E g : Solves(g, m)}
  <1>1. 0 \in S
    <2>1. Solves([k \in 0 .. 0 |-> x0], 0)
      OBVIOUS
    <2>2. QED
      BY <2>1
  <1>2. ASSUME NEW m \in 0 .. n - 1, m \in S
        PROVE  m + 1 \in S
    <2>1. PICK g : Solves(g, m)
      BY <1>2
    <2> DEFINE h == [k \in 0 .. m + 1 |-> IF k = m + 1 THEN T[m + 1][g[m]] ELSE g[k]]
    <2>2. m \in Nat /\ m + 1 \in 1 .. n /\ m \in 0 .. m
      OBVIOUS
    <2>3. T[m + 1] \in [R -> R] /\ g[m] \in R
      BY <2>1, <2>2
    <2>4. h \in [0 .. m + 1 -> R]
      <3>1. ASSUME NEW k \in 0 .. m + 1
            PROVE  (IF k = m + 1 THEN T[m + 1][g[m]] ELSE g[k]) \in R
        <4>1. k = m + 1 \/ k \in 0 .. m
          BY <2>2
        <4>2. QED
          BY <2>1, <2>3, <4>1
      <3>2. QED
        BY <3>1
    <2>5. h[0] = x0
      <3>1. 0 \in 0 .. m + 1 /\ 0 # m + 1
        BY <2>2
      <3>2. QED
        BY <2>1, <3>1
    <2>6. ASSUME NEW k \in 1 .. m + 1
          PROVE  h[k] = T[k][h[k - 1]]
      <3>1. /\ k \in 0 .. m + 1 /\ k - 1 \in 0 .. m + 1 /\ k - 1 # m + 1
            /\ k = m + 1 \/ k \in 1 .. m
            /\ k = m + 1 => k - 1 = m
        BY <2>2
      <3>2. h[k - 1] = g[k - 1]
        BY <3>1
      <3>3. CASE k = m + 1
        BY <3>1, <3>2, <3>3
      <3>4. CASE k # m + 1
        BY <2>1, <3>1, <3>2, <3>4
      <3>5. QED
        BY <3>3, <3>4
    <2>7. Solves(h, m + 1)
      BY <2>4, <2>5, <2>6
    <2>8. m + 1 \in Nat
      BY <2>2
    <2> HIDE DEF Solves, h
    <2>9. QED
      BY <2>7, <2>8
  <1>3. n \in S
    <2> HIDE DEF S
    <2>1. \A k \in 0 .. n : k \in S
      BY <1>1, <1>2, InductionUpTo
    <2>2. QED
      BY <2>1
  <1>4. PICK f : Solves(f, n)
    BY <1>3
  <1>5. f = [k \in 0 .. n |-> IF k = 0 THEN x0 ELSE T[k][f[k - 1]]]
    <2>1. ASSUME NEW k \in 0 .. n
          PROVE  f[k] = IF k = 0 THEN x0 ELSE T[k][f[k - 1]]
      <3>1. k = 0 \/ k \in 1 .. n
        OBVIOUS
      <3>2. QED
        BY <1>4, <3>1
    <2>2. QED
      BY <1>4, <2>1
  <1>6. QED
    BY <1>4, <1>5

\* The calls C of a tail recursion, of which some call again, the next one: that
\* one is smaller.
Terminates(C, Again, next, size) ==
    /\ Again \in SUBSET C /\ next \in [C -> C] /\ size \in [C -> Nat]
    /\ \A c \in Again : size[next[c]] < size[c]

Inherited(P, C, Again, next) ==
    /\ \A c \in C \ Again : c \in P
    /\ \A c \in Again : next[c] \in P => c \in P

\* What holds where a tail recursion returns, and of a call whenever it holds
\* of the next one, holds of every call: each call is smaller than the last.
LEMMA TailInduction ==
    ASSUME NEW C, NEW Again, NEW next, NEW size, Terminates(C, Again, next, size),
           NEW P, Inherited(P, C, Again, next)
    PROVE  C \subseteq P
  <1> USE DEF Terminates, Inherited
  <1> DEFINE Bad == {size[c] : c \in C \ P}
  <1>1. CASE Bad # {}
    <2>1. Bad \in SUBSET Nat
      OBVIOUS
    <2>2. PICK c \in C \ P : \A d \in C \ P : size[c] <= size[d]
      <3>1. Min(Bad) \in Bad /\ \A y \in Bad : Min(Bad) <= y
        <4> HIDE DEF Bad
        <4>1. QED
          BY <1>1, <2>1, MinIsLeast
      <3>2. PICK c \in C \ P : Min(Bad) = size[c]
        BY <3>1
      <3>3. \A d \in C \ P : size[d] \in Bad
        OBVIOUS
      <3>4. \A d \in C \ P : size[c] <= size[d]
        BY <3>1, <3>2, <3>3
      <3>5. QED
        BY <3>4
    <2>3. c \in Again /\ next[c] \in C \ P
      BY <2>2
    <2>4. size[next[c]] < size[c] /\ size[c] <= size[next[c]]
      BY <2>2, <2>3
    <2>5. size[c] \in Nat /\ size[next[c]] \in Nat
      BY <2>3
    <2>6. QED
      BY <2>4, <2>5
  <1>2. QED
    BY <1>1

\* A function that is right of the calls smaller than n.
SolvesTo(g, n, C, Again, next, size, last) ==
    \A c \in C : size[c] < n => g[c] = IF c \in Again THEN g[next[c]] ELSE last[c]

\* Two functions that solve a tail recursion for all calls smaller than n agree
\* on these.
LEMMA TailsAgree ==
    ASSUME NEW C, NEW Again, NEW next, NEW size, Terminates(C, Again, next, size),
           NEW n \in Nat, NEW last, NEW g, SolvesTo(g, n, C, Again, next, size, last),
           NEW h, SolvesTo(h, n, C, Again, next, size, last)
    PROVE  \A c \in C : size[c] < n => g[c] = h[c]
  <1>0. /\ Again \in SUBSET C /\ next \in [C -> C] /\ size \in [C -> Nat]
        /\ \A c \in Again : size[next[c]] < size[c]
    BY DEF Terminates
  <1> DEFINE P == {c \in C : size[c] < n => g[c] = h[c]}
  <1>1. \A c \in C \ Again : c \in P
    BY DEF SolvesTo
  <1>2. ASSUME NEW c \in Again, next[c] \in P
        PROVE  c \in P
    <2>1. size[next[c]] < size[c] /\ size[next[c]] \in Nat /\ size[c] \in Nat
      BY <1>0
    <2>2. size[c] < n => size[next[c]] < n
      BY <2>1
    <2>3. QED
      BY <1>0, <1>2, <2>2 DEF SolvesTo
  <1>3. C \subseteq P
    <2>1. Inherited(P, C, Again, next)
      <3> HIDE DEF P
      <3>1. QED
        BY <1>1, <1>2 DEF Inherited
    <2> HIDE DEF P
    <2>2. QED
      BY <2>1, TailInduction
  <1>4. QED
    BY <1>3

\* A tail recursion whose calls get smaller is a function.
LEMMA TailRecursion ==
    ASSUME NEW C, NEW Again, NEW next, NEW size, Terminates(C, Again, next, size),
           NEW last
    PROVE  \E f : f = [c \in C |-> IF c \in Again THEN f[next[c]] ELSE last[c]]
  <1>0. /\ Again \in SUBSET C /\ next \in [C -> C] /\ size \in [C -> Nat]
        /\ \A c \in Again : size[next[c]] < size[c]
    BY DEF Terminates
  <1> USE <1>0
  <1> DEFINE Once(g) == [c \in C |-> IF c \in Again THEN g[next[c]] ELSE last[c]]
             Solves(g, n) == \A c \in C : size[c] < n => g[c] = Once(g)[c]
             S == {n \in Nat : \E g : Solves(g, n)}
  <1>1. S = Nat
    <2>1. 0 \in S
      <3>1. Solves(last, 0)
        <4>1. \A c \in C : size[c] \in Nat
          BY <1>0
        <4>2. QED
          BY <4>1
      <3>2. QED
        BY <3>1
    <2>2. ASSUME NEW n \in S
          PROVE  n + 1 \in S
      <3>1. PICK g : Solves(g, n)
        OBVIOUS
      <3>2. ASSUME NEW c \in C, size[c] < n + 1
            PROVE  Once(g)[c] = Once(Once(g))[c]
        <4>1. CASE c \in Again
          <5>1. next[c] \in C /\ size[next[c]] < n
            <6>1. size[next[c]] < size[c] /\ size[next[c]] \in Nat /\ size[c] \in Nat /\ n \in Nat
              BY <4>1
            <6>2. QED
              BY <3>2, <4>1, <6>1
          <5>2. g[next[c]] = Once(g)[next[c]]
            BY <3>1, <5>1
          <5>3. Once(g)[c] = g[next[c]] /\ Once(Once(g))[c] = Once(g)[next[c]]
            BY <4>1
          <5>4. QED
            BY <5>2, <5>3
        <4>2. CASE c \notin Again
          BY <4>2
        <4>3. QED
          BY <4>1, <4>2
      <3>3. Solves(Once(g), n + 1)
        BY <3>2
      <3>4. n + 1 \in Nat
        OBVIOUS
      <3> HIDE DEF Solves, Once
      <3>5. QED
        BY <3>3, <3>4
    <2>3. S \in SUBSET Nat
      OBVIOUS
    <2> HIDE DEF S
    <2>4. QED
      BY <2>1, <2>2, <2>3, Induction
  <1>2. ASSUME NEW n \in Nat, NEW g, NEW h, Solves(g, n), Solves(h, n)
        PROVE  \A c \in C : size[c] < n => g[c] = h[c]
    <2>1. SolvesTo(g, n, C, Again, next, size, last) /\ SolvesTo(h, n, C, Again, next, size, last)
      BY <1>2 DEF SolvesTo
    <2> HIDE DEF Solves, S, Once
    <2>2. QED
      BY <2>1, TailsAgree
  <1> DEFINE G == [n \in Nat |-> CHOOSE g : Solves(g, n)]
             f == [c \in C |-> G[size[c] + 1][c]]
  <1>3. \A n \in Nat : Solves(G[n], n)
    <2>1. \A n \in Nat : \E g : Solves(g, n)
      BY <1>1
    <2> HIDE DEF Solves
    <2>2. QED
      BY <2>1
  <1>4. ASSUME NEW c \in C
        PROVE  f[c] = Once(f)[c]
    <2>1. size[c] \in Nat /\ size[c] + 1 \in Nat /\ size[c] < size[c] + 1
      OBVIOUS
    <2>2. G[size[c] + 1][c] = Once(G[size[c] + 1])[c]
      BY <1>3, <2>1
    <2> HIDE DEF G
    <2>3. CASE c \in Again
      <3>1. /\ next[c] \in C /\ size[next[c]] \in Nat /\ size[next[c]] + 1 \in Nat
            /\ size[next[c]] + 1 <= size[c] + 1 /\ size[next[c]] < size[next[c]] + 1
        <4>1. size[next[c]] < size[c] /\ size[next[c]] \in Nat
          BY <2>3
        <4>2. QED
          BY <2>1, <2>3, <4>1
      <3>2. Solves(G[size[c] + 1], size[next[c]] + 1)
        <4>1. \A d \in C : size[d] < size[next[c]] + 1 => size[d] < size[c] + 1
          <5>1. \A d \in C : size[d] \in Nat
            OBVIOUS
          <5>2. QED
            BY <2>1, <3>1, <5>1
        <4>2. Solves(G[size[c] + 1], size[c] + 1)
          BY <1>3, <2>1
        <4>3. QED
          BY <4>1, <4>2
      <3>3. Solves(G[size[next[c]] + 1], size[next[c]] + 1)
        BY <1>3, <3>1
      <3> HIDE DEF Solves
      <3>4. G[size[c] + 1][next[c]] = G[size[next[c]] + 1][next[c]]
        BY <1>2, <3>1, <3>2, <3>3
      <3>5. f[next[c]] = G[size[next[c]] + 1][next[c]]
        BY <3>1
      <3>6. QED
        BY <2>2, <2>3, <3>4, <3>5
    <2>4. CASE c \notin Again
      BY <2>2, <2>4
    <2>5. QED
      BY <2>3, <2>4
  <1>5. f = Once(f)
    <2>1. DOMAIN f = C
      OBVIOUS
    <2> HIDE DEF G
    <2>2. QED
      BY <1>4, <2>1
  <1> HIDE DEF f, G, Solves
  <1>6. QED
    BY <1>5

-----------------------------------------------------------------------------
(* Intervals and the blocks in them.                                       *)

In(interval, x) == interval.start <= x /\ x < interval.start + interval.size

Has(m, x) == \E i \in DOMAIN m : In(m[i], x)

\* An array that passes Verify and has room for its valid part.
Good(a) ==
    /\ a \in Arrays
    /\ Len(a.m_array) <= a.m_totalsize /\ a.m_totalsize <= MaxValidSize
    /\ Verify(a.m_array)

\* Sums and differences of unsigned numbers, and what they are without the
\* remainder.
LEMMA Arithmetic ==
    /\ \A x, y \in Ids : Plus(x, y) \in Ids /\ Minus(x, y) \in Ids
    /\ \A x, y \in Nat : x + y <= UINT_MAX => Plus(x, y) = x + y
    /\ \A x, y \in Nat : y <= x /\ x <= UINT_MAX => Minus(x, y) = x - y
  <1>1. UINT_MAX \in Nat
    BY IntervalAssumption
  <1>2. \A z \in Int : z % (UINT_MAX + 1) \in 0 .. UINT_MAX
    BY <1>1
  <1>3. \A z \in 0 .. UINT_MAX : z % (UINT_MAX + 1) = z
    BY <1>1
  <1>4. ASSUME NEW x \in Ids, NEW y \in Ids
        PROVE  Plus(x, y) \in Ids /\ Minus(x, y) \in Ids
    <2>1. x + y \in Int /\ x - y \in Int
      BY <1>1 DEF Ids
    <2>2. QED
      BY <1>2, <2>1 DEF Plus, Minus, Ids
  <1>5. ASSUME NEW x \in Nat, NEW y \in Nat, x + y <= UINT_MAX
        PROVE  Plus(x, y) = x + y
    <2>1. x + y \in 0 .. UINT_MAX
      BY <1>1, <1>5
    <2>2. QED
      BY <1>3, <2>1 DEF Plus
  <1>6. ASSUME NEW x \in Nat, NEW y \in Nat, y <= x, x <= UINT_MAX
        PROVE  Minus(x, y) = x - y
    <2>1. x - y \in 0 .. UINT_MAX
      BY <1>1, <1>6
    <2>2. QED
      BY <1>3, <2>1 DEF Minus
  <1>7. QED
    BY <1>4, <1>5, <1>6

LEMMA Elements ==
    ASSUME NEW m \in Seq(BlockInterval)
    PROVE  /\ Len(m) \in Nat /\ DOMAIN m = 1 .. Len(m)
           /\ \A i \in DOMAIN m :
                /\ m[i] \in BlockInterval
                /\ m[i].start \in Ids /\ m[i].size \in Ids
                /\ m[i].start \in Nat /\ m[i].size \in Nat
                /\ m[i].start <= UINT_MAX /\ m[i].size <= UINT_MAX
                /\ End(m[i]) \in Ids
  <1>1. UINT_MAX \in Nat
    BY IntervalAssumption
  <1>2. Len(m) \in Nat /\ DOMAIN m = 1 .. Len(m) /\ \A i \in DOMAIN m : m[i] \in BlockInterval
    OBVIOUS
  <1>3. ASSUME NEW i \in DOMAIN m
        PROVE  m[i].start \in Ids /\ m[i].size \in Ids
    BY <1>2 DEF BlockInterval
  <1>4. ASSUME NEW i \in DOMAIN m
        PROVE  /\ m[i].start \in Nat /\ m[i].size \in Nat
               /\ m[i].start <= UINT_MAX /\ m[i].size <= UINT_MAX
    BY <1>1, <1>3 DEF Ids
  <1>5. \A i \in DOMAIN m : End(m[i]) \in Ids
    BY <1>3, Arithmetic DEF End
  <1>6. QED
    BY <1>2, <1>3, <1>4, <1>5

\* No interval of a verified array is empty, and any two have a gap between
\* them, not only neighbours.
LEMMA Apart ==
    ASSUME NEW m \in Seq(BlockInterval), Verify(m)
    PROVE  /\ \A i \in DOMAIN m :
                /\ m[i].size > 0
                /\ m[i].start + m[i].size <= UINT_MAX
                /\ End(m[i]) = m[i].start + m[i].size
           /\ \A i, j \in DOMAIN m : i < j => m[i].start + m[i].size < m[j].start
  <1>0. UINT_MAX \in Nat
    BY IntervalAssumption
  <1>1. ASSUME NEW i \in DOMAIN m
        PROVE  m[i].size > 0 /\ m[i].start + m[i].size <= UINT_MAX
    <2>1. m[i].size # 0 /\ UINT_MAX - m[i].start >= m[i].size
      BY DEF Verify
    <2>2. QED
      BY <1>0, <2>1, Elements
  <1>2. \A i \in DOMAIN m : End(m[i]) = m[i].start + m[i].size
    BY <1>1, Elements, Arithmetic DEF End
  <1> DEFINE S(i) == {k \in Nat : i + k + 1 \in DOMAIN m =>
                            m[i].start + m[i].size < m[i + k + 1].start}
  <1>3. ASSUME NEW i \in DOMAIN m
        PROVE  S(i) = Nat
    <2>0. i \in Nat /\ i >= 1 /\ DOMAIN m = 1 .. Len(m) /\ Len(m) \in Nat
      BY Elements
    <2>1. 0 \in S(i)
      <3>1. i + 0 + 1 = i + 1 /\ (i + 1 \in DOMAIN m => i < Len(m))
        BY <2>0
      <3>2. QED
        BY <3>1 DEF Verify
    <2>2. ASSUME NEW k \in S(i), i + (k + 1) + 1 \in DOMAIN m
          PROVE  m[i].start + m[i].size < m[i + (k + 1) + 1].start
      <3> DEFINE j == i + k + 1
      <3>1. j \in DOMAIN m /\ j < Len(m) /\ j + 1 = i + (k + 1) + 1
        BY <2>0, <2>2
      <3>2. m[i].start + m[i].size < m[j].start
        BY <3>1
      <3> HIDE DEF j
      <3>3. m[j].start + m[j].size < m[j + 1].start
        BY <3>1 DEF Verify
      <3>4. j + 1 \in DOMAIN m
        BY <3>1, <2>2
      <3>5. m[i].start + m[i].size < m[j + 1].start
        <4>1. /\ m[i].start \in Nat /\ m[i].size \in Nat /\ m[j].start \in Nat
              /\ m[j].size \in Nat /\ m[j + 1].start \in Nat
          BY <3>1, <3>4, Elements
        <4>2. \A p, q, r, t, u \in Nat : p + q < r /\ r + t < u => p + q < u
          OBVIOUS
        <4>3. QED
          BY <3>2, <3>3, <4>1, <4>2
      <3>6. QED
        BY <3>1, <3>5
    <2>3. \A k \in S(i) : k + 1 \in S(i)
      BY <2>2
    <2>4. S(i) \in SUBSET Nat
      OBVIOUS
    <2> HIDE DEF S
    <2>5. QED
      BY <2>1, <2>3, <2>4, Induction
  <1>4. ASSUME NEW i \in DOMAIN m, NEW j \in DOMAIN m, i < j
        PROVE  m[i].start + m[i].size < m[j].start
    <2>1. j - i - 1 \in Nat /\ i + (j - i - 1) + 1 = j
      BY <1>4, Elements
    <2>2. j - i - 1 \in S(i)
      BY <1>3, <2>1
    <2>3. QED
      BY <2>1, <2>2
  <1>5. QED
    BY <1>1, <1>2, <1>4

\* The intervals of a verified array have no block in common.
LEMMA OneInterval ==
    ASSUME NEW m \in Seq(BlockInterval), Verify(m),
           NEW i \in DOMAIN m, NEW j \in DOMAIN m, NEW x \in Int, In(m[i], x), In(m[j], x)
    PROVE  i = j
  <1>1. i \in Nat /\ j \in Nat
    BY Elements
  <1>2. ASSUME NEW k \in DOMAIN m, NEW l \in DOMAIN m, In(m[k], x), In(m[l], x)
        PROVE  ~ (k < l)
    <2>1. m[k].start \in Nat /\ m[k].size \in Nat /\ m[l].start \in Nat
      BY Elements
    <2>2. m[l].start <= x /\ x < m[k].start + m[k].size
      BY <1>2 DEF In
    <2>3. k < l => m[k].start + m[k].size < m[l].start
      BY Apart
    <2>4. QED
      BY <2>1, <2>2, <2>3
  <1>3. ~ (i < j) /\ ~ (j < i)
    BY <1>2
  <1>4. QED
    BY <1>1, <1>3

\* What an array stands for is the numbers in its intervals.
LEMMA BlocksAre ==
    ASSUME NEW a, a.m_array \in Seq(BlockInterval)
    PROVE  /\ \A x : x \in Blocks(a) <=> x \in Nat /\ Has(a.m_array, x)
           /\ Verify(a.m_array) => \A x \in Blocks(a) : x < UINT_MAX
  <1> DEFINE m == a.m_array
  <1>1. ASSUME NEW x, NEW i \in DOMAIN m
        PROVE  x \in Span(m[i].start, m[i].size) <=> x \in Nat /\ In(m[i], x)
    <2>1. m[i].start \in Nat /\ m[i].size \in Nat
      BY Elements
    <2>2. QED
      BY <2>1 DEF Span, In
  <1>2. \A x : x \in Blocks(a) <=> x \in Nat /\ Has(m, x)
    BY <1>1 DEF Blocks, Has
  <1>3. ASSUME Verify(m), NEW x \in Blocks(a)
        PROVE  x < UINT_MAX
    <2>1. PICK i \in DOMAIN m : x \in Nat /\ In(m[i], x)
      BY <1>2 DEF Has
    <2>2. x < m[i].start + m[i].size /\ m[i].start + m[i].size <= UINT_MAX
      BY <1>3, <2>1, Apart DEF In
    <2>3. m[i].start \in Nat /\ m[i].size \in Nat /\ UINT_MAX \in Nat
      BY Elements, IntervalAssumption
    <2>4. QED
      BY <2>1, <2>2, <2>3
  <1>4. QED
    BY <1>2, <1>3

-----------------------------------------------------------------------------
(* Intervals taken out, put in and replaced.                               *)

\* Verify, read from the intervals' ends.
LEMMA Verified ==
    ASSUME NEW m \in Seq(BlockInterval),
           \A i \in DOMAIN m : m[i].size > 0 /\ m[i].start + m[i].size <= UINT_MAX,
           \A i \in DOMAIN m : i + 1 \in DOMAIN m => m[i].start + m[i].size < m[i + 1].start
    PROVE  Verify(m)
  <1>1. ASSUME NEW i \in DOMAIN m
        PROVE  m[i].size # 0 /\ UINT_MAX - m[i].start >= m[i].size
    <2>1. m[i].start \in Nat /\ m[i].size \in Nat /\ UINT_MAX \in Nat
      BY Elements, IntervalAssumption
    <2>2. m[i].size > 0 /\ m[i].start + m[i].size <= UINT_MAX
      OBVIOUS
    <2>3. QED
      BY <2>1, <2>2
  <1>2. ASSUME NEW i \in DOMAIN m, i < Len(m)
        PROVE  m[i].start + m[i].size < m[i + 1].start
    <2>1. i + 1 \in DOMAIN m
      BY <1>2, Elements
    <2>2. QED
      BY <2>1
  <1>3. QED
    BY <1>1, <1>2 DEF Verify

\* The places of two lists one after the other.
LEMMA JoinedAt ==
    ASSUME NEW S, NEW s \in Seq(S), NEW t \in Seq(S)
    PROVE  /\ s \o t \in Seq(S) /\ Len(s \o t) = Len(s) + Len(t)
           /\ \A k \in 1 .. Len(s) + Len(t) :
                (s \o t)[k] = IF k \in 1 .. Len(s) THEN s[k] ELSE t[k - Len(s)]
  OBVIOUS

LEMMA Removed ==
    ASSUME NEW m \in Seq(BlockInterval), NEW i \in DOMAIN m
    PROVE  /\ RemoveAt(m, i) \in Seq(BlockInterval)
           /\ Len(RemoveAt(m, i)) = Len(m) - 1
           /\ \A k \in 1 .. Len(m) - 1 :
                RemoveAt(m, i)[k] = IF k < i THEN m[k] ELSE m[k + 1]
  <1> DEFINE left == SubSeq(m, 1, i - 1)
             right == SubSeq(m, i + 1, Len(m))
  <1>1. Len(m) \in Nat /\ i \in 1 .. Len(m)
    OBVIOUS
  <1>2. /\ left \in Seq(BlockInterval) /\ Len(left) = i - 1
        /\ \A k \in 1 .. i - 1 : left[k] = m[k]
    BY <1>1
  <1>3. /\ right \in Seq(BlockInterval) /\ Len(right) = Len(m) - i
        /\ \A k \in 1 .. Len(m) - i : right[k] = m[k + i]
    BY <1>1
  <1>4. RemoveAt(m, i) = left \o right
    BY DEF RemoveAt
  <1> HIDE DEF left, right
  <1>5. RemoveAt(m, i) \in Seq(BlockInterval) /\ Len(RemoveAt(m, i)) = Len(m) - 1
    BY <1>1, <1>2, <1>3, <1>4
  <1>6. ASSUME NEW k \in 1 .. Len(m) - 1
        PROVE  RemoveAt(m, i)[k] = IF k < i THEN m[k] ELSE m[k + 1]
    <2>1. CASE k < i
      <3>1. k \in 1 .. i - 1
        BY <1>1, <2>1
      <3>2. (left \o right)[k] = left[k]
        BY <1>2, <1>3, <3>1
      <3>3. QED
        BY <1>2, <1>4, <2>1, <3>1, <3>2
    <2>2. CASE ~ (k < i)
      <3>1. /\ k - (i - 1) \in 1 .. Len(m) - i /\ (k - (i - 1)) + i = k + 1
            /\ k \notin 1 .. i - 1 /\ k \in 1 .. (i - 1) + (Len(m) - i)
        BY <1>1, <2>2
      <3>2. (left \o right)[k] = right[k - (i - 1)]
        <4>1. k \in 1 .. Len(left) + Len(right) /\ k \notin 1 .. Len(left)
          BY <1>2, <1>3, <3>1
        <4>2. (left \o right)[k] = right[k - Len(left)]
          BY <1>2, <1>3, <4>1, JoinedAt
        <4>3. QED
          BY <1>2, <4>2
      <3>3. QED
        BY <1>3, <1>4, <2>2, <3>1, <3>2
    <2>3. QED
      BY <2>1, <2>2
  <1>7. QED
    BY <1>5, <1>6

\* Without interval i, the array is in order, and only its blocks are missing.
LEMMA RemoveKeeps ==
    ASSUME NEW m \in Seq(BlockInterval), Verify(m), NEW i \in DOMAIN m
    PROVE  /\ RemoveAt(m, i) \in Seq(BlockInterval) /\ Verify(RemoveAt(m, i))
           /\ Len(RemoveAt(m, i)) = Len(m) - 1
           /\ \A x \in Int : Has(RemoveAt(m, i), x) <=> Has(m, x) /\ ~ In(m[i], x)
  <1> DEFINE r == RemoveAt(m, i)
             from(k) == IF k < i THEN k ELSE k + 1
  <1>1. /\ r \in Seq(BlockInterval) /\ Len(r) = Len(m) - 1
        /\ Len(m) \in Nat /\ i \in 1 .. Len(m)
        /\ DOMAIN m = 1 .. Len(m) /\ DOMAIN r = 1 .. Len(m) - 1
    BY Removed
  <1>2. \A k \in DOMAIN r : from(k) \in DOMAIN m /\ from(k) # i /\ r[k] = m[from(k)]
    <2>1. \A k \in DOMAIN r : r[k] = m[from(k)]
      BY <1>1, Removed
    <2>2. QED
      BY <1>1, <2>1
  <1>3. \A k \in DOMAIN r : k + 1 \in DOMAIN r => from(k) < from(k + 1)
    BY <1>1
  <1>4. \A l \in DOMAIN m : l # i => \E k \in DOMAIN r : from(k) = l
    <2>1. ASSUME NEW l \in DOMAIN m, l # i
          PROVE  \E k \in DOMAIN r : from(k) = l
      <3>1. CASE l < i
        BY <1>1, <3>1
      <3>2. CASE ~ (l < i)
        <4>1. l - 1 \in DOMAIN r /\ from(l - 1) = l
          BY <1>1, <2>1, <3>2
        <4>2. QED
          BY <4>1
      <3>3. QED
        BY <3>1, <3>2
    <2>2. QED
      BY <2>1
  <1> HIDE DEF r, from
  <1>5. Verify(r)
    <2>1. \A k \in DOMAIN r : r[k].size > 0 /\ r[k].start + r[k].size <= UINT_MAX
      BY <1>2, Apart
    <2>2. \A k \in DOMAIN r : k + 1 \in DOMAIN r => r[k].start + r[k].size < r[k + 1].start
      BY <1>2, <1>3, Apart
    <2>3. QED
      BY <1>1, <2>1, <2>2, Verified
  <1>6. ASSUME NEW x \in Int
        PROVE  Has(r, x) <=> Has(m, x) /\ ~ In(m[i], x)
    <2>1. ASSUME Has(r, x)
          PROVE  Has(m, x) /\ ~ In(m[i], x)
      <3>1. PICK k \in DOMAIN r : In(r[k], x)
        BY <2>1 DEF Has
      <3>2. In(m[from(k)], x) /\ from(k) \in DOMAIN m /\ from(k) # i
        BY <1>2, <3>1
      <3>3. QED
        BY <3>2, OneInterval DEF Has
    <2>2. ASSUME Has(m, x), ~ In(m[i], x)
          PROVE  Has(r, x)
      <3>1. PICK l \in DOMAIN m : In(m[l], x)
        BY <2>2 DEF Has
      <3>2. PICK k \in DOMAIN r : from(k) = l
        BY <1>4, <2>2, <3>1
      <3>3. QED
        BY <1>2, <3>1, <3>2 DEF Has
    <2>3. QED
      BY <2>1, <2>2
  <1>7. QED
    BY <1>1, <1>5, <1>6 DEF r

\* Replaced by another one that keeps clear of its neighbours.
LEMMA ReplaceKeeps ==
    ASSUME NEW m \in Seq(BlockInterval), Verify(m), NEW i \in DOMAIN m,
           NEW new \in BlockInterval, new.size > 0, new.start + new.size <= UINT_MAX,
           i > 1 => m[i - 1].start + m[i - 1].size < new.start,
           i < Len(m) => new.start + new.size < m[i + 1].start
    PROVE  /\ [m EXCEPT ![i] = new] \in Seq(BlockInterval) /\ Verify([m EXCEPT ![i] = new])
           /\ Len([m EXCEPT ![i] = new]) = Len(m)
           /\ \A x \in Int : Has([m EXCEPT ![i] = new], x) <=>
                                \/ Has(m, x) /\ ~ In(m[i], x)
                                \/ In(new, x)
  <1> DEFINE r == [m EXCEPT ![i] = new]
  <1>1. /\ r \in Seq(BlockInterval) /\ Len(r) = Len(m) /\ DOMAIN r = DOMAIN m
        /\ Len(m) \in Nat /\ i \in 1 .. Len(m) /\ DOMAIN m = 1 .. Len(m)
    OBVIOUS
  <1>2. r[i] = new /\ \A k \in DOMAIN m : k # i => r[k] = m[k]
    OBVIOUS
  <1> HIDE DEF r
  <1>3. Verify(r)
    <2>1. \A k \in DOMAIN r : r[k].size > 0 /\ r[k].start + r[k].size <= UINT_MAX
      BY <1>1, <1>2, Apart
    <2>2. ASSUME NEW k \in DOMAIN r, k + 1 \in DOMAIN r
          PROVE  r[k].start + r[k].size < r[k + 1].start
      <3>1. CASE k = i
        BY <1>1, <1>2, <2>2, <3>1
      <3>2. CASE k + 1 = i
        <4>1. k = i - 1 /\ i > 1 /\ k # i
          BY <1>1, <3>2
        <4>2. QED
          BY <1>1, <1>2, <3>2, <4>1
      <3>3. CASE k # i /\ k + 1 # i
        <4>1. k < k + 1
          BY <1>1
        <4>2. QED
          BY <1>1, <1>2, <2>2, <3>3, <4>1, Apart
      <3>4. QED
        BY <3>1, <3>2, <3>3
    <2>3. QED
      BY <1>1, <2>1, <2>2, Verified
  <1>4. ASSUME NEW x \in Int
        PROVE  Has(r, x) <=> (Has(m, x) /\ ~ In(m[i], x)) \/ In(new, x)
    <2>1. ASSUME Has(r, x), ~ In(new, x)
          PROVE  Has(m, x) /\ ~ In(m[i], x)
      <3>1. PICK k \in DOMAIN m : In(r[k], x)
        BY <1>1, <2>1 DEF Has
      <3>2. k # i /\ In(m[k], x)
        BY <1>2, <2>1, <3>1
      <3>3. QED
        BY <3>2, OneInterval DEF Has
    <2>2. ASSUME Has(m, x), ~ In(m[i], x)
          PROVE  Has(r, x)
      <3>1. PICK l \in DOMAIN m : In(m[l], x)
        BY <2>2 DEF Has
      <3>2. QED
        BY <1>1, <1>2, <2>2, <3>1 DEF Has
    <2>3. In(new, x) => Has(r, x)
      BY <1>1, <1>2 DEF Has
    <2>4. QED
      BY <2>1, <2>2, <2>3
  <1>5. QED
    BY <1>1, <1>3, <1>4 DEF r

\* m with new before what was interval i.
Inserted(m, i, new) == SubSeq(m, 1, i - 1) \o <<new>> \o SubSeq(m, i, Len(m))

\* List r is list m with new at place i.
IsInserted(r, m, i, new) ==
    /\ r \in Seq(BlockInterval)
    /\ Len(r) = Len(m) + 1
    /\ \A k \in 1 .. Len(m) + 1 :
        r[k] = IF k < i THEN m[k] ELSE IF k = i THEN new ELSE m[k - 1]

LEMMA InsertedAt ==
    ASSUME NEW m \in Seq(BlockInterval), NEW i \in 1 .. Len(m) + 1, NEW new \in BlockInterval
    PROVE  IsInserted(Inserted(m, i, new), m, i, new)
  <1> DEFINE left == SubSeq(m, 1, i - 1)
             mid == left \o <<new>>
             right == SubSeq(m, i, Len(m))
  <1>1. Len(m) \in Nat /\ i \in Nat /\ i >= 1 /\ i <= Len(m) + 1
    OBVIOUS
  <1>2. /\ left \in Seq(BlockInterval) /\ Len(left) = i - 1
        /\ \A k \in 1 .. i - 1 : left[k] = m[k]
    BY <1>1
  <1>3. /\ right \in Seq(BlockInterval) /\ Len(right) = Len(m) + 1 - i
        /\ \A k \in 1 .. Len(m) + 1 - i : right[k] = m[k + (i - 1)]
    BY <1>1
  <1>4. <<new>> \in Seq(BlockInterval) /\ Len(<<new>>) = 1 /\ <<new>>[1] = new
    OBVIOUS
  <1> HIDE DEF left, right
  <1>5. /\ mid \in Seq(BlockInterval) /\ Len(mid) = i
        /\ \A k \in 1 .. i - 1 : mid[k] = m[k]
        /\ mid[i] = new
    <2>1. mid \in Seq(BlockInterval) /\ Len(mid) = i
      BY <1>1, <1>2, <1>4
    <2>2. ASSUME NEW k \in 1 .. i - 1
          PROVE  mid[k] = m[k]
      <3>1. k \in 1 .. Len(left) + Len(<<new>>) /\ k \in 1 .. Len(left)
        BY <1>1, <1>2, <1>4
      <3>2. mid[k] = left[k]
        BY <1>2, <1>4, <3>1, JoinedAt
      <3>3. QED
        BY <1>2, <3>2
    <2>3. mid[i] = new
      <3>1. /\ i \in 1 .. Len(left) + Len(<<new>>) /\ i \notin 1 .. Len(left)
            /\ i - Len(left) = 1
        BY <1>1, <1>2, <1>4
      <3>2. mid[i] = <<new>>[i - Len(left)]
        BY <1>2, <1>4, <3>1, JoinedAt
      <3>3. QED
        BY <1>4, <3>1, <3>2
    <2>4. QED
      BY <2>1, <2>2, <2>3
  <1>6. Inserted(m, i, new) = mid \o right
    BY DEF Inserted, left, right
  <1> HIDE DEF mid
  <1>7. Inserted(m, i, new) \in Seq(BlockInterval) /\ Len(Inserted(m, i, new)) = Len(m) + 1
    <2>1. mid \o right \in Seq(BlockInterval) /\ Len(mid \o right) = Len(mid) + Len(right)
      BY <1>3, <1>5, JoinedAt
    <2>2. Len(mid) + Len(right) = Len(m) + 1
      BY <1>1, <1>3, <1>5
    <2>3. QED
      BY <1>6, <2>1, <2>2
  <1>8. ASSUME NEW k \in 1 .. Len(m) + 1
        PROVE  Inserted(m, i, new)[k] =
                    IF k < i THEN m[k] ELSE IF k = i THEN new ELSE m[k - 1]
    <2>1. k \in 1 .. Len(mid) + Len(right)
      BY <1>1, <1>3, <1>5
    <2>2. CASE k <= i
      <3>1. k \in 1 .. Len(mid) /\ (k = i \/ (k < i /\ k \in 1 .. i - 1))
        BY <1>1, <1>5, <2>2
      <3>2. (mid \o right)[k] = mid[k]
        BY <1>3, <1>5, <2>1, <3>1, JoinedAt
      <3>3. ~ (i < i)
        BY <1>1
      <3>4. QED
        BY <1>5, <1>6, <3>1, <3>2, <3>3
    <2>3. CASE ~ (k <= i)
      <3>1. k \notin 1 .. Len(mid) /\ k - Len(mid) = k - i
        BY <1>1, <1>5, <2>3
      <3>2. (mid \o right)[k] = right[k - i]
        BY <1>3, <1>5, <2>1, <3>1, JoinedAt
      <3>3. k - i \in 1 .. Len(m) + 1 - i /\ (k - i) + (i - 1) = k - 1 /\ ~ (k < i) /\ k # i
        BY <1>1, <2>3
      <3>4. QED
        BY <1>3, <1>6, <3>2, <3>3
    <2>4. QED
      BY <2>2, <2>3
  <1>9. QED
    BY <1>7, <1>8 DEF IsInserted

\* An interval that keeps clear of those before and behind it.
LEMMA InsertKeeps ==
    ASSUME NEW m \in Seq(BlockInterval), Verify(m), NEW i \in 1 .. Len(m) + 1,
           NEW new \in BlockInterval, new.size > 0, new.start + new.size <= UINT_MAX,
           i > 1 => m[i - 1].start + m[i - 1].size < new.start,
           i <= Len(m) => new.start + new.size < m[i].start
    PROVE  /\ Inserted(m, i, new) \in Seq(BlockInterval) /\ Verify(Inserted(m, i, new))
           /\ Len(Inserted(m, i, new)) = Len(m) + 1
           /\ \A x \in Int : Has(Inserted(m, i, new), x) <=> Has(m, x) \/ In(new, x)
  <1> DEFINE r == Inserted(m, i, new)
             from(k) == IF k < i THEN k ELSE k - 1
  <1>0. IsInserted(r, m, i, new)
    BY InsertedAt
  <1>1. /\ r \in Seq(BlockInterval) /\ Len(r) = Len(m) + 1
        /\ Len(m) \in Nat /\ i \in 1 .. Len(m) + 1
        /\ DOMAIN m = 1 .. Len(m) /\ DOMAIN r = 1 .. Len(m) + 1
    BY <1>0 DEF IsInserted
  <1>2. r[i] = new /\ \A k \in DOMAIN r : k # i => r[k] = m[from(k)]
    <2>1. \A k \in DOMAIN r : r[k] = IF k < i THEN m[k] ELSE IF k = i THEN new ELSE m[k - 1]
      <3> HIDE DEF r
      <3>1. QED
        BY ONLY <1>0, <1>1 DEF IsInserted
    <2>2. i \in DOMAIN r /\ ~ (i < i)
      BY <1>1
    <2> HIDE DEF r
    <2>3. r[i] = new
      BY <2>1, <2>2
    <2>4. \A k \in DOMAIN r : k # i => r[k] = m[from(k)]
      BY <2>1
    <2>5. QED
      BY <2>3, <2>4
  <1>3. \A k \in DOMAIN r : k # i => from(k) \in DOMAIN m
    BY <1>1
  <1>4. \A k \in DOMAIN r : k + 1 \in DOMAIN r /\ k # i /\ k + 1 # i => from(k) < from(k + 1)
    BY <1>1
  <1>5. \A l \in DOMAIN m : \E k \in DOMAIN r : k # i /\ from(k) = l
    <2>1. ASSUME NEW l \in DOMAIN m
          PROVE  \E k \in DOMAIN r : k # i /\ from(k) = l
      <3>1. CASE l < i
        <4>1. l \in DOMAIN r /\ l # i /\ from(l) = l
          BY <1>1, <3>1
        <4>2. QED
          BY <4>1
      <3>2. CASE ~ (l < i)
        <4>1. l + 1 \in DOMAIN r /\ l + 1 # i /\ from(l + 1) = l
          BY <1>1, <3>2
        <4>2. QED
          BY <4>1
      <3>3. QED
        BY <3>1, <3>2
    <2>2. QED
      BY <2>1
  <1>a. i > 1 => from(i - 1) = i - 1
    BY <1>1
  <1>b. from(i + 1) = i
    BY <1>1
  <1> HIDE DEF r, from
  <1>6. Verify(r)
    <2>1. \A k \in DOMAIN r : r[k].size > 0 /\ r[k].start + r[k].size <= UINT_MAX
      BY <1>2, <1>3, Apart
    <2>2. ASSUME NEW k \in DOMAIN r, k + 1 \in DOMAIN r
          PROVE  r[k].start + r[k].size < r[k + 1].start
      <3>1. CASE k = i
        <4>1. i <= Len(m) /\ i + 1 # i /\ i + 1 \in DOMAIN r
          BY <1>1, <2>2, <3>1
        <4>2. r[i + 1] = m[i]
          BY <1>2, <1>b, <4>1
        <4>3. QED
          BY <1>2, <3>1, <4>1, <4>2
      <3>2. CASE k + 1 = i
        <4>1. k = i - 1 /\ i > 1 /\ k # i
          BY <1>1, <3>2
        <4>2. r[k] = m[i - 1]
          BY <1>2, <1>a, <4>1
        <4>3. QED
          BY <1>2, <3>2, <4>1, <4>2
      <3>3. CASE k # i /\ k + 1 # i
        BY <1>2, <1>3, <1>4, <2>2, <3>3, Apart
      <3>4. QED
        BY <3>1, <3>2, <3>3
    <2>3. QED
      BY <1>1, <2>1, <2>2, Verified
  <1>7. ASSUME NEW x \in Int
        PROVE  Has(r, x) <=> Has(m, x) \/ In(new, x)
    <2>1. ASSUME Has(r, x), ~ In(new, x)
          PROVE  Has(m, x)
      <3>1. PICK k \in DOMAIN r : In(r[k], x)
        BY <2>1 DEF Has
      <3>2. QED
        BY <1>2, <1>3, <2>1, <3>1 DEF Has
    <2>2. ASSUME Has(m, x)
          PROVE  Has(r, x)
      <3>1. PICK l \in DOMAIN m : In(m[l], x)
        BY <2>2 DEF Has
      <3>2. PICK k \in DOMAIN r : k # i /\ from(k) = l
        BY <1>5
      <3>3. QED
        BY <1>2, <3>1, <3>2 DEF Has
    <2>3. In(new, x) => Has(r, x)
      BY <1>1, <1>2 DEF Has
    <2>4. QED
      BY <2>1, <2>2, <2>3
  <1>8. QED
    BY <1>1, <1>6, <1>7 DEF r

\* SafeInsert puts the interval in, unless the array is full.
LEMMA SafeInsertIs ==
    ASSUME Overlap = "move", NEW a \in Arrays, NEW i, NEW start, NEW size,
           Len(a.m_array) # MaxValidSize
    PROVE  /\ SafeInsert(a, i, start, size).m_array
                = Inserted(a.m_array, i, Interval(start, size))
           /\ SafeInsert(a, i, start, size).m_totalsize
                = IF a.m_totalsize > Len(a.m_array) THEN a.m_totalsize ELSE a.m_totalsize + 1
           /\ SafeInsert(a, i, start, size) = [m_array |-> SafeInsert(a, i, start, size).m_array,
                  m_totalsize |-> SafeInsert(a, i, start, size).m_totalsize]
  <1>1. \A tail : Moved(tail) = tail
    BY DEF Moved
  <1>2. QED
    BY <1>1 DEF SafeInsert, Inserted

-----------------------------------------------------------------------------
(* Calls of AddInterval and DelInterval.                                   *)

LEMMA IntervalIs ==
    ASSUME NEW start \in Ids, NEW size \in Ids
    PROVE  /\ Interval(start, size) \in BlockInterval
           /\ Interval(start, size).start = start /\ Interval(start, size).size = size
  BY DEF Interval, BlockInterval

LEMMA ArrayIs ==
    ASSUME NEW a \in Arrays
    PROVE  /\ a.m_array \in Seq(BlockInterval) /\ a.m_totalsize \in Nat
           /\ a = [m_array |-> a.m_array, m_totalsize |-> a.m_totalsize]
           /\ Len(a.m_array) \in Nat /\ DOMAIN a.m_array = 1 .. Len(a.m_array)
  <1>1. a.m_array \in Seq(BlockInterval) /\ a.m_totalsize \in Nat
    BY DEF Arrays
  <1>2. a = [m_array |-> a.m_array, m_totalsize |-> a.m_totalsize]
    BY DEF Arrays
  <1>3. QED
    BY <1>1, <1>2, Elements

LEMMA CallIs ==
    /\ \A c \in Calls : c.a \in Arrays /\ c.start \in Ids /\ c.size \in Ids
    /\ \A a \in Arrays, start, size \in Ids :
        /\ Call(a, start, size) \in Calls
        /\ Call(a, start, size).a = a
        /\ Call(a, start, size).start = start /\ Call(a, start, size).size = size
  BY DEF Calls, Call

LEMMA SafeDeleteIs ==
    ASSUME NEW a \in Arrays, NEW i \in DOMAIN a.m_array
    PROVE  /\ SafeDelete(a, i) \in Arrays
           /\ SafeDelete(a, i).m_array = RemoveAt(a.m_array, i)
           /\ SafeDelete(a, i).m_totalsize = a.m_totalsize
           /\ Len(SafeDelete(a, i).m_array) = Len(a.m_array) - 1
  <1>1. /\ SafeDelete(a, i).m_array = RemoveAt(a.m_array, i)
        /\ SafeDelete(a, i).m_totalsize = a.m_totalsize
        /\ SafeDelete(a, i) = [m_array |-> RemoveAt(a.m_array, i), m_totalsize |-> a.m_totalsize]
    BY DEF SafeDelete, Arrays
  <1>2. /\ RemoveAt(a.m_array, i) \in Seq(BlockInterval)
        /\ Len(RemoveAt(a.m_array, i)) = Len(a.m_array) - 1
    BY ArrayIs, Removed
  <1>3. QED
    BY <1>1, <1>2, ArrayIs DEF Arrays

LEMMA ReplaceIs ==
    ASSUME NEW a \in Arrays, NEW i \in DOMAIN a.m_array, NEW new \in BlockInterval
    PROVE  /\ [a EXCEPT !.m_array[i] = new] \in Arrays
           /\ [a EXCEPT !.m_array[i] = new].m_array = [a.m_array EXCEPT ![i] = new]
           /\ [a EXCEPT !.m_array[i] = new].m_totalsize = a.m_totalsize
  <1>1. /\ [a EXCEPT !.m_array[i] = new].m_array = [a.m_array EXCEPT ![i] = new]
        /\ [a EXCEPT !.m_array[i] = new].m_totalsize = a.m_totalsize
    BY DEF Arrays
  <1>2. [a EXCEPT !.m_array[i] = new]
          = [m_array |-> [a.m_array EXCEPT ![i] = new], m_totalsize |-> a.m_totalsize]
    BY DEF Arrays
  <1>3. [a.m_array EXCEPT ![i] = new] \in Seq(BlockInterval) /\ a.m_totalsize \in Nat
    BY ArrayIs
  <1>4. [a EXCEPT !.m_array[i] = new] \in Arrays
    BY ONLY <1>2, <1>3 DEF Arrays
  <1>5. QED
    BY ONLY <1>1, <1>4

\* SafeInsert keeps the types, also of an array that is in no order.
LEMMA SafeInsertTyped ==
    ASSUME Overlap = "move", NEW a \in Arrays, NEW i \in 1 .. Len(a.m_array) + 1,
           NEW start \in Ids, NEW size \in Ids
    PROVE  SafeInsert(a, i, start, size) \in Arrays
  <1>1. CASE Len(a.m_array) = MaxValidSize
    BY <1>1 DEF SafeInsert
  <1>2. CASE Len(a.m_array) # MaxValidSize
    <2> DEFINE r == SafeInsert(a, i, start, size)
    <2>1. r.m_array \in Seq(BlockInterval)
      BY <1>2, SafeInsertIs, InsertedAt, IntervalIs, ArrayIs DEF IsInserted
    <2>2. r.m_totalsize \in Nat
      BY <1>2, SafeInsertIs, ArrayIs
    <2>3. r = [m_array |-> r.m_array, m_totalsize |-> r.m_totalsize]
      BY <1>2, SafeInsertIs
    <2> HIDE DEF r
    <2>4. QED
      BY <2>1, <2>2, <2>3 DEF Arrays, r
  <1>3. QED
    BY <1>1, <1>2

\* The first of the intervals where a loop returns.
LEMMA FirstOf ==
    ASSUME NEW m \in Seq(BlockInterval), NEW T \in SUBSET (DOMAIN m), T # {}
    PROVE  /\ Min(T) \in T /\ Min(T) \in DOMAIN m
           /\ Min(T) \in Nat /\ Min(T) >= 1 /\ Min(T) <= Len(m)
           /\ \A j \in DOMAIN m : j < Min(T) => j \notin T
  <1>1. Len(m) \in Nat /\ DOMAIN m = 1 .. Len(m)
    BY Elements
  <1>2. T \in SUBSET Nat
    BY <1>1
  <1>3. Min(T) \in T /\ \A y \in T : Min(T) <= y
    BY <1>2, MinIsLeast
  <1>4. QED
    BY <1>1, <1>2, <1>3

AddCalls == {c \in Calls : AddsAgain(c)}
AddNext == [c \in Calls |-> IF AddsAgain(c) THEN NextAdd(c) ELSE c]
AddSize == [c \in Calls |-> Len(c.a.m_array)]

\* AddInterval calls itself with an array that is shorter by one.
LEMMA NextAddIs ==
    ASSUME NEW c \in Calls, AddsAgain(c),
           NEW i, i = Min(UpTo(c.a.m_array, c.start))
    PROVE  /\ i \in DOMAIN c.a.m_array
           /\ NextAdd(c) \in Calls
           /\ NextAdd(c).a = SafeDelete(c.a, i)
           /\ IF c.a.m_array[i].start > c.start
              THEN NextAdd(c).start = c.start /\ NextAdd(c).size = c.size
              ELSE /\ NextAdd(c).start = c.a.m_array[i].start
                   /\ NextAdd(c).size = Plus(c.size, Minus(c.start, c.a.m_array[i].start))
           /\ Len(NextAdd(c).a.m_array) = Len(c.a.m_array) - 1
  <1> DEFINE m == c.a.m_array
  <1>1. c.a \in Arrays /\ c.start \in Ids /\ c.size \in Ids
    BY CallIs
  <1>2. m \in Seq(BlockInterval)
    BY <1>1, ArrayIs
  <1>3. i \in DOMAIN m
    BY <1>2, FirstOf DEF AddsAgain, UpTo
  <1>4. m[i].start \in Ids
    BY <1>2, <1>3, Elements
  <1>5. Plus(c.size, Minus(c.start, m[i].start)) \in Ids
    BY <1>1, <1>4, Arithmetic
  <1>6. SafeDelete(c.a, i) \in Arrays /\ Len(SafeDelete(c.a, i).m_array) = Len(m) - 1
    BY <1>1, <1>3, SafeDeleteIs
  <1>7. NextAdd(c) = IF m[i].start > c.start THEN Call(SafeDelete(c.a, i), c.start, c.size)
                     ELSE Call(SafeDelete(c.a, i), m[i].start,
                               Plus(c.size, Minus(c.start, m[i].start)))
    BY DEF NextAdd
  <1>8. CASE m[i].start > c.start
    <2>1. NextAdd(c) = Call(SafeDelete(c.a, i), c.start, c.size)
      BY <1>7, <1>8
    <2>2. QED
      BY <1>1, <1>3, <1>6, <1>8, <2>1, CallIs
  <1>9. CASE ~ (m[i].start > c.start)
    <2>1. NextAdd(c) = Call(SafeDelete(c.a, i), m[i].start,
                            Plus(c.size, Minus(c.start, m[i].start)))
      BY <1>7, <1>9
    <2>2. /\ NextAdd(c) \in Calls /\ NextAdd(c).a = SafeDelete(c.a, i)
          /\ NextAdd(c).start = m[i].start
          /\ NextAdd(c).size = Plus(c.size, Minus(c.start, m[i].start))
      <3> HIDE DEF m
      <3>1. QED
        BY ONLY <1>4, <1>5, <1>6, <2>1, CallIs
    <2>3. QED
      BY <1>3, <1>6, <1>9, <2>2
  <1>10. QED
    BY <1>8, <1>9

LEMMA AddTerminates == Terminates(Calls, AddCalls, AddNext, AddSize)
  <1>1. ASSUME NEW c \in Calls, AddsAgain(c)
        PROVE  NextAdd(c) \in Calls /\ Len(NextAdd(c).a.m_array) = Len(c.a.m_array) - 1
    BY <1>1, NextAddIs
  <1>2. \A c \in Calls : Len(c.a.m_array) \in Nat
    BY CallIs, ArrayIs
  <1>3. AddNext \in [Calls -> Calls]
    BY <1>1 DEF AddNext
  <1>4. AddSize \in [Calls -> Nat]
    BY <1>2 DEF AddSize
  <1>5. ASSUME NEW c \in AddCalls
        PROVE  AddSize[AddNext[c]] < AddSize[c]
    <2>1. c \in Calls /\ AddsAgain(c)
      BY DEF AddCalls
    <2>2. AddNext[c] = NextAdd(c) /\ NextAdd(c) \in Calls
      BY <1>1, <2>1 DEF AddNext
    <2>3. AddSize[AddNext[c]] = Len(c.a.m_array) - 1 /\ AddSize[c] = Len(c.a.m_array)
      BY <1>1, <2>1, <2>2 DEF AddSize
    <2>4. QED
      BY <1>2, <2>1, <2>3
  <1>6. QED
    BY <1>3, <1>4, <1>5 DEF Terminates, AddCalls

\* The equation of AddInterval.
LEMMA AddedIs ==
    \A c \in Calls : Added[c] = IF AddsAgain(c) THEN Added[NextAdd(c)] ELSE AddReturns(c)
  <1> DEFINE last == [c \in Calls |-> AddReturns(c)]
             Right(f) == f = [c \in Calls |->
                                IF AddsAgain(c) THEN f[NextAdd(c)] ELSE AddReturns(c)]
  <1>1. PICK f : f = [c \in Calls |-> IF c \in AddCalls THEN f[AddNext[c]] ELSE last[c]]
    <2> HIDE DEF last
    <2>1. QED
      BY AddTerminates, TailRecursion
  <1>2. \A c \in Calls : /\ c \in AddCalls <=> AddsAgain(c)
                         /\ AddsAgain(c) => AddNext[c] = NextAdd(c)
                         /\ last[c] = AddReturns(c)
    BY DEF AddCalls, AddNext
  <1>3. Right(f)
    <2> HIDE DEF last
    <2>1. QED
      BY <1>1, <1>2
  <1>4. Added = CHOOSE g : Right(g)
    BY DEF Added
  <1> HIDE DEF Right
  <1>5. Right(Added)
    BY <1>3, <1>4
  <1>6. QED
    BY <1>5 DEF Right

-----------------------------------------------------------------------------
(* The three ways to change an array, for arrays with room.                *)

LEMMA GoodIs ==
    ASSUME NEW a, Good(a)
    PROVE  /\ a \in Arrays /\ a.m_array \in Seq(BlockInterval) /\ Verify(a.m_array)
           /\ Len(a.m_array) \in Nat /\ DOMAIN a.m_array = 1 .. Len(a.m_array)
           /\ a.m_totalsize \in Nat
           /\ Len(a.m_array) <= a.m_totalsize /\ a.m_totalsize <= MaxValidSize
           /\ Len(a.m_array) <= MaxValidSize
  <1>1. MaxValidSize \in Nat
    BY IntervalAssumption
  <1>2. /\ a \in Arrays /\ Verify(a.m_array)
        /\ Len(a.m_array) <= a.m_totalsize /\ a.m_totalsize <= MaxValidSize
    BY DEF Good
  <1>3. /\ a.m_array \in Seq(BlockInterval) /\ a.m_totalsize \in Nat
        /\ Len(a.m_array) \in Nat /\ DOMAIN a.m_array = 1 .. Len(a.m_array)
    BY <1>2, ArrayIs
  <1>4. Len(a.m_array) <= MaxValidSize
    BY <1>1, <1>2, <1>3
  <1>5. QED
    BY <1>2, <1>3, <1>4

LEMMA RemoveGood ==
    ASSUME NEW a, Good(a), NEW i \in DOMAIN a.m_array
    PROVE  /\ Good(SafeDelete(a, i))
           /\ Len(SafeDelete(a, i).m_array) = Len(a.m_array) - 1
           /\ \A x \in Int : Has(SafeDelete(a, i).m_array, x)
                                <=> Has(a.m_array, x) /\ ~ In(a.m_array[i], x)
  <1> DEFINE r == SafeDelete(a, i)
  <1>1. /\ r \in Arrays /\ r.m_array = RemoveAt(a.m_array, i)
        /\ r.m_totalsize = a.m_totalsize /\ Len(r.m_array) = Len(a.m_array) - 1
    BY GoodIs, SafeDeleteIs
  <1> HIDE DEF r
  <1>2. Verify(r.m_array)
    BY <1>1, GoodIs, RemoveKeeps
  <1>3. \A x \in Int : Has(r.m_array, x) <=> Has(a.m_array, x) /\ ~ In(a.m_array[i], x)
    BY <1>1, GoodIs, RemoveKeeps
  <1>4. Len(r.m_array) <= r.m_totalsize /\ r.m_totalsize <= MaxValidSize
    BY <1>1, GoodIs
  <1>5. QED
    BY <1>1, <1>2, <1>3, <1>4 DEF Good, r

LEMMA ReplaceGood ==
    ASSUME NEW a, Good(a), NEW i \in DOMAIN a.m_array,
           NEW new \in BlockInterval, new.size > 0, new.start + new.size <= UINT_MAX,
           i > 1 => a.m_array[i - 1].start + a.m_array[i - 1].size < new.start,
           i < Len(a.m_array) => new.start + new.size < a.m_array[i + 1].start
    PROVE  /\ Good([a EXCEPT !.m_array[i] = new])
           /\ Len([a EXCEPT !.m_array[i] = new].m_array) = Len(a.m_array)
           /\ \A x \in Int : Has([a EXCEPT !.m_array[i] = new].m_array, x)
                                <=> \/ Has(a.m_array, x) /\ ~ In(a.m_array[i], x)
                                    \/ In(new, x)
  <1> DEFINE r == [a EXCEPT !.m_array[i] = new]
             m == a.m_array
  <1>1. r \in Arrays /\ r.m_array = [m EXCEPT ![i] = new] /\ r.m_totalsize = a.m_totalsize
    BY GoodIs, ReplaceIs
  <1> HIDE DEF r
  <1>2. /\ Verify([m EXCEPT ![i] = new]) /\ Len([m EXCEPT ![i] = new]) = Len(m)
        /\ \A x \in Int : Has([m EXCEPT ![i] = new], x)
                            <=> (Has(m, x) /\ ~ In(m[i], x)) \/ In(new, x)
    <2>1. m \in Seq(BlockInterval) /\ Verify(m) /\ i \in DOMAIN m
      BY GoodIs
    <2>2. /\ i > 1 => m[i - 1].start + m[i - 1].size < new.start
          /\ i < Len(m) => new.start + new.size < m[i + 1].start
      OBVIOUS
    <2> HIDE DEF m
    <2>3. QED
      BY <2>1, <2>2, ReplaceKeeps
  <1>3. Len(r.m_array) <= r.m_totalsize /\ r.m_totalsize <= MaxValidSize
    BY <1>1, <1>2, GoodIs
  <1>4. QED
    BY <1>1, <1>2, <1>3 DEF Good, r

LEMMA InsertGood ==
    ASSUME Overlap = "move", NEW a, Good(a), NEW i \in 1 .. Len(a.m_array) + 1,
           NEW start \in Ids, NEW size \in Ids, size > 0, start + size <= UINT_MAX,
           Len(a.m_array) # MaxValidSize,
           i > 1 => a.m_array[i - 1].start + a.m_array[i - 1].size < start,
           i <= Len(a.m_array) => start + size < a.m_array[i].start
    PROVE  /\ Good(SafeInsert(a, i, start, size))
           /\ Len(SafeInsert(a, i, start, size).m_array) = Len(a.m_array) + 1
           /\ \A x \in Int : Has(SafeInsert(a, i, start, size).m_array, x)
                                <=> Has(a.m_array, x) \/ (start <= x /\ x < start + size)
  <1> DEFINE r == SafeInsert(a, i, start, size)
             m == a.m_array
             new == Interval(start, size)
  <1>1. r \in Arrays
    BY GoodIs, SafeInsertTyped
  <1>2. /\ r.m_array = Inserted(m, i, new)
        /\ r.m_totalsize = IF a.m_totalsize > Len(m) THEN a.m_totalsize ELSE a.m_totalsize + 1
    BY GoodIs, SafeInsertIs
  <1>3. new \in BlockInterval /\ new.start = start /\ new.size = size
    BY IntervalIs
  <1> HIDE DEF r, new
  <1>4. /\ Verify(Inserted(m, i, new)) /\ Len(Inserted(m, i, new)) = Len(m) + 1
        /\ \A x \in Int : Has(Inserted(m, i, new), x) <=> Has(m, x) \/ In(new, x)
    <2>1. m \in Seq(BlockInterval) /\ Verify(m) /\ i \in 1 .. Len(m) + 1
      BY GoodIs
    <2>2. /\ new.size > 0 /\ new.start + new.size <= UINT_MAX
          /\ i > 1 => m[i - 1].start + m[i - 1].size < new.start
          /\ i <= Len(m) => new.start + new.size < m[i].start
      BY <1>3
    <2> HIDE DEF m
    <2>3. QED
      BY <1>3, <2>1, <2>2, InsertKeeps
  <1>5. Len(r.m_array) <= r.m_totalsize /\ r.m_totalsize <= MaxValidSize
    <2>1. /\ Len(m) \in Nat /\ a.m_totalsize \in Nat /\ MaxValidSize \in Nat
          /\ Len(m) <= a.m_totalsize /\ a.m_totalsize <= MaxValidSize /\ Len(m) # MaxValidSize
      BY GoodIs, IntervalAssumption
    <2>2. QED
      BY <1>2, <1>4, <2>1
  <1>6. \A x \in Int : Has(r.m_array, x) <=> Has(m, x) \/ (start <= x /\ x < start + size)
    BY <1>2, <1>3, <1>4 DEF In
  <1>7. QED
    BY <1>1, <1>2, <1>4, <1>5, <1>6 DEF Good, r

-----------------------------------------------------------------------------
(* AddInterval.                                                            *)

AddGood(c) == c \in Calls /\ Good(c.a) /\ c.start + c.size <= UINT_MAX

\* What AddInterval makes of the arguments of c.
AddSpec(c, r) ==
    /\ Good(r)
    /\ \/ Blocks(r) = Blocks(c.a) \union Span(c.start, c.size)
       \/ r = c.a /\ Len(c.a.m_array) = MaxValidSize

\* The numbers in r are those in m, and size more from start on.
Gains(r, m, start, size) ==
    \A x \in Int : Has(r, x) <=> Has(m, x) \/ (start <= x /\ x < start + size)

LEMMA BlocksUnion ==
    ASSUME NEW a \in Arrays, NEW r \in Arrays, NEW start \in Nat, NEW size \in Nat,
           Gains(r.m_array, a.m_array, start, size)
    PROVE  Blocks(r) = Blocks(a) \union Span(start, size)
  <1>1. \A x : x \in Blocks(r) <=> x \in Nat /\ Has(r.m_array, x)
    BY ArrayIs, BlocksAre
  <1>2. \A x : x \in Blocks(a) <=> x \in Nat /\ Has(a.m_array, x)
    BY ArrayIs, BlocksAre
  <1>3. \A x : x \in Span(start, size) <=> x \in Nat /\ start <= x /\ x < start + size
    BY DEF Span
  <1>4. QED
    BY <1>1, <1>2, <1>3 DEF Gains

\* The numbers in a call of AddInterval.
LEMMA AddNumbers ==
    ASSUME NEW c, AddGood(c)
    PROVE  /\ c.a \in Arrays /\ c.a.m_array \in Seq(BlockInterval) /\ Verify(c.a.m_array)
           /\ c.start \in Ids /\ c.size \in Ids
           /\ c.start \in Nat /\ c.size \in Nat /\ UINT_MAX \in Nat
           /\ Plus(c.start, c.size) = c.start + c.size
           /\ UpTo(c.a.m_array, c.start) = {i \in DOMAIN c.a.m_array :
                c.a.m_array[i].start + c.a.m_array[i].size >= c.start}
  <1>1. c \in Calls /\ Good(c.a) /\ c.start + c.size <= UINT_MAX
    BY DEF AddGood
  <1>2. c.start \in Ids /\ c.size \in Ids /\ UINT_MAX \in Nat
    BY <1>1, CallIs, IntervalAssumption
  <1>3. c.start \in Nat /\ c.size \in Nat
    BY <1>2 DEF Ids
  <1>4. Plus(c.start, c.size) = c.start + c.size
    BY <1>1, <1>3, Arithmetic
  <1>5. c.a \in Arrays /\ c.a.m_array \in Seq(BlockInterval) /\ Verify(c.a.m_array)
    BY <1>1, GoodIs
  <1> DEFINE m == c.a.m_array
  <1>6. ASSUME NEW i \in DOMAIN m
        PROVE  m[i].start > c.start \/ End(m[i]) >= c.start
                 <=> m[i].start + m[i].size >= c.start
    <2>1. End(m[i]) = m[i].start + m[i].size /\ m[i].start \in Nat /\ m[i].size \in Nat
      BY <1>5, Apart, Elements
    <2>2. QED
      BY <1>3, <2>1
  <1>7. UpTo(m, c.start) = {i \in DOMAIN m : m[i].start + m[i].size >= c.start}
    BY <1>6 DEF UpTo
  <1>8. QED
    BY <1>2, <1>3, <1>4, <1>5, <1>7

\* There is a gap between the new interval and those around place i.
FitsAt(a, i, start, size) ==
    /\ Good(a) /\ i \in 1 .. Len(a.m_array) + 1
    /\ start \in Nat /\ size \in Nat /\ size > 0 /\ start + size <= UINT_MAX
    /\ i > 1 => a.m_array[i - 1].start + a.m_array[i - 1].size < start
    /\ i <= Len(a.m_array) => start + size < a.m_array[i].start

LEMMA InsertUnion ==
    ASSUME Overlap = "move", NEW a, NEW i, NEW start, NEW size, FitsAt(a, i, start, size)
    PROVE  /\ Good(SafeInsert(a, i, start, size))
           /\ \/ Blocks(SafeInsert(a, i, start, size)) = Blocks(a) \union Span(start, size)
              \/ SafeInsert(a, i, start, size) = a /\ Len(a.m_array) = MaxValidSize
  <1> USE DEF FitsAt
  <1>1. CASE Len(a.m_array) = MaxValidSize
    BY <1>1 DEF SafeInsert
  <1>2. CASE Len(a.m_array) # MaxValidSize
    <2> DEFINE r == SafeInsert(a, i, start, size)
    <2>1. start \in Ids /\ size \in Ids
      <3>1. UINT_MAX \in Nat /\ start <= UINT_MAX /\ size <= UINT_MAX
        BY IntervalAssumption
      <3>2. QED
        BY <3>1 DEF Ids
    <2>2. /\ Good(r)
          /\ Gains(r.m_array, a.m_array, start, size)
      BY <1>2, <2>1, InsertGood DEF Gains
    <2> HIDE DEF r
    <2>3. r \in Arrays /\ a \in Arrays
      BY <2>2, GoodIs
    <2>4. Blocks(r) = Blocks(a) \union Span(start, size)
      BY <2>2, <2>3, BlocksUnion
    <2>5. QED
      BY <2>2, <2>4 DEF r
  <1>3. QED
    BY <1>1, <1>2

LEMMA InsertNumbers ==
    ASSUME Overlap = "move", NEW a, NEW i, NEW start, NEW size, FitsAt(a, i, start, size),
           Len(a.m_array) # MaxValidSize
    PROVE  /\ Good(SafeInsert(a, i, start, size))
           /\ Len(SafeInsert(a, i, start, size).m_array) = Len(a.m_array) + 1
           /\ \A x \in Int : Has(SafeInsert(a, i, start, size).m_array, x)
                                <=> Has(a.m_array, x) \/ (start <= x /\ x < start + size)
  <1> USE DEF FitsAt
  <1>1. start \in Ids /\ size \in Ids
    <2>1. UINT_MAX \in Nat /\ start <= UINT_MAX /\ size <= UINT_MAX
      BY IntervalAssumption
    <2>2. QED
      BY <2>1 DEF Ids
  <1>2. QED
    BY <1>1, InsertGood

\* a with another interval for interval i.
Put(a, i, new) == [a EXCEPT !.m_array[i] = new]

\* Interval i, which goes from low to high, and the new one overlap or touch,
\* and one from l to h is put for both.
Joined(a, i, start, size, low, high, l, h) ==
    /\ Good(a) /\ i \in DOMAIN a.m_array
    /\ start \in Nat /\ size \in Nat
    /\ low \in Nat /\ low = a.m_array[i].start
    /\ high \in Nat /\ high = a.m_array[i].start + a.m_array[i].size
    /\ start <= high /\ low <= start + size
    /\ l \in Nat /\ l <= low /\ l <= start /\ (l = low \/ l = start)
    /\ h \in Nat /\ high <= h /\ start + size <= h /\ (h = high \/ h = start + size)
    /\ l < h /\ h <= UINT_MAX
    /\ i > 1 => a.m_array[i - 1].start + a.m_array[i - 1].size < l
    /\ i < Len(a.m_array) => h < a.m_array[i + 1].start

LEMMA ReplaceUnion ==
    ASSUME NEW a, NEW i, NEW start, NEW size, NEW low, NEW high, NEW l, NEW h,
           Joined(a, i, start, size, low, high, l, h)
    PROVE  /\ Good(Put(a, i, Interval(l, h - l)))
           /\ Blocks(Put(a, i, Interval(l, h - l))) = Blocks(a) \union Span(start, size)
  <1> USE DEF Joined
  <1> DEFINE new == Interval(l, h - l)
             r == [a EXCEPT !.m_array[i] = new]
  <1>1. l \in Ids /\ h - l \in Ids
    <2>1. UINT_MAX \in Nat /\ l <= UINT_MAX /\ h - l \in Nat /\ h - l <= UINT_MAX
      BY IntervalAssumption
    <2>2. QED
      BY <2>1 DEF Ids
  <1>2. new \in BlockInterval /\ new.start = l /\ new.size = h - l
    BY <1>1, IntervalIs
  <1> HIDE DEF new
  <1>3. new.size > 0 /\ new.start + new.size = h
    BY <1>2
  <1>4. /\ Good(r)
        /\ \A x \in Int : Has(r.m_array, x)
                          <=> (Has(a.m_array, x) /\ ~ In(a.m_array[i], x)) \/ In(new, x)
    BY <1>2, <1>3, ReplaceGood
  <1> HIDE DEF r
  <1>5. ASSUME NEW x \in Int
        PROVE  /\ In(a.m_array[i], x) <=> low <= x /\ x < high
               /\ In(new, x) <=> l <= x /\ x < h
    BY <1>2, <1>3 DEF In
  <1>6. \A x \in Int : In(a.m_array[i], x) => Has(a.m_array, x)
    BY DEF Has
  <1>7. \A x \in Int : l <= x /\ x < h
                        <=> (low <= x /\ x < high) \/ (start <= x /\ x < start + size)
    OBVIOUS
  <1>8. Gains(r.m_array, a.m_array, start, size)
    BY <1>4, <1>5, <1>6, <1>7 DEF Gains
  <1>9. r \in Arrays /\ a \in Arrays
    BY <1>4, GoodIs
  <1>10. Blocks(r) = Blocks(a) \union Span(start, size)
    BY <1>8, <1>9, BlocksUnion
  <1>11. QED
    BY <1>4, <1>10 DEF r, new, Put

\* The first interval that reaches up to start, and the gap before it.
LEMMA AddPlace ==
    ASSUME NEW a, Good(a), NEW start \in Nat,
           NEW T, T = {k \in DOMAIN a.m_array :
                        a.m_array[k].start + a.m_array[k].size >= start}, T # {}
    PROVE  /\ Min(T) \in DOMAIN a.m_array /\ Min(T) \in Nat /\ Min(T) >= 1
           /\ Min(T) <= Len(a.m_array) /\ Min(T) \in 1 .. Len(a.m_array) + 1
           /\ a.m_array[Min(T)].start + a.m_array[Min(T)].size >= start
           /\ Min(T) > 1 =>
                a.m_array[Min(T) - 1].start + a.m_array[Min(T) - 1].size < start
           /\ Min(T) > 1 =>
                a.m_array[Min(T) - 1].start + a.m_array[Min(T) - 1].size
                    < a.m_array[Min(T)].start
           /\ Min(T) < Len(a.m_array) =>
                a.m_array[Min(T)].start + a.m_array[Min(T)].size
                    < a.m_array[Min(T) + 1].start
  <1> DEFINE m == a.m_array
  <1>1. m \in Seq(BlockInterval) /\ Verify(m) /\ Len(m) \in Nat /\ DOMAIN m = 1 .. Len(m)
    BY GoodIs
  <1>2. /\ T \in SUBSET (DOMAIN m) /\ T # {}
        /\ \A k \in DOMAIN m : k \in T <=> m[k].start + m[k].size >= start
    OBVIOUS
  <1> HIDE DEF m
  <1>3. PICK i : i = Min(T)
    OBVIOUS
  <1>4. /\ i \in T /\ i \in DOMAIN m /\ i \in Nat /\ i >= 1 /\ i <= Len(m)
        /\ \A j \in DOMAIN m : j < i => j \notin T
    <2>1. /\ Min(T) \in T /\ Min(T) \in DOMAIN m /\ Min(T) \in Nat /\ Min(T) >= 1
          /\ Min(T) <= Len(m) /\ \A j \in DOMAIN m : j < Min(T) => j \notin T
      BY ONLY <1>1, <1>2, FirstOf
    <2>2. QED
      BY <1>3, <2>1
  <1>5. i > 1 => m[i - 1].start + m[i - 1].size < start /\ i - 1 \in DOMAIN m /\ i - 1 < i
    <2>1. i > 1 => i - 1 \in DOMAIN m /\ i - 1 < i
      BY <1>1, <1>4
    <2>2. i > 1 => ~ (m[i - 1].start + m[i - 1].size >= start)
      BY <1>2, <1>4, <2>1
    <2>3. i > 1 => m[i - 1].start \in Nat /\ m[i - 1].size \in Nat
      BY <1>1, <2>1, Elements
    <2>4. QED
      BY <2>1, <2>2, <2>3
  <1>6. i > 1 => m[i - 1].start + m[i - 1].size < m[i].start
    BY <1>1, <1>4, <1>5, Apart
  <1>7. i < Len(m) => m[i].start + m[i].size < m[i + 1].start
    <2>1. i < Len(m) => i + 1 \in DOMAIN m /\ i < i + 1
      BY <1>1, <1>4
    <2>2. QED
      BY <1>1, <1>4, <2>1, Apart
  <1>8. i \in 1 .. Len(m) + 1
    BY <1>1, <1>4
  <1>9. QED
    BY <1>2, <1>3, <1>4, <1>5, <1>6, <1>7, <1>8 DEF m

\* Where the loop of AddInterval stops, and how the interval found there lies to
\* its neighbours and to the new one.
LEMMA AddFound ==
    ASSUME NEW c, AddGood(c), UpTo(c.a.m_array, c.start) # {},
           NEW i, i = Min(UpTo(c.a.m_array, c.start))
    PROVE  /\ i \in DOMAIN c.a.m_array /\ i \in Nat /\ i >= 1
           /\ i <= Len(c.a.m_array) /\ i \in 1 .. Len(c.a.m_array) + 1
           /\ c.a.m_array[i].start \in Nat /\ c.a.m_array[i].size \in Nat
           /\ c.a.m_array[i].size > 0
           /\ c.a.m_array[i].start + c.a.m_array[i].size <= UINT_MAX
           /\ End(c.a.m_array[i]) = c.a.m_array[i].start + c.a.m_array[i].size
           /\ c.a.m_array[i].start + c.a.m_array[i].size >= c.start
           /\ i > 1 => c.a.m_array[i - 1].start + c.a.m_array[i - 1].size < c.start
           /\ i > 1 => c.a.m_array[i - 1].start + c.a.m_array[i - 1].size
                            < c.a.m_array[i].start
           /\ i < Len(c.a.m_array) =>
                c.a.m_array[i].start + c.a.m_array[i].size < c.a.m_array[i + 1].start
  <1>1. /\ Good(c.a) /\ c.start \in Nat /\ c.a.m_array \in Seq(BlockInterval)
        /\ Verify(c.a.m_array)
        /\ UpTo(c.a.m_array, c.start) = {k \in DOMAIN c.a.m_array :
                c.a.m_array[k].start + c.a.m_array[k].size >= c.start}
    BY AddNumbers DEF AddGood
  <1>2. /\ i \in DOMAIN c.a.m_array /\ i \in Nat /\ i >= 1
        /\ i <= Len(c.a.m_array) /\ i \in 1 .. Len(c.a.m_array) + 1
        /\ c.a.m_array[i].start + c.a.m_array[i].size >= c.start
        /\ i > 1 => c.a.m_array[i - 1].start + c.a.m_array[i - 1].size < c.start
        /\ i > 1 => c.a.m_array[i - 1].start + c.a.m_array[i - 1].size
                        < c.a.m_array[i].start
        /\ i < Len(c.a.m_array) =>
             c.a.m_array[i].start + c.a.m_array[i].size < c.a.m_array[i + 1].start
    BY <1>1, AddPlace
  <1>3. /\ c.a.m_array[i].start \in Nat /\ c.a.m_array[i].size \in Nat
        /\ c.a.m_array[i].size > 0
        /\ c.a.m_array[i].start + c.a.m_array[i].size <= UINT_MAX
        /\ End(c.a.m_array[i]) = c.a.m_array[i].start + c.a.m_array[i].size
    BY <1>1, <1>2, Elements, Apart
  <1>4. QED
    BY <1>2, <1>3

\* AddInterval returns the union.
LEMMA AddReturnsUnion ==
    ASSUME Overlap = "move", NEW c, AddGood(c), ~ AddsAgain(c)
    PROVE  AddSpec(c, AddReturns(c))
  <1> DEFINE a == c.a
             m == c.a.m_array
             U == UpTo(c.a.m_array, c.start)
  <1>1. PICK start, size, end, i :
            start = c.start /\ size = c.size /\ end = c.start + c.size /\ i = Min(U)
    OBVIOUS
  <1>2. /\ Good(a) /\ end <= UINT_MAX /\ start \in Nat /\ size \in Nat /\ UINT_MAX \in Nat
        /\ end = start + size /\ end \in Nat /\ Plus(c.start, c.size) = end
    BY <1>1, AddNumbers DEF AddGood
  <1>3. CASE c.start = UINT_MAX \/ c.size = 0
    <2>1. size = 0 /\ AddReturns(c) = a
      BY <1>1, <1>2, <1>3 DEF AddReturns
    <2>2. Span(start, size) = {}
      BY <1>2, <2>1 DEF Span
    <2>3. QED
      BY <1>1, <1>2, <2>1, <2>2 DEF AddSpec
  <1>4. CASE ~ (c.start = UINT_MAX \/ c.size = 0) /\ U = {}
    <2>1. AddReturns(c) = SafeInsert(a, Len(m) + 1, start, size)
      BY <1>1, <1>4 DEF AddReturns
    <2>2. /\ Len(m) \in Nat /\ Len(m) + 1 \in 1 .. Len(m) + 1 /\ ~ (Len(m) + 1 <= Len(m))
          /\ Len(m) + 1 - 1 = Len(m) /\ size > 0
      BY <1>1, <1>2, <1>4, GoodIs
    <2>3. Len(m) + 1 > 1 => m[Len(m) + 1 - 1].start + m[Len(m) + 1 - 1].size < start
      <3>1. ASSUME Len(m) >= 1
            PROVE  m[Len(m)].start + m[Len(m)].size < c.start
        <4>1. Len(m) \in DOMAIN m
          BY <1>2, <2>2, <3>1, GoodIs
        <4>2. ~ (m[Len(m)].start + m[Len(m)].size >= c.start)
          BY <1>4, <4>1, AddNumbers
        <4>3. m[Len(m)].start \in Nat /\ m[Len(m)].size \in Nat /\ c.start \in Nat
          BY <4>1, AddNumbers, Elements
        <4>4. QED
          BY <4>2, <4>3
      <3>2. QED
        BY <1>1, <2>2, <3>1
    <2>4. FitsAt(a, Len(m) + 1, start, size)
      BY <1>2, <2>2, <2>3 DEF FitsAt
    <2>5. QED
      BY <1>1, <2>1, <2>4, InsertUnion DEF AddSpec
  <1>5. CASE ~ (c.start = UINT_MAX \/ c.size = 0) /\ U # {}
    <2>1. PICK low, high : low = m[i].start /\ high = m[i].start + m[i].size
      OBVIOUS
    <2>2. /\ i \in DOMAIN m /\ i \in Nat /\ i >= 1 /\ i <= Len(m) /\ i \in 1 .. Len(m) + 1
          /\ low \in Nat /\ high \in Nat /\ low < high /\ high <= UINT_MAX
          /\ m[i].size = high - low
          /\ End(m[i]) = high /\ high >= start
          /\ i > 1 => m[i - 1].start + m[i - 1].size < start
          /\ i > 1 => m[i - 1].start + m[i - 1].size < low
          /\ i < Len(m) => high < m[i + 1].start
      <3>1. m[i].start \in Nat /\ m[i].size \in Nat /\ m[i].size > 0
        BY <1>1, <1>5, AddFound
      <3>2. low \in Nat /\ high \in Nat /\ low < high /\ m[i].size = high - low
        BY <2>1, <3>1
      <3>3. QED
        BY <1>1, <1>5, <2>1, <3>2, AddFound
    <2>3. size > 0 /\ start < end /\ start < UINT_MAX
      BY <1>1, <1>2, <1>5
    <2>a. ASSUME NEW l \in Nat, NEW h \in Nat,
                 l <= low, l <= start, l = low \/ l = start,
                 high <= h, start + size <= h, h = high \/ h = start + size,
                 start <= high, low <= start + size, l < h, h <= UINT_MAX,
                 i < Len(m) => h < m[i + 1].start
          PROVE  Joined(a, i, start, size, low, high, l, h)
      <3>1. low = a.m_array[i].start /\ high = a.m_array[i].start + a.m_array[i].size
        BY <2>1
      <3>2. /\ Good(a) /\ i \in DOMAIN a.m_array /\ start \in Nat /\ size \in Nat
            /\ low \in Nat /\ high \in Nat
        BY <1>2, <2>2
      <3>3. i > 1 => a.m_array[i - 1].start + a.m_array[i - 1].size < l
        BY <2>2, <2>a
      <3>4. i < Len(a.m_array) => h < a.m_array[i + 1].start
        BY <2>a
      <3> HIDE DEF a, m
      <3>5. QED
        BY ONLY <2>a, <3>1, <3>2, <3>3, <3>4 DEF Joined
    <2>4. CASE low > start /\ low > end
      <3>1. AddReturns(c) = SafeInsert(a, i, start, size)
        BY <1>1, <1>2, <1>5, <2>1, <2>4 DEF AddReturns, AddBefore
      <3>2. start + size < m[i].start
        BY <1>2, <2>1, <2>2, <2>4
      <3>3. start + size <= UINT_MAX
        BY <1>2
      <3>4. FitsAt(a, i, start, size)
        BY <1>2, <2>2, <2>3, <3>2, <3>3 DEF FitsAt
      <3>5. QED
        BY <1>1, <3>1, <3>4, InsertUnion DEF AddSpec
    <2>5. CASE low > start /\ ~ (low > end)
      <3>1. ~ (high < end)
        <4>1. /\ c.start # UINT_MAX /\ c.size # 0 /\ U # {}
              /\ m[i].start > c.start /\ m[i].start <= Plus(c.start, c.size)
          <5>1. c.start # UINT_MAX /\ c.size # 0 /\ U # {}
            BY <1>5
          <5>2. m[i].start > c.start
            BY <1>1, <2>1, <2>5
          <5>3. m[i].start <= Plus(c.start, c.size)
            <6>1. low <= end
              BY <1>2, <2>2, <2>5
            <6>2. QED
              BY <1>2, <2>1, <6>1
          <5>4. QED
            BY <5>1, <5>2, <5>3
        <4>2. ~ (End(m[i]) < Plus(c.start, c.size))
          BY <1>1, <4>1 DEF AddsAgain
        <4>3. QED
          BY <1>2, <2>2, <4>2
      <3>2. Plus(m[i].size, Minus(m[i].start, c.start)) = high - start
        <4>1. Minus(low, start) = low - start
          <5>1. start \in Nat /\ low \in Nat /\ start <= low /\ low <= UINT_MAX
            BY <1>2, <2>2, <2>5
          <5>2. QED
            BY ONLY <5>1, Arithmetic
        <4>2. high - low \in Nat /\ low - start \in Nat
          BY <1>2, <2>2, <2>5
        <4>3. (high - low) + (low - start) = high - start
          BY <1>2, <2>2
        <4>4. high - start <= UINT_MAX
          BY <1>2, <2>2
        <4>5. Plus(high - low, low - start) = high - start
          BY <4>2, <4>3, <4>4, Arithmetic
        <4>6. QED
          BY <1>1, <2>1, <2>2, <4>1, <4>5
      <3>3. AddReturns(c) = Put(a, i, Interval(start, high - start))
        <4>1. AddReturns(c) = [a EXCEPT !.m_array[i] =
                    Interval(c.start, Plus(m[i].size, Minus(m[i].start, c.start)))]
          BY <1>1, <1>2, <1>5, <2>1, <2>5 DEF AddReturns, AddBefore
        <4>2. QED
          BY <1>1, <3>2, <4>1 DEF Put
      <3>4. /\ start <= high /\ low <= start + size /\ start <= low
            /\ start + size <= high /\ start < high
        BY <1>2, <2>2, <2>5, <3>1
      <3>5. /\ Good(Put(a, i, Interval(start, high - start)))
            /\ Blocks(Put(a, i, Interval(start, high - start))) = Blocks(a) \union Span(start, size)
        <4>1. Joined(a, i, start, size, low, high, start, high)
          <5>1. /\ start \in Nat /\ high \in Nat /\ start <= start /\ high <= high
                /\ high <= UINT_MAX
            BY <1>2, <2>2
          <5>2. i < Len(m) => high < m[i + 1].start
            BY <2>2
          <5>3. QED
            BY ONLY <2>a, <3>4, <5>1, <5>2
        <4>2. QED
          BY <4>1, ReplaceUnion
      <3>6. QED
        BY <1>1, <3>3, <3>5 DEF AddSpec
    <2>6. CASE ~ (low > start) /\ high >= end
      <3>1. AddReturns(c) = a
        BY <1>1, <1>2, <1>5, <2>1, <2>2, <2>6 DEF AddReturns, AddFrom
      <3>2. Span(start, size) \subseteq Blocks(a)
        <4>1. ASSUME NEW x \in Span(start, size)
              PROVE  x \in Blocks(a)
          <5>1. x \in Nat /\ low <= x /\ x < high
            BY <1>2, <2>2, <2>6 DEF Span
          <5>2. In(m[i], x)
            BY <2>1, <5>1 DEF In
          <5>3. Has(m, x)
            BY <2>2, <5>2 DEF Has
          <5>4. QED
            BY <1>2, <5>1, <5>3, GoodIs, BlocksAre
        <4>2. QED
          BY <4>1
      <3>3. QED
        BY <1>1, <1>2, <3>1, <3>2 DEF AddSpec
    <2>7. CASE ~ (low > start) /\ ~ (high >= end)
      <3>1. i < Len(m) => end < m[i + 1].start
        <4>1. ~ (i < Len(m) /\ m[i + 1].start <= end)
          <5>1. /\ c.start # UINT_MAX /\ c.size # 0 /\ U # {} /\ ~ (m[i].start > c.start)
                /\ End(m[i]) < Plus(c.start, c.size)
            <6>1. ~ (low > start) /\ high < end
              BY <1>2, <2>2, <2>7
            <6>2. QED
              BY <1>1, <1>2, <1>5, <2>1, <2>2, <6>1
          <5>2. ~ (i < Len(m) /\ m[i + 1].start <= Plus(c.start, c.size))
            BY <1>1, <5>1 DEF AddsAgain
          <5>3. QED
            BY <1>2, <5>2
        <4>2. i < Len(m) => m[i + 1].start \in Nat
          <5>1. m \in Seq(BlockInterval)
            BY <1>2, GoodIs
          <5>2. i < Len(m) => i + 1 \in DOMAIN m
            BY <2>2, <5>1, Elements
          <5>3. QED
            BY <5>1, <5>2, Elements
        <4>3. QED
          BY <1>2, <4>1, <4>2
      <3>2. Minus(end, m[i].start) = end - low
        <4>1. low <= end
          BY <1>2, <2>2, <2>7
        <4>2. QED
          BY <1>2, <2>1, <2>2, <4>1, Arithmetic
      <3>3. AddReturns(c) = Put(a, i, Interval(low, end - low))
        <4>1. AddReturns(c) = [a EXCEPT !.m_array[i] =
                    Interval(m[i].start, Minus(end, m[i].start))]
          BY <1>1, <1>2, <1>5, <2>1, <2>2, <2>7 DEF AddReturns, AddFrom
        <4>2. QED
          BY <2>1, <3>2, <4>1 DEF Put
      <3>4. /\ start <= high /\ low <= start + size /\ low <= start
            /\ high <= end /\ start + size <= end /\ low < end
        BY <1>2, <2>2, <2>7
      <3>5. /\ Good(Put(a, i, Interval(low, end - low)))
            /\ Blocks(Put(a, i, Interval(low, end - low))) = Blocks(a) \union Span(start, size)
        <4>1. Joined(a, i, start, size, low, high, low, end)
          <5>1. low \in Nat /\ end \in Nat /\ low <= low /\ end = start + size /\ end <= UINT_MAX
            BY <1>2, <2>2
          <5>2. QED
            BY ONLY <2>a, <3>1, <3>4, <5>1
        <4>2. QED
          BY <4>1, ReplaceUnion
      <3>6. QED
        BY <1>1, <3>3, <3>5 DEF AddSpec
    <2>8. QED
      BY <2>4, <2>5, <2>6, <2>7
  <1>6. QED
    BY <1>3, <1>4, <1>5

\* When AddInterval calls itself, what the next call stands for is the same, and
\* its array is not full.
LEMMA AddAgainKeeps ==
    ASSUME NEW c, AddGood(c), AddsAgain(c)
    PROVE  /\ AddGood(NextAdd(c))
           /\ Len(NextAdd(c).a.m_array) < MaxValidSize
           /\ Blocks(NextAdd(c).a) \union Span(NextAdd(c).start, NextAdd(c).size)
                = Blocks(c.a) \union Span(c.start, c.size)
  <1> DEFINE m == c.a.m_array
             U == UpTo(c.a.m_array, c.start)
             n == NextAdd(c)
  <1>1. PICK start, size, end, i, low, high :
            /\ start = c.start /\ size = c.size /\ end = c.start + c.size /\ i = Min(U)
            /\ low = m[i].start /\ high = m[i].start + m[i].size
    OBVIOUS
  <1>2. /\ c \in Calls /\ Good(c.a)
        /\ end <= UINT_MAX /\ start \in Nat /\ size \in Nat /\ UINT_MAX \in Nat
        /\ end = start + size /\ end \in Nat /\ Plus(c.start, c.size) = end
    BY <1>1, AddNumbers DEF AddGood
  <1>3. /\ i \in DOMAIN m /\ low \in Nat /\ high \in Nat /\ low < high /\ high <= UINT_MAX
        /\ End(m[i]) = high /\ high >= start
    <2>1. m[i].start \in Nat /\ m[i].size \in Nat /\ m[i].size > 0 /\ U # {}
      BY <1>1, AddFound DEF AddsAgain
    <2>2. low \in Nat /\ high \in Nat /\ low < high
      BY <1>1, <2>1
    <2>3. QED
      BY <1>1, <2>1, <2>2, AddFound
  <1>4. /\ n \in Calls /\ n.a = SafeDelete(c.a, i)
        /\ IF m[i].start > c.start THEN n.start = c.start /\ n.size = c.size
           ELSE n.start = m[i].start /\ n.size = Plus(c.size, Minus(c.start, m[i].start))
        /\ Len(n.a.m_array) = Len(m) - 1
    BY <1>1, <1>2, NextAddIs
  <1>5. high < end /\ (low > start => low <= end)
    BY <1>1, <1>2, <1>3 DEF AddsAgain
  <1>6. PICK s, z : s = n.start /\ z = n.size
    OBVIOUS
  <1> HIDE DEF n
  \* the next call goes from the lesser start to the same end
  <1>7. s \in Nat /\ z \in Nat /\ s + z = end /\ s <= start /\ s <= low /\ (s = start \/ s = low)
    <2>1. CASE low > start
      <3>1. s = start /\ z = size
        BY <1>1, <1>4, <1>6, <2>1
      <3>2. start <= start /\ start <= low
        BY <1>2, <1>3, <2>1
      <3>3. QED
        BY <1>2, <3>1, <3>2
    <2>2. CASE ~ (low > start)
      <3>1. start - low \in Nat /\ low <= start /\ start <= UINT_MAX
        BY <1>2, <1>3, <2>2
      <3>2. Minus(start, low) = start - low
        BY <1>2, <1>3, <3>1, Arithmetic
      <3>3. size + (start - low) <= UINT_MAX /\ size + (start - low) = end - low
        BY <1>2, <1>3
      <3>4. Plus(size, start - low) = end - low
        BY <1>2, <3>1, <3>3, Arithmetic
      <3>5. s = low /\ z = end - low
        BY <1>1, <1>4, <1>6, <2>2, <3>2, <3>4
      <3>6. QED
        BY <1>2, <1>3, <1>5, <3>1, <3>5
    <2>3. QED
      BY <2>1, <2>2
  <1>8. /\ Good(n.a)
        /\ \A x \in Int : Has(n.a.m_array, x) <=> Has(m, x) /\ ~ In(m[i], x)
    BY <1>2, <1>3, <1>4, RemoveGood
  <1>9. AddGood(n)
    BY <1>2, <1>4, <1>6, <1>7, <1>8 DEF AddGood
  <1>10. Len(n.a.m_array) < MaxValidSize
    <2>1. Len(m) \in Nat /\ Len(m) <= MaxValidSize /\ MaxValidSize \in Nat
      BY <1>2, GoodIs, IntervalAssumption
    <2>2. QED
      BY <1>4, <2>1
  <1>11. Blocks(n.a) \union Span(s, z) = Blocks(c.a) \union Span(start, size)
    <2>1. \A x : x \in Blocks(n.a) <=> x \in Nat /\ Has(n.a.m_array, x)
      BY <1>8, GoodIs, BlocksAre
    <2>2. \A x : x \in Blocks(c.a) <=> x \in Nat /\ Has(m, x)
      BY <1>2, GoodIs, BlocksAre
    <2>3. /\ \A x : x \in Span(start, size) <=> x \in Nat /\ start <= x /\ x < end
          /\ \A x : x \in Span(s, z) <=> x \in Nat /\ s <= x /\ x < end
      BY <1>2, <1>7 DEF Span
    <2>4. \A x \in Int : In(m[i], x) <=> low <= x /\ x < high
      BY <1>1 DEF In
    <2>5. \A x \in Int : In(m[i], x) => Has(m, x)
      BY <1>3 DEF Has
    <2>6. \A x \in Nat : /\ low <= x /\ x < high => s <= x /\ x < end
                         /\ start <= x /\ x < end => s <= x /\ x < end
                         /\ s <= x /\ x < end => (low <= x /\ x < high) \/ (start <= x /\ x < end)
      BY <1>2, <1>3, <1>5, <1>7
    <2> HIDE DEF m
    <2>7. ASSUME NEW x \in Nat
          PROVE  x \in Blocks(n.a) \union Span(s, z) <=> x \in Blocks(c.a) \union Span(start, size)
      BY <1>8, <2>1, <2>2, <2>3, <2>4, <2>5, <2>6
    <2>8. \A x : /\ x \in Blocks(n.a) \union Span(s, z) => x \in Nat
                 /\ x \in Blocks(c.a) \union Span(start, size) => x \in Nat
      BY <2>1, <2>2, <2>3
    <2>9. QED
      BY <2>7, <2>8
  <1>12. QED
    BY <1>1, <1>6, <1>9, <1>10, <1>11 DEF n

\* AddInterval is union.
LEMMA AddIs ==
    ASSUME Overlap = "move", NEW c, AddGood(c)
    PROVE  AddSpec(c, Added[c])
  <1> DEFINE P == {d \in Calls : AddGood(d) => AddSpec(d, Added[d])}
  <1>1. ASSUME NEW d \in Calls \ AddCalls
        PROVE  d \in P
    <2>1. ~ AddsAgain(d)
      BY DEF AddCalls
    <2>2. Added[d] = AddReturns(d)
      BY <2>1, AddedIs
    <2>3. QED
      BY <2>1, <2>2, AddReturnsUnion
  <1>2. ASSUME NEW d \in AddCalls, AddNext[d] \in P
        PROVE  d \in P
    <2>1. d \in Calls /\ AddsAgain(d)
      BY DEF AddCalls
    <2>2. AddNext[d] = NextAdd(d)
      BY <2>1 DEF AddNext
    <2>3. Added[d] = Added[NextAdd(d)]
      BY <2>1, AddedIs
    <2>4. AddGood(NextAdd(d)) => AddSpec(NextAdd(d), Added[NextAdd(d)])
      BY <1>2, <2>2
    <2>5. ASSUME AddGood(d)
          PROVE  AddSpec(d, Added[d])
      <3>1. /\ AddGood(NextAdd(d))
            /\ Len(NextAdd(d).a.m_array) < MaxValidSize
            /\ Blocks(NextAdd(d).a) \union Span(NextAdd(d).start, NextAdd(d).size)
                = Blocks(d.a) \union Span(d.start, d.size)
        BY <2>1, <2>5, AddAgainKeeps
      <3>2. Len(NextAdd(d).a.m_array) # MaxValidSize
        BY <3>1, GoodIs, IntervalAssumption DEF AddGood
      <3>3. QED
        BY <2>3, <2>4, <3>1, <3>2 DEF AddSpec
    <2>6. QED
      BY <2>1, <2>5
  <1>3. Inherited(P, Calls, AddCalls, AddNext)
    <2> HIDE DEF P
    <2>1. QED
      BY <1>1, <1>2 DEF Inherited
  <1>4. Calls \subseteq P
    <2> HIDE DEF P
    <2>1. QED
      BY <1>3, AddTerminates, TailInduction
  <1>5. QED
    BY <1>4 DEF AddGood

-----------------------------------------------------------------------------
(* DelInterval.                                                            *)

DelCalls == {c \in Calls : DelsAgain(c)}
DelNext == [c \in Calls |-> IF DelsAgain(c) THEN NextDel(c) ELSE c]

\* How many intervals there are from the first one on that lies behind start.
DelSize == [c \in Calls |->
    IF Past(c.a.m_array, c.start) = {} THEN 0
    ELSE Len(c.a.m_array) + 1 - Min(Past(c.a.m_array, c.start))]

LEMMA PutIs ==
    ASSUME NEW a \in Arrays, NEW i \in DOMAIN a.m_array, NEW new \in BlockInterval
    PROVE  /\ Put(a, i, new) \in Arrays
           /\ Len(Put(a, i, new).m_array) = Len(a.m_array)
           /\ Put(a, i, new).m_array[i] = new
           /\ \A k \in DOMAIN a.m_array : k # i => Put(a, i, new).m_array[k] = a.m_array[k]
           /\ Put(a, i, new).m_totalsize = a.m_totalsize
  <1>1. a.m_array \in Seq(BlockInterval)
    BY ArrayIs
  <1>2. /\ Len([a.m_array EXCEPT ![i] = new]) = Len(a.m_array)
        /\ [a.m_array EXCEPT ![i] = new][i] = new
        /\ \A k \in DOMAIN a.m_array : k # i => [a.m_array EXCEPT ![i] = new][k] = a.m_array[k]
    BY <1>1
  <1>3. QED
    BY <1>2, ReplaceIs DEF Put

LEMMA CutIs ==
    ASSUME NEW a \in Arrays, NEW i \in DOMAIN a.m_array, NEW start
    PROVE  Cut(a, i, start)
            = Put(a, i, Interval(a.m_array[i].start, Minus(start, a.m_array[i].start)))
  BY DEF Cut, Put

\* The size is no greater than the number of intervals behind those known to lie
\* before start.
LEMMA DelSizeIs ==
    ASSUME NEW c \in Calls, NEW j \in 0 .. Len(c.a.m_array),
           \A k \in DOMAIN c.a.m_array : k <= j => k \notin Past(c.a.m_array, c.start)
    PROVE  DelSize[c] \in Nat /\ DelSize[c] <= Len(c.a.m_array) - j
  <1> DEFINE m == c.a.m_array
             T == Past(c.a.m_array, c.start)
  <1>1. m \in Seq(BlockInterval) /\ Len(m) \in Nat /\ DOMAIN m = 1 .. Len(m)
    BY CallIs, ArrayIs
  <1>2. T \in SUBSET (DOMAIN m)
    BY DEF Past
  <1>3. DelSize[c] = IF T = {} THEN 0 ELSE Len(m) + 1 - Min(T)
    BY DEF DelSize
  <1>4. CASE T = {}
    BY <1>1, <1>3, <1>4
  <1>5. CASE T # {}
    <2>1. Min(T) \in T /\ Min(T) \in DOMAIN m /\ Min(T) \in Nat /\ Min(T) <= Len(m)
      <3> HIDE DEF m, T
      <3>1. QED
        BY ONLY <1>1, <1>2, <1>5, FirstOf
    <2>2. ~ (Min(T) <= j)
      BY <2>1
    <2> HIDE DEF T, m
    <2>3. QED
      BY <1>1, <1>3, <1>5, <2>1, <2>2 DEF m
  <1>6. QED
    BY <1>4, <1>5

LEMMA DelSizeNat == \A c \in Calls : DelSize[c] \in Nat
  <1>1. ASSUME NEW c \in Calls
        PROVE  DelSize[c] \in Nat
    <2>1. Len(c.a.m_array) \in Nat /\ DOMAIN c.a.m_array = 1 .. Len(c.a.m_array)
      BY CallIs, ArrayIs
    <2>2. /\ 0 \in 0 .. Len(c.a.m_array)
          /\ \A k \in DOMAIN c.a.m_array : k <= 0 => k \notin Past(c.a.m_array, c.start)
      BY <2>1
    <2>3. QED
      BY <2>2, DelSizeIs
  <1>2. QED
    BY <1>1

\* DelInterval calls itself with fewer intervals behind start.
LEMMA NextDelIs ==
    ASSUME NEW c \in Calls, DelsAgain(c),
           NEW i, i = Min(Past(c.a.m_array, c.start))
    PROVE  /\ i \in DOMAIN c.a.m_array
           /\ NextDel(c) \in Calls
           /\ NextDel(c).a = IF c.a.m_array[i].start > c.start THEN SafeDelete(c.a, i)
                             ELSE Put(c.a, i, Interval(c.a.m_array[i].start,
                                              c.start - c.a.m_array[i].start))
           /\ NextDel(c).start = c.start /\ NextDel(c).size = c.size
           /\ ~ (c.a.m_array[i].start > c.start) => c.a.m_array[i].start < c.start
           /\ DelSize[NextDel(c)] < DelSize[c]
  <1> DEFINE m == c.a.m_array
             T == Past(c.a.m_array, c.start)
             n == NextDel(c)
             new == Interval(m[i].start, c.start - m[i].start)
  <1>1. /\ c.a \in Arrays /\ c.start \in Ids /\ c.size \in Ids
        /\ m \in Seq(BlockInterval) /\ Len(m) \in Nat /\ DOMAIN m = 1 .. Len(m)
    BY CallIs, ArrayIs
  <1>2. T \in SUBSET (DOMAIN m) /\ T # {}
    BY DEF DelsAgain, Past
  <1>3. /\ Min(T) \in T /\ Min(T) \in DOMAIN m /\ Min(T) \in Nat /\ Min(T) >= 1
        /\ Min(T) <= Len(m) /\ \A j \in DOMAIN m : j < Min(T) => j \notin T
    <2> HIDE DEF m, T
    <2>1. QED
      BY ONLY <1>1, <1>2, FirstOf
  <1>4. DelSize[c] = Len(m) + 1 - i
    BY <1>2 DEF DelSize
  <1>5. m[i].start \in Nat /\ c.start \in Nat /\ UINT_MAX \in Nat /\ c.start <= UINT_MAX
    BY <1>1, <1>3, Elements, IntervalAssumption DEF Ids
  <1>6. CASE m[i].start > c.start
    <2>1. n = Call(SafeDelete(c.a, i), c.start, c.size)
      BY <1>6 DEF NextDel
    <2>2. /\ SafeDelete(c.a, i) \in Arrays
          /\ SafeDelete(c.a, i).m_array = RemoveAt(m, i)
      BY <1>1, <1>3, SafeDeleteIs
    <2>3. n \in Calls /\ n.a = SafeDelete(c.a, i) /\ n.start = c.start /\ n.size = c.size
      BY <1>1, <2>1, <2>2, CallIs
    <2>r. /\ Len(RemoveAt(m, i)) = Len(m) - 1
          /\ \A k \in 1 .. Len(m) - 1 : RemoveAt(m, i)[k] = IF k < i THEN m[k] ELSE m[k + 1]
      <3>1. i \in DOMAIN m
        BY <1>3
      <3> HIDE DEF m
      <3>2. QED
        BY <1>1, <3>1, Removed
    <2>4. Len(n.a.m_array) = Len(m) - 1
      BY <2>2, <2>3, <2>r
    <2>5. i - 1 \in 0 .. Len(n.a.m_array)
      BY <1>1, <1>3, <2>4
    <2>6. ASSUME NEW k \in DOMAIN n.a.m_array, k <= i - 1
          PROVE  k \notin Past(n.a.m_array, n.start)
      <3>1. k \in 1 .. Len(m) - 1 /\ k < i /\ k \in DOMAIN m
        <4>1. DOMAIN n.a.m_array = 1 .. Len(n.a.m_array)
          BY <2>3, CallIs, ArrayIs
        <4>2. QED
          BY <1>1, <1>3, <2>4, <2>6, <4>1
      <3>2. n.a.m_array[k] = m[k]
        BY <2>2, <2>3, <2>r, <3>1
      <3>3. k \notin T
        BY <1>3, <3>1
      <3>4. QED
        BY <2>3, <3>1, <3>2, <3>3 DEF Past
    <2>7. DelSize[n] \in Nat /\ DelSize[n] <= Len(n.a.m_array) - (i - 1)
      <3> HIDE DEF n
      <3>1. QED
        BY <2>3, <2>5, <2>6, DelSizeIs
    <2>8. DelSize[n] < DelSize[c]
      <3> HIDE DEF n
      <3>1. QED
        BY <1>1, <1>3, <1>4, <2>4, <2>7
    <2>9. QED
      BY <1>3, <1>6, <2>3, <2>8
  <1>7. CASE ~ (m[i].start > c.start)
    <2>1. m[i].start < c.start
      <3>1. m[i].start # c.start
        BY DEF DelsAgain
      <3>2. QED
        BY <1>5, <1>7, <3>1
    <2>2. Minus(c.start, m[i].start) = c.start - m[i].start
      BY <1>5, <2>1, Arithmetic
    <2>3. c.start - m[i].start \in Ids /\ m[i].start \in Ids /\ c.start - m[i].start \in Nat
      BY <1>5, <2>1 DEF Ids
    <2>4. /\ new \in BlockInterval /\ new.start = m[i].start
          /\ new.size = c.start - m[i].start
      BY <2>3, IntervalIs
    <2>5. n = Call(Put(c.a, i, new), c.start, c.size)
      BY <1>1, <1>3, <1>7, <2>2, CutIs DEF NextDel
    <2>6. End(new) = c.start
      <3>1. m[i].start + (c.start - m[i].start) = c.start
        BY <1>5
      <3>2. Plus(m[i].start, c.start - m[i].start) = c.start
        BY <1>5, <2>3, <3>1, Arithmetic
      <3>3. QED
        BY <2>4, <3>2 DEF End
    <2> HIDE DEF new
    <2>7. /\ Put(c.a, i, new) \in Arrays
          /\ Len(Put(c.a, i, new).m_array) = Len(m)
          /\ Put(c.a, i, new).m_array[i] = new
          /\ \A k \in DOMAIN m : k # i => Put(c.a, i, new).m_array[k] = m[k]
      BY <1>1, <1>3, <2>4, PutIs
    <2>8. n \in Calls /\ n.a = Put(c.a, i, new) /\ n.start = c.start /\ n.size = c.size
      BY <1>1, <2>5, <2>7, CallIs
    <2>9. i \in 0 .. Len(n.a.m_array) /\ DOMAIN n.a.m_array = DOMAIN m
      <3>1. Len(n.a.m_array) = Len(m) /\ DOMAIN n.a.m_array = 1 .. Len(n.a.m_array)
        BY <2>7, <2>8, CallIs, ArrayIs
      <3>2. QED
        BY <1>1, <1>3, <3>1
    <2>10. ASSUME NEW k \in DOMAIN n.a.m_array, k <= i
           PROVE  k \notin Past(n.a.m_array, n.start)
      <3>1. k \in DOMAIN m /\ (k = i \/ k < i)
        BY <1>1, <1>3, <2>9, <2>10
      <3>2. CASE k = i
        <4>1. n.a.m_array[k] = new
          BY <2>7, <2>8, <3>2
        <4>2. ~ (new.start > c.start) /\ ~ (End(new) > c.start)
          BY <1>5, <1>7, <2>4, <2>6
        <4>3. QED
          BY <2>8, <4>1, <4>2 DEF Past
      <3>3. CASE k < i
        <4>1. k \notin T /\ k # i
          BY <1>3, <3>1, <3>3
        <4>2. n.a.m_array[k] = m[k]
          BY <2>7, <2>8, <3>1, <4>1
        <4>3. QED
          BY <2>8, <3>1, <4>1, <4>2 DEF Past
      <3>4. QED
        BY <3>1, <3>2, <3>3
    <2>11. DelSize[n] \in Nat /\ DelSize[n] <= Len(n.a.m_array) - i
      <3> HIDE DEF n
      <3>1. QED
        BY <2>8, <2>9, <2>10, DelSizeIs
    <2>12. DelSize[n] < DelSize[c]
      <3> HIDE DEF n
      <3>1. QED
        BY <1>1, <1>3, <1>4, <2>7, <2>8, <2>11
    <2>13. QED
      BY <1>3, <1>7, <2>1, <2>8, <2>12 DEF new
  <1>8. QED
    BY <1>6, <1>7

LEMMA DelTerminates == Terminates(Calls, DelCalls, DelNext, DelSize)
  <1>1. ASSUME NEW c \in Calls, DelsAgain(c)
        PROVE  NextDel(c) \in Calls /\ DelSize[NextDel(c)] < DelSize[c]
    BY <1>1, NextDelIs
  <1>2. DelNext \in [Calls -> Calls]
    BY <1>1 DEF DelNext
  <1>3. DelSize \in [Calls -> Nat]
    BY DelSizeNat DEF DelSize
  <1>4. \A c \in DelCalls : DelSize[DelNext[c]] < DelSize[c]
    BY <1>1 DEF DelCalls, DelNext
  <1>5. QED
    BY <1>2, <1>3, <1>4 DEF Terminates, DelCalls

\* The equation of DelInterval.
LEMMA DeletedIs ==
    \A c \in Calls : Deleted[c] = IF DelsAgain(c) THEN Deleted[NextDel(c)] ELSE DelReturns(c)
  <1> DEFINE last == [c \in Calls |-> DelReturns(c)]
             Right(f) == f = [c \in Calls |->
                                IF DelsAgain(c) THEN f[NextDel(c)] ELSE DelReturns(c)]
  <1>1. PICK f : f = [c \in Calls |-> IF c \in DelCalls THEN f[DelNext[c]] ELSE last[c]]
    <2> HIDE DEF last
    <2>1. QED
      BY DelTerminates, TailRecursion
  <1>2. \A c \in Calls : /\ c \in DelCalls <=> DelsAgain(c)
                         /\ DelsAgain(c) => DelNext[c] = NextDel(c)
                         /\ last[c] = DelReturns(c)
    BY DEF DelCalls, DelNext
  <1>3. Right(f)
    <2> HIDE DEF last
    <2>1. QED
      BY <1>1, <1>2
  <1>4. Deleted = CHOOSE g : Right(g)
    BY DEF Deleted
  <1> HIDE DEF Right
  <1>5. Right(Deleted)
    BY <1>3, <1>4
  <1>6. QED
    BY <1>5 DEF Right

DelGood(c) == c \in Calls /\ Good(c.a) /\ c.size > 0 /\ c.start + c.size <= UINT_MAX

\* Of the numbers in old, r has no more than those but start, ...
NoMoreThan(r, old, start) == \A x \in Int : Has(r, x) => Has(old, x) /\ x # start

\* ... and no less than those that are not deleted.
NoLessThan(r, old, start, size) ==
    \A x \in Int : Has(old, x) /\ ~ (start <= x /\ x < start + size) => Has(r, x)

\* What DelInterval makes of the arguments of c.
DelSpec(c, r) ==
    /\ Good(r)
    /\ NoMoreThan(r.m_array, c.a.m_array, c.start)
    /\ Len(c.a.m_array) < MaxValidSize => NoLessThan(r.m_array, c.a.m_array, c.start, c.size)

\* Interval i goes from low to high, and what lies from l to h in it is left.
Shrinks(a, i, low, high, l, h) ==
    /\ Good(a) /\ i \in DOMAIN a.m_array
    /\ low \in Nat /\ low = a.m_array[i].start
    /\ high \in Nat /\ high = a.m_array[i].start + a.m_array[i].size
    /\ l \in Nat /\ h \in Nat /\ low <= l /\ l < h /\ h <= high

LEMMA ShrinkGood ==
    ASSUME NEW a, NEW i, NEW low, NEW high, NEW l, NEW h, Shrinks(a, i, low, high, l, h)
    PROVE  /\ Good(Put(a, i, Interval(l, h - l)))
           /\ \A x \in Int : Has(Put(a, i, Interval(l, h - l)).m_array, x)
                <=> Has(a.m_array, x) /\ ~ (low <= x /\ x < l) /\ ~ (h <= x /\ x < high)
           /\ Len(Put(a, i, Interval(l, h - l)).m_array) = Len(a.m_array)
           /\ Put(a, i, Interval(l, h - l)).m_array[i].start = l
           /\ Put(a, i, Interval(l, h - l)).m_array[i].size = h - l
           /\ \A k \in DOMAIN a.m_array :
                k # i => Put(a, i, Interval(l, h - l)).m_array[k] = a.m_array[k]
  <1> USE DEF Shrinks
  <1> DEFINE new == Interval(l, h - l)
             r == [a EXCEPT !.m_array[i] = new]
             m == a.m_array
  <1>1. /\ Good(a) /\ a \in Arrays /\ m \in Seq(BlockInterval) /\ Verify(m) /\ Len(m) \in Nat
        /\ DOMAIN m = 1 .. Len(m) /\ i \in DOMAIN m /\ i \in Nat /\ i >= 1 /\ i <= Len(m)
    <2>1. DOMAIN m = 1 .. Len(m) /\ Len(m) \in Nat
      BY GoodIs
    <2>2. QED
      BY <2>1, GoodIs
  <1>2. high <= UINT_MAX /\ UINT_MAX \in Nat
    BY <1>1, Apart, IntervalAssumption
  <1>3. l \in Ids /\ h - l \in Ids
    <2>1. l <= UINT_MAX /\ h - l \in Nat /\ h - l <= UINT_MAX
      BY <1>2
    <2>2. QED
      BY <1>2, <2>1 DEF Ids
  <1>4. new \in BlockInterval /\ new.start = l /\ new.size = h - l
    BY <1>3, IntervalIs
  <1> HIDE DEF new
  <1>5. new.size > 0 /\ new.start + new.size = h /\ h <= UINT_MAX
    BY <1>2, <1>4
  <1>6. i > 1 => m[i - 1].start + m[i - 1].size < new.start
    <2>1. i > 1 => i - 1 \in DOMAIN m /\ i - 1 < i
      BY <1>1
    <2>2. i > 1 => m[i - 1].start + m[i - 1].size < low
      BY <1>1, <2>1, Apart
    <2>3. i > 1 => m[i - 1].start \in Nat /\ m[i - 1].size \in Nat
      BY <1>1, <2>1, Elements
    <2> HIDE DEF m
    <2>4. QED
      BY <1>4, <2>2, <2>3
  <1>7. i < Len(m) => new.start + new.size < m[i + 1].start
    <2>1. i < Len(m) => i + 1 \in DOMAIN m /\ i < i + 1
      BY <1>1
    <2>2. i < Len(m) => high < m[i + 1].start
      BY <1>1, <2>1, Apart
    <2>3. i < Len(m) => m[i + 1].start \in Nat
      BY <1>1, <2>1, Elements
    <2> HIDE DEF m
    <2>4. QED
      BY <1>5, <2>2, <2>3
  <1>8. /\ Good(r)
        /\ \A x \in Int : Has(r.m_array, x) <=> (Has(m, x) /\ ~ In(m[i], x)) \/ In(new, x)
    BY <1>1, <1>4, <1>5, <1>6, <1>7, ReplaceGood
  <1>9. r = Put(a, i, new)
    BY DEF Put
  <1> HIDE DEF r
  <1>10. ASSUME NEW x \in Int
         PROVE  Has(r.m_array, x) <=> Has(m, x) /\ ~ (low <= x /\ x < l) /\ ~ (h <= x /\ x < high)
    <2>1. In(m[i], x) <=> low <= x /\ x < high
      BY DEF In
    <2>2. In(new, x) <=> l <= x /\ x < h
      BY <1>4, <1>5 DEF In
    <2>3. In(m[i], x) => Has(m, x)
      BY <1>1 DEF Has
    <2>4. /\ l <= x /\ x < h => low <= x /\ x < high /\ ~ (low <= x /\ x < l) /\ ~ (h <= x /\ x < high)
          /\ low <= x /\ x < high => (low <= x /\ x < l) \/ (l <= x /\ x < h) \/ (h <= x /\ x < high)
          /\ low <= x /\ x < l => low <= x /\ x < high
          /\ h <= x /\ x < high => low <= x /\ x < high
      OBVIOUS
    <2> HIDE DEF m
    <2>5. QED
      BY <1>8, <2>1, <2>2, <2>3, <2>4
  <1>11. /\ Len(r.m_array) = Len(m) /\ r.m_array[i] = new
         /\ \A k \in DOMAIN m : k # i => r.m_array[k] = m[k]
    BY <1>1, <1>4, <1>9, PutIs
  <1>12. QED
    BY <1>4, <1>8, <1>9, <1>10, <1>11 DEF new

\* The first interval that reaches past start, and how it lies to its neighbours.
LEMMA DelFound ==
    ASSUME NEW c, DelGood(c)
    PROVE  /\ \A k \in DOMAIN c.a.m_array :
                k \in Past(c.a.m_array, c.start)
                    <=> c.a.m_array[k].start + c.a.m_array[k].size > c.start
           /\ Past(c.a.m_array, c.start) # {} =>
                \A i : i = Min(Past(c.a.m_array, c.start)) =>
                    /\ i \in DOMAIN c.a.m_array /\ i \in Nat /\ i >= 1
                    /\ i <= Len(c.a.m_array)
                    /\ i \in Past(c.a.m_array, c.start)
                    /\ \A j \in DOMAIN c.a.m_array :
                            j < i => j \notin Past(c.a.m_array, c.start)
                    /\ c.a.m_array[i].start \in Nat /\ c.a.m_array[i].size \in Nat
                    /\ c.a.m_array[i].size > 0
                    /\ c.a.m_array[i].start + c.a.m_array[i].size <= UINT_MAX
                    /\ End(c.a.m_array[i]) = c.a.m_array[i].start + c.a.m_array[i].size
  <1> DEFINE m == c.a.m_array
             T == Past(c.a.m_array, c.start)
  <1>1. /\ m \in Seq(BlockInterval) /\ Verify(m) /\ Len(m) \in Nat /\ DOMAIN m = 1 .. Len(m)
        /\ c.start \in Nat
    BY GoodIs, CallIs, IntervalAssumption DEF DelGood, Ids
  <1>2. ASSUME NEW k \in DOMAIN m
        PROVE  k \in T <=> m[k].start + m[k].size > c.start
    <2>1. End(m[k]) = m[k].start + m[k].size /\ m[k].start \in Nat /\ m[k].size \in Nat
      BY <1>1, Apart, Elements
    <2>2. m[k].start > c.start => m[k].start + m[k].size > c.start
      BY <1>1, <2>1
    <2>3. QED
      BY <2>1, <2>2 DEF Past
  <1>3. T \in SUBSET (DOMAIN m)
    BY DEF Past
  <1>4. T # {} =>
            /\ Min(T) \in T /\ Min(T) \in DOMAIN m /\ Min(T) \in Nat /\ Min(T) >= 1
            /\ Min(T) <= Len(m) /\ \A j \in DOMAIN m : j < Min(T) => j \notin T
    <2> HIDE DEF m, T
    <2>1. QED
      BY ONLY <1>1, <1>3, FirstOf
  <1>5. ASSUME NEW i \in DOMAIN m
        PROVE  /\ m[i].start \in Nat /\ m[i].size \in Nat /\ m[i].size > 0
               /\ m[i].start + m[i].size <= UINT_MAX /\ End(m[i]) = m[i].start + m[i].size
    BY <1>1, Elements, Apart
  <1> HIDE DEF m, T
  <1>6. QED
    BY <1>2, <1>4, <1>5 DEF m, T

\* Interval i, which goes from low to high, is the first in T and reaches past start.
FoundAt(m, T, i, low, high, start) ==
    /\ i \in DOMAIN m /\ i \in Nat /\ i >= 1 /\ i <= Len(m) /\ i \in T
    /\ \A j \in DOMAIN m : j < i => j \notin T
    /\ low \in Nat /\ high \in Nat /\ low < high /\ high <= UINT_MAX
    /\ m[i].size = high - low /\ End(m[i]) = high /\ start < high

LEMMA DelFoundAt ==
    ASSUME NEW c, DelGood(c), Past(c.a.m_array, c.start) # {},
           NEW i, i = Min(Past(c.a.m_array, c.start)),
           NEW low, low = c.a.m_array[i].start,
           NEW high, high = c.a.m_array[i].start + c.a.m_array[i].size
    PROVE  FoundAt(c.a.m_array, Past(c.a.m_array, c.start), i, low, high, c.start)
  <1>0. /\ i \in DOMAIN c.a.m_array /\ i \in Nat /\ i >= 1 /\ i <= Len(c.a.m_array)
        /\ i \in Past(c.a.m_array, c.start)
        /\ \A j \in DOMAIN c.a.m_array : j < i => j \notin Past(c.a.m_array, c.start)
    BY DelFound
  <1>1. /\ i \in DOMAIN c.a.m_array
        /\ c.a.m_array[i].start \in Nat /\ c.a.m_array[i].size \in Nat
        /\ c.a.m_array[i].size > 0
        /\ c.a.m_array[i].start + c.a.m_array[i].size <= UINT_MAX
        /\ End(c.a.m_array[i]) = c.a.m_array[i].start + c.a.m_array[i].size
    BY DelFound
  <1>2. c.a.m_array[i].start + c.a.m_array[i].size > c.start
    BY <1>1, DelFound
  <1>3. c.start \in Nat
    BY CallIs, IntervalAssumption DEF DelGood, Ids
  <1>4. /\ low \in Nat /\ high \in Nat /\ low < high
        /\ c.a.m_array[i].size = high - low
    <2>1. low = c.a.m_array[i].start /\ high = c.a.m_array[i].start + c.a.m_array[i].size
      OBVIOUS
    <2>2. QED
      BY ONLY <1>1, <2>1
  <1>5. c.start < high /\ high <= UINT_MAX /\ End(c.a.m_array[i]) = high
    BY <1>1, <1>2, <1>3, <1>4
  <1>6. QED
    BY <1>0, <1>4, <1>5 DEF FoundAt

\* No interval of the array has start in it, when the first to reach past start
\* begins behind it, or there is none.
LEMMA StartIsNotIn ==
    ASSUME NEW c, DelGood(c),
           \A k \in Past(c.a.m_array, c.start) : c.a.m_array[k].start > c.start
    PROVE  ~ Has(c.a.m_array, c.start)
  <1>1. ASSUME NEW k \in DOMAIN c.a.m_array, In(c.a.m_array[k], c.start)
        PROVE  FALSE
    <2>1. /\ c.a.m_array[k].start \in Nat /\ c.a.m_array[k].size \in Nat /\ c.start \in Nat
      BY GoodIs, Elements, CallIs, IntervalAssumption DEF DelGood, Ids
    <2>2. /\ c.a.m_array[k].start <= c.start
          /\ c.start < c.a.m_array[k].start + c.a.m_array[k].size
      BY <1>1 DEF In
    <2>3. k \in Past(c.a.m_array, c.start)
      BY <2>1, <2>2, DelFound
    <2>4. QED
      BY <2>1, <2>2, <2>3
  <1>2. QED
    BY <1>1 DEF Has

\* DelInterval returns an array without the first number, and without no other
\* number than the deleted ones.
LEMMA DelReturnsRight ==
    ASSUME Overlap = "move", NEW c, DelGood(c), ~ DelsAgain(c)
    PROVE  DelSpec(c, DelReturns(c))
  <1> DEFINE a == c.a
             m == c.a.m_array
             T == Past(c.a.m_array, c.start)
  <1>1. PICK start, size, end, i, low, high :
            /\ start = c.start /\ size = c.size /\ end = c.start + c.size /\ i = Min(T)
            /\ low = m[i].start /\ high = m[i].start + m[i].size
    OBVIOUS
  <1>2. /\ Good(a) /\ end <= UINT_MAX /\ start \in Nat /\ size \in Nat /\ UINT_MAX \in Nat
        /\ end = start + size /\ end \in Nat /\ Plus(c.start, c.size) = end
        /\ size > 0 /\ start < end
    <2>1. /\ c \in Calls /\ Good(a) /\ size > 0 /\ end <= UINT_MAX /\ UINT_MAX \in Nat
          /\ end = start + size
      BY <1>1, IntervalAssumption DEF DelGood
    <2>2. start \in Nat /\ size \in Nat
      BY <1>1, <2>1, CallIs DEF Ids
    <2>3. Plus(start, size) = end
      BY <2>1, <2>2, Arithmetic
    <2>4. QED
      BY <1>1, <2>1, <2>2, <2>3
  <1>3. CASE T = {}
    <2>1. DelReturns(c) = a
      BY <1>3 DEF DelReturns
    <2>2. ~ Has(m, start)
      BY <1>1, <1>3, StartIsNotIn
    <2>3. QED
      BY <1>1, <1>2, <2>1, <2>2 DEF DelSpec, NoMoreThan, NoLessThan
  <1>4. CASE T # {}
    <2>1. /\ i \in DOMAIN m /\ i \in Nat /\ i >= 1 /\ i <= Len(m) /\ i \in T
          /\ \A j \in DOMAIN m : j < i => j \notin T
          /\ low \in Nat /\ high \in Nat /\ low < high /\ high <= UINT_MAX
          /\ m[i].size = high - low /\ End(m[i]) = high /\ start < high
      <3>1. FoundAt(m, T, i, low, high, c.start)
        BY <1>1, <1>4, DelFoundAt
      <3> HIDE DEF m, T
      <3>2. QED
        BY ONLY <1>1, <3>1 DEF FoundAt
    <2>2. /\ m \in Seq(BlockInterval) /\ Verify(m)
          /\ Len(m) \in Nat /\ DOMAIN m = 1 .. Len(m)
      BY <1>2, GoodIs
    <2>3. \A x \in Int : In(m[i], x) <=> low <= x /\ x < high
      BY <1>1 DEF In
    <2>a. ASSUME NEW l \in Nat, NEW h \in Nat, low <= l, l < h, h <= high
          PROVE  Shrinks(a, i, low, high, l, h)
      <3>1. low = a.m_array[i].start /\ high = a.m_array[i].start + a.m_array[i].size
        BY <1>1
      <3>2. Good(a) /\ i \in DOMAIN a.m_array /\ low \in Nat /\ high \in Nat
        BY <1>2, <2>1
      <3> HIDE DEF a
      <3>3. QED
        BY ONLY <2>a, <3>1, <3>2 DEF Shrinks
    <2>4. low > start => ~ Has(m, start)
      <3>1. ASSUME low > start, NEW k \in T
            PROVE  m[k].start > start
        <4>1. k \in DOMAIN m /\ m[k].start \in Nat /\ k \in Nat
          BY <2>2, Elements DEF Past
        <4>2. k = i \/ i < k
          BY <2>1, <4>1
        <4>3. i < k => m[i].start + m[i].size < m[k].start
          BY <2>1, <2>2, <4>1, Apart
        <4>4. high \in Nat /\ low \in Nat /\ start \in Nat /\ low < high
          BY <1>2, <2>1
        <4>5. QED
          BY <1>1, <3>1, <4>1, <4>2, <4>3, <4>4
      <3>2. QED
        BY <1>1, <3>1, StartIsNotIn
    <2>5. CASE low > start /\ low > end
      <3>1. DelReturns(c) = a
        BY <1>1, <1>2, <1>4, <2>5 DEF DelReturns, DelBefore
      <3>2. QED
        BY <1>1, <1>2, <2>4, <2>5, <3>1 DEF DelSpec, NoMoreThan, NoLessThan
    <2>6. CASE low > start /\ ~ (low > end)
      <3>1. end < high /\ low <= end
        <4>1. T # {} /\ m[i].start # c.start /\ (m[i].start > c.start => m[i].start <= Plus(c.start, c.size))
          <5>1. low # start /\ low <= end
            BY <1>2, <2>1, <2>6
          <5>2. QED
            BY <1>1, <1>2, <1>4, <5>1
        <4>2. ~ (End(m[i]) <= Plus(c.start, c.size))
          BY <1>1, <4>1 DEF DelsAgain
        <4>3. QED
          BY <1>2, <2>1, <2>6, <4>2
      <3>2. Minus(End(m[i]), end) = high - end
        BY <1>2, <2>1, <3>1, Arithmetic
      <3> DEFINE r == Put(a, i, Interval(end, high - end))
      <3>3. DelReturns(c) = r
        <4>1. DelReturns(c) = [a EXCEPT !.m_array[i] = Interval(end, Minus(End(m[i]), end))]
          BY <1>1, <1>2, <1>4, <2>6 DEF DelReturns, DelBefore
        <4>2. QED
          BY <3>2, <4>1 DEF Put
      <3>4. Shrinks(a, i, low, high, end, high)
        <4>1. end \in Nat /\ high \in Nat /\ high <= high
          BY <1>2, <2>1
        <4>2. QED
          BY ONLY <2>a, <3>1, <4>1
      <3>5. /\ Good(r)
            /\ \A x \in Int : Has(r.m_array, x)
                <=> Has(m, x) /\ ~ (low <= x /\ x < end) /\ ~ (high <= x /\ x < high)
        BY <3>4, ShrinkGood
      <3> HIDE DEF r
      <3>6. \A x \in Int : low <= x /\ x < end => start <= x /\ x < start + size
        BY <1>2, <2>1, <2>6
      <3>7. NoMoreThan(r.m_array, m, start) /\ NoLessThan(r.m_array, m, start, size)
        BY <2>1, <2>4, <2>6, <3>5, <3>6 DEF NoMoreThan, NoLessThan
      <3>8. QED
        BY <1>1, <3>3, <3>5, <3>7 DEF DelSpec
    <2>7. CASE ~ (low > start) /\ high <= end
      <3>1. low = start
        <4>1. ~ (End(m[i]) <= Plus(c.start, c.size) /\ m[i].start # c.start
                    /\ (m[i].start > c.start => m[i].start <= Plus(c.start, c.size)))
          BY <1>1, <1>4 DEF DelsAgain
        <4>2. QED
          BY <1>1, <1>2, <2>1, <2>7, <4>1
      <3> DEFINE r == SafeDelete(a, i)
      <3>2. DelReturns(c) = r
        BY <1>1, <1>2, <1>4, <2>1, <2>7 DEF DelReturns, DelFrom
      <3>3. /\ Good(r)
            /\ \A x \in Int : Has(r.m_array, x) <=> Has(m, x) /\ ~ In(m[i], x)
        BY <1>2, <2>1, RemoveGood
      <3> HIDE DEF r
      <3>4. \A x \in Int : low <= x /\ x < high => start <= x /\ x < start + size
        BY <1>2, <2>1, <2>7, <3>1
      <3>5. low <= start /\ start < high
        BY <2>1, <3>1
      <3>6. NoMoreThan(r.m_array, m, start) /\ NoLessThan(r.m_array, m, start, size)
        BY <1>2, <2>3, <3>3, <3>4, <3>5 DEF NoMoreThan, NoLessThan
      <3>7. QED
        BY <1>1, <3>2, <3>3, <3>6 DEF DelSpec
    <2>8. CASE ~ (high <= end) /\ low = start
      <3>1. Minus(m[i].size, c.size) = high - end
        <4>1. /\ high - low \in Nat /\ high - low <= UINT_MAX /\ size <= high - low
              /\ (high - low) - size = high - end
          BY <1>2, <2>1, <2>8
        <4>2. Minus(high - low, size) = high - end
          BY <1>2, <4>1, Arithmetic
        <4>3. QED
          BY <1>1, <2>1, <4>2
      <3> DEFINE r == Put(a, i, Interval(end, high - end))
      <3>2. DelReturns(c) = r
        <4>1. ~ (low > start)
          BY <1>2, <2>8
        <4>2. DelReturns(c) = [a EXCEPT !.m_array[i] = Interval(end, Minus(m[i].size, c.size))]
          BY <1>1, <1>2, <1>4, <2>1, <2>8, <4>1 DEF DelReturns, DelFrom
        <4>3. QED
          BY <3>1, <4>2 DEF Put
      <3>3. Shrinks(a, i, low, high, end, high)
        <4>1. end \in Nat /\ high \in Nat /\ high <= high /\ low <= end /\ end < high
          BY <1>2, <2>1, <2>8
        <4>2. QED
          BY ONLY <2>a, <4>1
      <3>4. /\ Good(r)
            /\ \A x \in Int : Has(r.m_array, x)
                <=> Has(m, x) /\ ~ (low <= x /\ x < end) /\ ~ (high <= x /\ x < high)
        BY <3>3, ShrinkGood
      <3> HIDE DEF r
      <3>5. \A x \in Int : low <= x /\ x < end => start <= x /\ x < start + size
        BY <1>2, <2>1, <2>8
      <3>6. low <= start /\ start < end
        BY <1>2, <2>8
      <3>7. ASSUME NEW x \in Int
            PROVE  /\ Has(r.m_array, x) => Has(m, x) /\ x # start
                   /\ Has(m, x) /\ ~ (start <= x /\ x < start + size) => Has(r.m_array, x)
        <4>1. ~ (high <= x /\ x < high) /\ (x = start => low <= x /\ x < end)
          BY <1>2, <2>1, <2>8
        <4> HIDE DEF m
        <4>2. QED
          BY <3>4, <3>5, <4>1
      <3>8. NoMoreThan(r.m_array, m, start) /\ NoLessThan(r.m_array, m, start, size)
        BY <3>7 DEF NoMoreThan, NoLessThan
      <3>9. QED
        BY <1>1, <3>2, <3>4, <3>8 DEF DelSpec
    <2>9. CASE ~ (high <= end) /\ ~ (low > start) /\ low # start
      <3>1. low < start /\ end < high
        BY <1>2, <2>1, <2>9
      <3>2. Minus(high, end) = high - end /\ Minus(start, low) = start - low
        <4>1. end <= high /\ low <= start /\ start <= UINT_MAX
          BY <1>2, <2>1, <3>1
        <4>2. QED
          BY <1>2, <2>1, <4>1, Arithmetic
      <3> DEFINE b == Put(a, i, Interval(low, start - low))
                 r == SafeInsert(b, i + 1, end, high - end)
      <3>3. DelReturns(c) = r
        <4>1. Cut(a, i, start) = b
          <5>1. a \in Arrays /\ i \in DOMAIN a.m_array
            BY <1>2, <2>1, GoodIs
          <5>2. Cut(a, i, start)
                  = Put(a, i, Interval(a.m_array[i].start, Minus(start, a.m_array[i].start)))
            BY <5>1, CutIs
          <5>3. a.m_array[i].start = low
            BY <1>1
          <5>4. QED
            BY <3>2, <5>2, <5>3
        <4>2. DelReturns(c) = SafeInsert(Cut(a, i, start), i + 1, end, Minus(End(m[i]), end))
          BY <1>1, <1>2, <1>4, <2>1, <2>9 DEF DelReturns, DelFrom
        <4>3. QED
          BY <2>1, <3>2, <4>1, <4>2
      <3>4. Shrinks(a, i, low, high, low, start)
        <4>1. low \in Nat /\ start \in Nat /\ low <= low /\ low < start /\ start <= high
          BY <1>2, <2>1, <3>1
        <4>2. QED
          BY ONLY <2>a, <4>1
      <3>5. /\ Good(b) /\ Len(b.m_array) = Len(m)
            /\ b.m_array[i].start = low /\ b.m_array[i].size = start - low
            /\ \A k \in DOMAIN m : k # i => b.m_array[k] = m[k]
            /\ \A x \in Int : Has(b.m_array, x)
                <=> Has(m, x) /\ ~ (low <= x /\ x < low) /\ ~ (start <= x /\ x < high)
        BY <3>4, ShrinkGood
      <3>6. \A x \in Int : Has(b.m_array, x) <=> Has(m, x) /\ ~ (start <= x /\ x < high)
        BY <2>1, <3>5
      <3> HIDE DEF b
      <3>7. CASE Len(m) = MaxValidSize
        <4>1. r = b
          BY <3>5, <3>7 DEF SafeInsert
        <4>2. NoMoreThan(b.m_array, m, start)
          BY <1>2, <2>1, <3>6 DEF NoMoreThan
        <4>3. ~ (Len(m) < MaxValidSize)
          BY <2>2, <3>7
        <4>4. QED
          BY <1>1, <3>3, <3>5, <4>1, <4>2, <4>3 DEF DelSpec
      <3>8. CASE Len(m) # MaxValidSize
        <4>1. i + 1 <= Len(b.m_array) => end + (high - end) < b.m_array[i + 1].start
          <5>1. i + 1 <= Len(m) => i + 1 \in DOMAIN m /\ i < i + 1 /\ i + 1 # i
            BY <2>1, <2>2
          <5>2. i + 1 <= Len(m) => high < m[i + 1].start
            BY <1>1, <2>1, <2>2, <5>1, Apart
          <5>3. end + (high - end) = high
            BY <1>2, <2>1
          <5>4. QED
            BY <3>5, <5>1, <5>2, <5>3
        <4>2. b.m_array[i].start + b.m_array[i].size < end
          <5>1. low + (start - low) < end
            BY <1>2, <2>1
          <5>2. QED
            BY <3>5, <5>1
        <4>3. /\ end \in Ids /\ high - end \in Ids /\ high - end > 0
              /\ end + (high - end) <= UINT_MAX
          <5>1. /\ end <= UINT_MAX /\ high - end \in Nat /\ high - end <= UINT_MAX
                /\ end + (high - end) = high /\ high - end > 0
            BY <1>2, <2>1, <3>1
          <5>2. QED
            BY <1>2, <2>1, <5>1 DEF Ids
        <4>4. FitsAt(b, i + 1, end, high - end) /\ Len(b.m_array) # MaxValidSize
          <5>1. i + 1 \in 1 .. Len(b.m_array) + 1 /\ Len(b.m_array) # MaxValidSize
            BY <2>1, <2>2, <3>5, <3>8
          <5>2. end \in Nat /\ high - end \in Nat
            BY <1>2, <2>1, <3>1
          <5>3. QED
            <6>1. PICK j, z : j = i + 1 /\ z = high - end
              OBVIOUS
            <6>2. /\ j \in 1 .. Len(b.m_array) + 1 /\ z \in Nat /\ z > 0 /\ end + z <= UINT_MAX
                  /\ b.m_array[j - 1].start + b.m_array[j - 1].size < end
                  /\ j <= Len(b.m_array) => end + z < b.m_array[j].start
              <7>1. j \in 1 .. Len(b.m_array) + 1
                BY <5>1, <6>1
              <7>2. z \in Nat /\ z > 0 /\ end + z <= UINT_MAX
                BY <4>3, <5>2, <6>1
              <7>3. b.m_array[j - 1].start + b.m_array[j - 1].size < end
                <8>1. j - 1 = i
                  BY <2>1, <6>1
                <8>2. QED
                  BY <4>2, <8>1
              <7>4. j <= Len(b.m_array) => end + z < b.m_array[j].start
                BY <4>1, <6>1
              <7>5. QED
                BY <7>1, <7>2, <7>3, <7>4
            <6>3. FitsAt(b, j, end, z)
              BY ONLY <3>5, <5>2, <6>2 DEF FitsAt
            <6>4. QED
              BY <5>1, <6>1, <6>3
        <4>5. /\ Good(r)
              /\ \A x \in Int : Has(r.m_array, x)
                    <=> Has(b.m_array, x) \/ (end <= x /\ x < end + (high - end))
          BY <4>4, InsertNumbers
        <4> HIDE DEF r
        <4>6. ASSUME NEW x \in Int
              PROVE  /\ Has(r.m_array, x) => Has(m, x) /\ x # start
                     /\ Has(m, x) /\ ~ (start <= x /\ x < start + size) => Has(r.m_array, x)
          <5>1. end <= x /\ x < end + (high - end) <=> end <= x /\ x < high
            BY <1>2, <2>1
          <5>2. low <= x /\ x < high => Has(m, x)
            BY <2>1, <2>3 DEF Has
          <5>3. Has(r.m_array, x) <=> (Has(m, x) /\ ~ (start <= x /\ x < high))
                                        \/ (end <= x /\ x < high)
            BY <3>6, <4>5, <5>1
          <5>4. /\ end <= x /\ x < high => low <= x /\ x # start
                /\ x = start => start <= x /\ x < high
                /\ start <= x /\ x < high /\ ~ (start <= x /\ x < start + size) => end <= x
            BY <1>2, <2>1, <3>1
          <5> HIDE DEF m
          <5>5. QED
            BY <5>2, <5>3, <5>4
        <4>7. NoMoreThan(r.m_array, m, start) /\ NoLessThan(r.m_array, m, start, size)
          BY <4>6 DEF NoMoreThan, NoLessThan
        <4>8. QED
          BY <1>1, <3>3, <4>5, <4>7 DEF DelSpec
      <3>9. QED
        BY <3>7, <3>8
    <2>10. low > start \/ low = start \/ (~ (low > start) /\ low # start)
      OBVIOUS
    <2>11. low = start => ~ (low > start)
      BY <1>2
    <2>12. QED
      BY <2>5, <2>6, <2>7, <2>8, <2>9, <2>10, <2>11
  <1>5. QED
    BY <1>3, <1>4

\* When DelInterval calls itself, the next call has the blocks that are not to be
\* deleted, and the first of these is no more in it than it was.
LEMMA DelAgainKeeps ==
    ASSUME NEW c, DelGood(c), DelsAgain(c)
    PROVE  /\ DelGood(NextDel(c))
           /\ NextDel(c).start = c.start /\ NextDel(c).size = c.size
           /\ Len(NextDel(c).a.m_array) <= Len(c.a.m_array)
           /\ \A x \in Int : Has(NextDel(c).a.m_array, x) => Has(c.a.m_array, x)
           /\ NoLessThan(NextDel(c).a.m_array, c.a.m_array, c.start, c.size)
  <1> DEFINE m == c.a.m_array
             T == Past(c.a.m_array, c.start)
             n == NextDel(c)
  <1>1. PICK start, size, end, i, low, high :
            /\ start = c.start /\ size = c.size /\ end = c.start + c.size /\ i = Min(T)
            /\ low = m[i].start /\ high = m[i].start + m[i].size
    OBVIOUS
  <1>2. /\ c \in Calls /\ Good(c.a) /\ size > 0
        /\ end <= UINT_MAX /\ start \in Nat /\ size \in Nat /\ UINT_MAX \in Nat
        /\ end = start + size /\ end \in Nat /\ Plus(c.start, c.size) = end
    <2>1. c \in Calls /\ Good(c.a) /\ size > 0 /\ end <= UINT_MAX /\ UINT_MAX \in Nat
      BY <1>1, IntervalAssumption DEF DelGood
    <2>2. start \in Nat /\ size \in Nat
      BY <1>1, <2>1, CallIs DEF Ids
    <2>3. start + size <= UINT_MAX
      BY <1>1, <2>1
    <2>4. Plus(start, size) = end
      BY <1>1, <2>2, <2>3, Arithmetic
    <2>5. QED
      BY <1>1, <2>1, <2>2, <2>4
  <1>3. /\ i \in DOMAIN m /\ low \in Nat /\ high \in Nat /\ low < high /\ high <= UINT_MAX
        /\ End(m[i]) = high /\ high > start
    <2>1. T # {}
      BY DEF DelsAgain
    <2>2. FoundAt(m, T, i, low, high, c.start)
      BY <1>1, <2>1, DelFoundAt
    <2> HIDE DEF m, T
    <2>3. QED
      BY ONLY <1>1, <2>2 DEF FoundAt
  <1>4. /\ n \in Calls /\ n.start = start /\ n.size = size
        /\ n.a = IF low > start THEN SafeDelete(c.a, i)
                 ELSE Put(c.a, i, Interval(low, start - low))
        /\ ~ (low > start) => low < start
    BY <1>1, <1>2, NextDelIs
  <1>5. high <= end
    BY <1>1, <1>2, <1>3 DEF DelsAgain
  <1>6. Len(m) \in Nat
    BY <1>2, GoodIs
  <1>7. PICK r : r = n.a
    OBVIOUS
  <1>8. /\ Good(r) /\ Len(r.m_array) <= Len(m)
        /\ \A x \in Int : Has(r.m_array, x) => Has(m, x)
        /\ NoLessThan(r.m_array, m, start, size)
    <2>1. CASE low > start
      <3>1. r = SafeDelete(c.a, i)
        BY <1>4, <1>7, <2>1
      <3>2. /\ Good(r) /\ Len(r.m_array) = Len(m) - 1
            /\ \A x \in Int : Has(r.m_array, x) <=> Has(m, x) /\ ~ In(m[i], x)
        BY <1>2, <1>3, <3>1, RemoveGood
      <3>3. ASSUME NEW x \in Int, In(m[i], x)
            PROVE  start <= x /\ x < start + size
        <4>1. low <= x /\ x < high
          BY <1>1, <3>3 DEF In
        <4>2. QED
          BY <1>2, <1>3, <1>5, <2>1, <4>1
      <3>4. Len(r.m_array) <= Len(m)
        BY <1>6, <3>2
      <3> HIDE DEF m
      <3>5. QED
        BY <3>2, <3>3, <3>4 DEF NoLessThan
    <2>2. CASE ~ (low > start)
      <3>1. r = Put(c.a, i, Interval(low, start - low))
        BY <1>4, <1>7, <2>2
      <3>2. Shrinks(c.a, i, low, high, low, start)
        <4>1. Good(c.a) /\ i \in DOMAIN c.a.m_array /\ low \in Nat /\ high \in Nat
          BY <1>2, <1>3
        <4>2. low = c.a.m_array[i].start /\ high = c.a.m_array[i].start + c.a.m_array[i].size
          BY <1>1
        <4>3. start \in Nat /\ low <= low /\ low < start /\ start <= high
          BY <1>2, <1>3, <1>4, <2>2
        <4>4. QED
          BY ONLY <4>1, <4>2, <4>3 DEF Shrinks
      <3>3. /\ Good(r) /\ Len(r.m_array) = Len(m)
            /\ \A x \in Int : Has(r.m_array, x)
                <=> Has(m, x) /\ ~ (low <= x /\ x < low) /\ ~ (start <= x /\ x < high)
        <4> DEFINE p == Put(c.a, i, Interval(low, start - low))
        <4>1. /\ Good(p) /\ Len(p.m_array) = Len(c.a.m_array)
              /\ \A x \in Int : Has(p.m_array, x)
                  <=> Has(c.a.m_array, x) /\ ~ (low <= x /\ x < low) /\ ~ (start <= x /\ x < high)
          BY ONLY <3>2, ShrinkGood
        <4> HIDE DEF p
        <4>2. r = p
          BY <3>1 DEF p
        <4>3. QED
          BY ONLY <4>1, <4>2
      <3>4. \A x \in Int : ~ (low <= x /\ x < low)
        BY <1>3
      <3>5. \A x \in Int : start <= x /\ x < high => start <= x /\ x < start + size
        BY <1>2, <1>3, <1>5
      <3>6. Len(r.m_array) <= Len(m)
        BY <1>6, <3>3
      <3> HIDE DEF m
      <3>7. QED
        BY <3>3, <3>4, <3>5, <3>6 DEF NoLessThan
    <2>3. QED
      BY <2>1, <2>2
  <1>9. DelGood(n)
    <2> HIDE DEF n
    <2>1. QED
      BY <1>1, <1>2, <1>4, <1>7, <1>8 DEF DelGood
  <1>10. QED
    BY <1>1, <1>4, <1>7, <1>8, <1>9

\* DelInterval takes out nothing but the interval, and its first number at least.
LEMMA DelIs ==
    ASSUME Overlap = "move", NEW c, DelGood(c)
    PROVE  DelSpec(c, Deleted[c])
  <1> DEFINE P == {d \in Calls : DelGood(d) => DelSpec(d, Deleted[d])}
  <1>1. ASSUME NEW d \in Calls \ DelCalls
        PROVE  d \in P
    <2>1. ~ DelsAgain(d)
      BY DEF DelCalls
    <2>2. Deleted[d] = DelReturns(d)
      BY <2>1, DeletedIs
    <2>3. QED
      BY <2>1, <2>2, DelReturnsRight
  <1>2. ASSUME NEW d \in DelCalls, DelNext[d] \in P
        PROVE  d \in P
    <2>1. d \in Calls /\ DelsAgain(d)
      BY DEF DelCalls
    <2>2. DelNext[d] = NextDel(d)
      BY <2>1 DEF DelNext
    <2>3. Deleted[d] = Deleted[NextDel(d)]
      BY <2>1, DeletedIs
    <2>4. DelGood(NextDel(d)) => DelSpec(NextDel(d), Deleted[NextDel(d)])
      BY <1>2, <2>2
    <2>5. ASSUME DelGood(d)
          PROVE  DelSpec(d, Deleted[d])
      <3> DEFINE n == NextDel(d)
                 r == Deleted[d]
      <3>1. /\ DelGood(n) /\ n.start = d.start /\ n.size = d.size
            /\ Len(n.a.m_array) <= Len(d.a.m_array)
            /\ \A x \in Int : Has(n.a.m_array, x) => Has(d.a.m_array, x)
            /\ NoLessThan(n.a.m_array, d.a.m_array, d.start, d.size)
        BY <2>1, <2>5, DelAgainKeeps
      <3>2. DelSpec(n, r)
        BY <2>3, <2>4, <3>1
      <3>3. Len(n.a.m_array) \in Nat /\ Len(d.a.m_array) \in Nat /\ MaxValidSize \in Nat
        BY <2>5, <3>1, GoodIs, IntervalAssumption DEF DelGood
      <3>4. Len(d.a.m_array) < MaxValidSize => Len(n.a.m_array) < MaxValidSize
        BY <3>1, <3>3
      <3> HIDE DEF n, r
      <3>5. NoMoreThan(r.m_array, d.a.m_array, d.start)
        BY <3>1, <3>2 DEF DelSpec, NoMoreThan
      <3>6. Len(d.a.m_array) < MaxValidSize
                => NoLessThan(r.m_array, d.a.m_array, d.start, d.size)
        BY <3>1, <3>2, <3>4 DEF DelSpec, NoLessThan
      <3>7. DelSpec(d, r)
        BY <3>2, <3>5, <3>6 DEF DelSpec
      <3>8. QED
        BY <3>7 DEF r
    <2>6. QED
      BY <2>1, <2>5
  <1>3. Inherited(P, Calls, DelCalls, DelNext)
    <2> HIDE DEF P
    <2>1. QED
      BY <1>1, <1>2 DEF Inherited
  <1>4. Calls \subseteq P
    <2> HIDE DEF P
    <2>1. QED
      BY <1>3, DelTerminates, TailInduction
  <1>5. QED
    BY <1>4 DEF DelGood

-----------------------------------------------------------------------------
(* The array stays in order.                                               *)

\* The type invariant is Good, of the array there is.
LEMMA TypeIsGood == TypeOK <=> Good(array)
  BY DEF TypeOK, Good

LEMMA EmptyIsGood == Good(Empty) /\ Empty.m_array = << >>
  <1>1. << >> \in Seq(BlockInterval) /\ Len(<< >>) = 0 /\ DOMAIN << >> = {} /\ MaxValidSize \in Nat
    BY IntervalAssumption
  <1>2. Empty \in Arrays /\ Empty.m_array = << >> /\ Empty.m_totalsize = 0
    BY <1>1 DEF Empty, Arrays
  <1>3. Verify(<< >>)
    BY <1>1 DEF Verify
  <1>4. QED
    BY <1>1, <1>2, <1>3 DEF Good

\* AddInterval of an interval that ends within the numbers there are.
LEMMA AddIntervalIs ==
    ASSUME Overlap = "move", NEW a, Good(a), NEW i \in Intervals
    PROVE  AddSpec(Call(a, i.start, i.size), AddInterval(a, i.start, i.size))
  <1>1. i.start \in Ids /\ i.size \in Ids /\ i.start + i.size <= UINT_MAX
    BY DEF Intervals, BlockInterval
  <1>2. AddGood(Call(a, i.start, i.size))
    BY <1>1, GoodIs, CallIs DEF AddGood
  <1>3. QED
    BY <1>2, AddIs DEF AddInterval

\* The same of DelInterval.
LEMMA DelIntervalIs ==
    ASSUME Overlap = "move", NEW a, Good(a), NEW i \in Intervals, i.size > 0
    PROVE  DelSpec(Call(a, i.start, i.size), DelInterval(a, i.start, i.size))
  <1>1. i.start \in Ids /\ i.size \in Ids /\ i.start + i.size <= UINT_MAX
    BY DEF Intervals, BlockInterval
  <1>2. DelGood(Call(a, i.start, i.size))
    BY <1>1, GoodIs, CallIs DEF DelGood
  <1>3. QED
    BY <1>2, DelIs DEF DelInterval

GoodArrays == {a \in Arrays : Good(a)}

LEMMA GoodArraysAre == \A a : a \in GoodArrays <=> Good(a)
  BY GoodIs DEF GoodArrays

LEMMA OthersAreGood ==
    ASSUME Overlap = "move"
    PROVE  \A another \in Others : Good(another)
  <1>1. ASSUME NEW a, Good(a), NEW i \in Intervals
        PROVE  Good(AddInterval(a, i.start, i.size))
    BY <1>1, AddIntervalIs DEF AddSpec
  <1>2. ASSUME NEW i \in Intervals, NEW j \in Intervals
        PROVE  Good(AddInterval(AddInterval(Empty, i.start, i.size), j.start, j.size))
    BY <1>1, EmptyIsGood
  <1>3. QED
    BY <1>2 DEF Others

\* DeleteArray, as steps.
DeleteRight(g, a, another) ==
    g = [k \in 0 .. Len(another.m_array) |->
            IF k = 0 THEN a
            ELSE DelInterval(g[k - 1], another.m_array[k].start, another.m_array[k].size)]

LEMMA DeleteSteps ==
    ASSUME Overlap = "move", NEW a, Good(a), NEW another, Good(another)
    PROVE  \E g : DeleteRight(g, a, another)
                    /\ DeleteArray(a, another) = g[Len(another.m_array)]
  <1> DEFINE o == another.m_array
             n == Len(another.m_array)
             T == [k \in 1 .. n |-> [b \in GoodArrays |-> DelInterval(b, o[k].start, o[k].size)]]
  <1>1. o \in Seq(BlockInterval) /\ Verify(o) /\ n \in Nat /\ DOMAIN o = 1 .. n
    BY GoodIs
  <1>2. \A k \in 1 .. n, b \in GoodArrays : DelInterval(b, o[k].start, o[k].size) \in GoodArrays
    <2>1. ASSUME NEW k \in 1 .. n, NEW b \in GoodArrays
          PROVE  DelInterval(b, o[k].start, o[k].size) \in GoodArrays
      <3>1. o[k] \in Intervals /\ o[k].size > 0
        BY <1>1, Elements, Apart DEF Intervals
      <3>2. Good(b)
        BY GoodArraysAre
      <3>3. DelSpec(Call(b, o[k].start, o[k].size), DelInterval(b, o[k].start, o[k].size))
        BY <3>1, <3>2, DelIntervalIs
      <3>4. QED
        BY <3>3, GoodArraysAre DEF DelSpec
    <2>2. QED
      BY <2>1
  <1>3. Steps(n, GoodArrays, a, T)
    <2>1. T \in [1 .. n -> [GoodArrays -> GoodArrays]]
      BY <1>2
    <2>2. a \in GoodArrays
      BY GoodArraysAre
    <2> HIDE DEF T, n
    <2>3. QED
      BY <1>1, <2>1, <2>2 DEF Steps
  <1>4. PICK f \in [0 .. n -> GoodArrays] :
            f = [k \in 0 .. n |-> IF k = 0 THEN a ELSE T[k][f[k - 1]]]
    <2> HIDE DEF T, n
    <2>1. QED
      BY <1>3, CountedRecursion
  <1>5. DeleteRight(f, a, another)
    <2>1. ASSUME NEW k \in 0 .. n
          PROVE  f[k] = IF k = 0 THEN a ELSE DelInterval(f[k - 1], o[k].start, o[k].size)
      <3>1. k = 0 \/ (k \in 1 .. n /\ k - 1 \in 0 .. n)
        BY <1>1
      <3>2. f[k] = IF k = 0 THEN a ELSE T[k][f[k - 1]]
        BY <1>4
      <3>3. k \in 1 .. n /\ f[k - 1] \in GoodArrays
                => T[k][f[k - 1]] = DelInterval(f[k - 1], o[k].start, o[k].size)
        OBVIOUS
      <3>4. k - 1 \in 0 .. n => f[k - 1] \in GoodArrays
        BY <1>4
      <3> HIDE DEF T, n, o
      <3>5. QED
        BY <3>1, <3>2, <3>3, <3>4
    <2>2. f = [k \in 0 .. n |-> f[k]]
      BY <1>4
    <2>3. QED
      BY <2>1, <2>2 DEF DeleteRight
  <1>6. DeleteArray(a, another)
            = (CHOOSE g : DeleteRight(g, a, another))[Len(another.m_array)]
    BY DEF DeleteArray, DeleteRight
  <1>7. QED
    BY <1>5, <1>6

\* DeleteArray adds nothing and leaves no first number of an interval.
LEMMA DeleteArrayIs ==
    ASSUME Overlap = "move", NEW a, Good(a), NEW another, Good(another)
    PROVE  /\ Good(DeleteArray(a, another))
           /\ \A x \in Int : Has(DeleteArray(a, another).m_array, x) =>
                /\ Has(a.m_array, x)
                /\ \A j \in DOMAIN another.m_array : x # another.m_array[j].start
  <1> DEFINE o == another.m_array
             n == Len(another.m_array)
             Right(r, k) == /\ Good(r)
                            /\ \A x \in Int : Has(r.m_array, x) =>
                                    /\ Has(a.m_array, x)
                                    /\ \A j \in DOMAIN o : j <= k => x # o[j].start
  <1>1. o \in Seq(BlockInterval) /\ Verify(o) /\ n \in Nat /\ DOMAIN o = 1 .. n
    BY GoodIs
  <1>2. PICK g : DeleteRight(g, a, another) /\ DeleteArray(a, another) = g[n]
    BY DeleteSteps
  <1>3. \A k \in 0 .. n : g[k] = IF k = 0 THEN a ELSE DelInterval(g[k - 1], o[k].start, o[k].size)
    BY <1>2 DEF DeleteRight
  <1> DEFINE S == {k \in 0 .. n : Right(g[k], k)}
  <1>4. 0 \in S
    <2>1. g[0] = a /\ 0 \in 0 .. n /\ \A j \in DOMAIN o : ~ (j <= 0)
      BY <1>1, <1>3
    <2>2. Right(a, 0)
      BY <2>1
    <2> HIDE DEF Right
    <2>3. QED
      BY <2>1, <2>2
  <1>5. ASSUME NEW k \in 0 .. n - 1, k \in S
        PROVE  k + 1 \in S
    <2>1. k + 1 \in DOMAIN o /\ k + 1 \in 0 .. n /\ k + 1 # 0 /\ (k + 1) - 1 = k
      BY <1>1
    <2>2. o[k + 1] \in Intervals /\ o[k + 1].size > 0
      BY <1>1, <2>1, Elements, Apart DEF Intervals
    <2>3. PICK r, s, i : r = g[k] /\ s = g[k + 1] /\ i = o[k + 1]
      OBVIOUS
    <2>4. Right(r, k)
      BY <1>5, <2>3
    <2>5. s = DelInterval(r, i.start, i.size)
      BY <1>3, <2>1, <2>3
    <2>6. i \in Intervals /\ i.size > 0 /\ Good(r)
      BY <2>2, <2>3, <2>4
    <2>7. DelSpec(Call(r, i.start, i.size), s)
      BY <2>5, <2>6, DelIntervalIs
    <2>8. Call(r, i.start, i.size).a = r /\ Call(r, i.start, i.size).start = i.start
      BY DEF Call
    <2>9. Good(s) /\ NoMoreThan(s.m_array, r.m_array, i.start)
      BY <2>7, <2>8 DEF DelSpec
    <2>10. Right(s, k + 1)
      <3>1. \A j \in DOMAIN o : j <= k + 1 <=> j <= k \/ j = k + 1
        BY <1>1, <2>1
      <3>2. \A x \in Int : Has(s.m_array, x) => Has(r.m_array, x) /\ x # o[k + 1].start
        BY <2>3, <2>9 DEF NoMoreThan
      <3> HIDE DEF o
      <3>3. QED
        BY <2>4, <2>9, <3>1, <3>2
    <2> HIDE DEF Right
    <2>11. QED
      BY <2>1, <2>3, <2>10
  <1>6. n \in S
    <2> HIDE DEF S, n
    <2>1. \A k \in 0 .. n : k \in S
      BY <1>1, <1>4, <1>5, InductionUpTo
    <2>2. QED
      BY <1>1, <2>1
  <1>7. \A j \in DOMAIN o : j <= n
    BY <1>1
  <1>8. Right(DeleteArray(a, another), n)
    <2> HIDE DEF Right
    <2>1. QED
      BY <1>2, <1>6
  <1>9. QED
    BY <1>7, <1>8

\* The type invariant: whatever is added, deleted, copied, cleared and popped,
\* the array passes its own Verify and its valid part fits in.
THEOREM TypeCorrect ==
    ASSUME Overlap = "move"
    PROVE  Spec => []TypeOK
  <1>1. Init => TypeOK
    BY EmptyIsGood, TypeIsGood DEF Init
  <1>2. TypeOK /\ [Next]_array => TypeOK'
    <2> SUFFICES ASSUME Good(array), [Next]_array
                 PROVE  Good(array')
      BY DEF TypeOK, Good
    <2>1. CASE Add
      <3>1. PICK i \in Intervals : array' = AddInterval(array, i.start, i.size)
        BY <2>1 DEF Add
      <3>2. AddSpec(Call(array, i.start, i.size), array')
        BY <3>1, AddIntervalIs
      <3>3. QED
        BY <3>2 DEF AddSpec
    <2>2. CASE Delete
      <3>1. PICK i \in Intervals : i.size > 0 /\ array' = DelInterval(array, i.start, i.size)
        BY <2>2 DEF Delete
      <3>2. DelSpec(Call(array, i.start, i.size), array')
        BY <3>1, DelIntervalIs
      <3>3. QED
        BY <3>2 DEF DelSpec
    <2>3. CASE Assign
      <3>1. array' = [m_array |-> array.m_array, m_totalsize |-> Len(array.m_array)]
        BY <2>3, GoodIs, ArrayIs DEF Assign, Copy, Arrays
      <3>2. array' \in Arrays /\ array'.m_array = array.m_array
            /\ array'.m_totalsize = Len(array.m_array)
        BY <3>1, GoodIs DEF Arrays
      <3>3. QED
        BY <3>2, GoodIs DEF Good
    <2>4. CASE ClearAll
      <3>1. array' = [m_array |-> << >>, m_totalsize |-> array.m_totalsize]
        BY <2>4, GoodIs, ArrayIs DEF ClearAll, Clear, Arrays
      <3>2. /\ array' \in Arrays /\ array'.m_array = << >> /\ Len(array'.m_array) = 0
            /\ array'.m_totalsize = array.m_totalsize
        BY <3>1, GoodIs DEF Arrays
      <3>3. array.m_totalsize >= 0
        BY GoodIs
      <3>4. QED
        BY <3>2, <3>3, GoodIs, EmptyIsGood DEF Good
    <2>5. CASE Pop
      <3>1. CASE array.m_array = << >>
        BY <2>5, <3>1 DEF Pop, PopFront
      <3>2. CASE array.m_array # << >>
        <4>1. array' = SafeDelete(array, 1)
          BY <2>5, <3>2 DEF Pop, PopFront
        <4>2. 1 \in DOMAIN array.m_array
          BY <3>2, GoodIs
        <4>3. QED
          BY <4>1, <4>2, RemoveGood
      <3>3. QED
        BY <3>1, <3>2
    <2>6. CASE DeleteAll
      <3>1. PICK another \in Others : array' = DeleteArray(array, another)
        BY <2>6 DEF DeleteAll
      <3>2. QED
        BY <3>1, OthersAreGood, DeleteArrayIs
    <2>7. CASE UNCHANGED array
      BY <2>7
    <2>8. QED
      BY <2>1, <2>2, <2>3, <2>4, <2>5, <2>6, <2>7 DEF Next
  <1>3. QED
    BY <1>1, <1>2, PTL DEF Spec

-----------------------------------------------------------------------------
(* AddInterval and DelInterval.                                            *)

\* AddInterval is union with the interval, of whatever the array has come to: the
\* recursion that joins the intervals it meets loses none and invents none.
THEOREM AddCorrect ==
    ASSUME Overlap = "move"
    PROVE  Spec => []AddIsUnion
  <1>1. TypeOK => AddIsUnion
    <2> SUFFICES ASSUME Good(array), NEW i \in Intervals
                 PROVE  \/ Blocks(AddInterval(array, i.start, i.size))
                            = Blocks(array) \union Span(i.start, i.size)
                        \/ /\ AddInterval(array, i.start, i.size) = array
                           /\ Len(array.m_array) = MaxValidSize
      BY TypeIsGood DEF AddIsUnion
    <2>1. i.start \in Ids /\ i.size \in Ids
      BY DEF Intervals, BlockInterval
    <2>2. /\ Call(array, i.start, i.size).a = array
          /\ Call(array, i.start, i.size).start = i.start
          /\ Call(array, i.start, i.size).size = i.size
      BY <2>1, GoodIs, CallIs
    <2>3. AddSpec(Call(array, i.start, i.size), AddInterval(array, i.start, i.size))
      BY AddIntervalIs
    <2>4. QED
      BY <2>2, <2>3 DEF AddSpec
  <1>2. QED
    BY <1>1, TypeCorrect, PTL

\* DelInterval takes away no block that is not in the interval, and always the
\* first block of it, DeleteArray that of each interval.
THEOREM DeleteCorrect ==
    ASSUME Overlap = "move"
    PROVE  Spec => []DeleteTakesOnlyItsOwn
  <1>1. ASSUME Good(array), NEW i \in Intervals, i.size > 0
        PROVE  /\ Len(array.m_array) < MaxValidSize =>
                    Blocks(array) \ Span(i.start, i.size)
                        \subseteq Blocks(DelInterval(array, i.start, i.size))
               /\ Blocks(DelInterval(array, i.start, i.size)) \subseteq Blocks(array) \ {i.start}
    <2> USE <1>1
    <2> DEFINE r == DelInterval(array, i.start, i.size)
    <2>1. i.start \in Ids /\ i.size \in Ids
      BY DEF Intervals, BlockInterval
    <2>2. /\ Call(array, i.start, i.size).a = array
          /\ Call(array, i.start, i.size).start = i.start
          /\ Call(array, i.start, i.size).size = i.size
      BY <2>1, GoodIs, CallIs
    <2>3. DelSpec(Call(array, i.start, i.size), r)
      BY DelIntervalIs
    <2> HIDE DEF r
    <2>4. /\ Good(r) /\ NoMoreThan(r.m_array, array.m_array, i.start)
          /\ Len(array.m_array) < MaxValidSize =>
                NoLessThan(r.m_array, array.m_array, i.start, i.size)
      BY <2>2, <2>3 DEF DelSpec
    <2>5. /\ \A x : x \in Blocks(r) <=> x \in Nat /\ Has(r.m_array, x)
          /\ \A x : x \in Blocks(array) <=> x \in Nat /\ Has(array.m_array, x)
      BY <2>4, GoodIs, BlocksAre
    <2>6. \A x \in Nat : x \in Span(i.start, i.size)
                <=> i.start <= x /\ x < i.start + i.size
      BY <2>1, IntervalAssumption DEF Span, Ids
    <2>7. \A x \in Nat : x \in Int
      OBVIOUS
    <2>8. Blocks(r) \subseteq Blocks(array) \ {i.start}
      BY <2>4, <2>5, <2>7 DEF NoMoreThan
    <2>9. Len(array.m_array) < MaxValidSize =>
                Blocks(array) \ Span(i.start, i.size) \subseteq Blocks(r)
      BY <2>4, <2>5, <2>6, <2>7 DEF NoLessThan
    <2>10. QED
      BY <2>8, <2>9 DEF r
  <1>2. ASSUME Good(array), NEW another \in Others
        PROVE  Blocks(DeleteArray(array, another)) \subseteq
                    Blocks(array) \ {another.m_array[i].start : i \in DOMAIN another.m_array}
    <2> DEFINE r == DeleteArray(array, another)
    <2>1. /\ Good(r)
          /\ \A x \in Int : Has(r.m_array, x) =>
                /\ Has(array.m_array, x)
                /\ \A j \in DOMAIN another.m_array : x # another.m_array[j].start
      BY <1>2, OthersAreGood, DeleteArrayIs
    <2> HIDE DEF r
    <2>2. /\ \A x : x \in Blocks(r) <=> x \in Nat /\ Has(r.m_array, x)
          /\ \A x : x \in Blocks(array) <=> x \in Nat /\ Has(array.m_array, x)
      BY <1>2, <2>1, GoodIs, BlocksAre
    <2>3. \A x \in Nat : x \in Int
      OBVIOUS
    <2>4. QED
      BY <2>1, <2>2, <2>3 DEF r
  <1>3. TypeOK => DeleteTakesOnlyItsOwn
    BY <1>1, <1>2, TypeIsGood DEF DeleteTakesOnlyItsOwn
  <1>4. QED
    BY <1>3, TypeCorrect, PTL

-----------------------------------------------------------------------------
(* The methods that only look.                                             *)

LEMMA OfTwo ==
    ASSUME NEW x \in Int, NEW y \in Int
    PROVE  /\ Max({x, y}) = IF x >= y THEN x ELSE y
           /\ Min({x, y}) = IF x <= y THEN x ELSE y
  <1>1. \E z \in {x, y} : \A w \in {x, y} : z >= w
    OBVIOUS
  <1>2. Max({x, y}) \in {x, y} /\ \A w \in {x, y} : Max({x, y}) >= w
    BY <1>1 DEF Max
  <1>3. \E z \in {x, y} : \A w \in {x, y} : z <= w
    OBVIOUS
  <1>4. Min({x, y}) \in {x, y} /\ \A w \in {x, y} : Min({x, y}) <= w
    BY <1>3 DEF Min
  <1>5. QED
    BY <1>2, <1>4

\* and_op is intersection.
LEMMA AndOpIs ==
    ASSUME NEW i1 \in Intervals, NEW i2 \in Intervals
    PROVE  /\ and_op(i1, i2) \in Intervals
           /\ \A x \in Int : In(and_op(i1, i2), x) <=> In(i1, x) /\ In(i2, x)
  <1>1. PICK s1, z1, s2, z2 :
            s1 = i1.start /\ z1 = i1.size /\ s2 = i2.start /\ z2 = i2.size
    OBVIOUS
  <1>2. /\ s1 \in Nat /\ z1 \in Nat /\ s2 \in Nat /\ z2 \in Nat /\ UINT_MAX \in Nat
        /\ s1 + z1 <= UINT_MAX /\ s2 + z2 <= UINT_MAX
    BY <1>1, IntervalAssumption DEF Intervals, BlockInterval, Ids
  <1>3. End(i1) = s1 + z1 /\ End(i2) = s2 + z2
    BY <1>1, <1>2, Arithmetic DEF End
  <1>4. PICK start, end, size :
            /\ start = IF s1 >= s2 THEN s1 ELSE s2
            /\ end = IF s1 + z1 <= s2 + z2 THEN s1 + z1 ELSE s2 + z2
            /\ size = IF end > start THEN end - start ELSE 0
    OBVIOUS
  <1>5. Max({s1, s2}) = start /\ Min({s1 + z1, s2 + z2}) = end
    <2>1. s1 \in Int /\ s2 \in Int /\ s1 + z1 \in Int /\ s2 + z2 \in Int
      BY <1>2
    <2>2. QED
      BY <1>4, <2>1, OfTwo
  <1>6. and_op(i1, i2) = Interval(start, size)
    BY <1>1, <1>3, <1>4, <1>5 DEF and_op
  <1>7. /\ start \in Nat /\ start <= UINT_MAX /\ size \in Nat /\ size <= UINT_MAX
        /\ start + size <= UINT_MAX
    BY <1>2, <1>4
  <1>8. start \in Ids /\ size \in Ids
    BY <1>2, <1>7 DEF Ids
  <1>9. /\ and_op(i1, i2) \in BlockInterval
        /\ and_op(i1, i2).start = start /\ and_op(i1, i2).size = size
    BY <1>6, <1>8, IntervalIs
  <1>10. \A x \in Int : start <= x /\ x < start + size
                        <=> s1 <= x /\ x < s1 + z1 /\ s2 <= x /\ x < s2 + z2
    BY <1>2, <1>4
  <1>11. QED
    BY <1>1, <1>7, <1>9, <1>10 DEF Intervals, In

\* FindBlock gives up early, at no interval that could have the block.
LEMMA FindBlockIs ==
    ASSUME NEW a, Good(a), NEW id \in Nat
    PROVE  FindBlock(a, id) <=> Has(a.m_array, id)
  <1> DEFINE m == a.m_array
  <1>1. /\ m \in Seq(BlockInterval) /\ Verify(m) /\ Len(m) \in Nat /\ DOMAIN m = 1 .. Len(m)
    BY GoodIs
  <1>2. ASSUME FindBlock(a, id)
        PROVE  Has(m, id)
    <2>1. PICK i \in DOMAIN m : (\A j \in 1 .. i : m[j].start <= id) /\ End(m[i]) > id
      BY <1>2 DEF FindBlock
    <2>2. i \in 1 .. i
      BY <1>1
    <2>3. m[i].start <= id /\ End(m[i]) = m[i].start + m[i].size
      BY <1>1, <2>1, <2>2, Apart
    <2>4. m[i].start \in Nat /\ m[i].size \in Nat
      BY <1>1, Elements
    <2>5. id < m[i].start + m[i].size
      BY <2>1, <2>3, <2>4
    <2>6. QED
      BY <2>3, <2>5 DEF Has, In
  <1>3. ASSUME Has(m, id)
        PROVE  FindBlock(a, id)
    <2>1. PICK i \in DOMAIN m : m[i].start <= id /\ id < m[i].start + m[i].size
      BY <1>3 DEF Has, In
    <2>2. m[i].start \in Nat /\ m[i].size \in Nat /\ End(m[i]) = m[i].start + m[i].size
      BY <1>1, Elements, Apart
    <2>3. ASSUME NEW j \in 1 .. i
          PROVE  m[j].start <= id
      <3>1. j \in DOMAIN m /\ (j = i \/ j < i)
        BY <1>1
      <3>2. m[j].start \in Nat /\ m[j].size \in Nat
        BY <1>1, <3>1, Elements
      <3>3. j < i => m[j].start + m[j].size < m[i].start
        BY <1>1, <3>1, Apart
      <3> HIDE DEF m
      <3>4. QED
        BY <2>1, <2>2, <3>1, <3>2, <3>3
    <2>4. End(m[i]) > id
      BY <2>1, <2>2
    <2>5. QED
      BY <2>3, <2>4 DEF FindBlock
  <1>4. QED
    BY <1>2, <1>3

\* GetContinousCount counts up to the first block that is not there.
LEMMA ContinousCountIs ==
    ASSUME NEW a, Good(a), NEW id \in Ids
    PROVE  /\ GetContinousCount(a, id) \in Nat
           /\ \A x \in Int : id <= x /\ x < id + GetContinousCount(a, id) => Has(a.m_array, x)
           /\ ~ Has(a.m_array, id + GetContinousCount(a, id))
  <1> DEFINE m == a.m_array
             T == {k \in DOMAIN m : End(m[k]) > id}
  <1>1. /\ m \in Seq(BlockInterval) /\ Verify(m) /\ Len(m) \in Nat /\ DOMAIN m = 1 .. Len(m)
        /\ id \in Nat /\ id <= UINT_MAX /\ UINT_MAX \in Nat
    BY GoodIs, IntervalAssumption DEF Ids
  <1>2. CASE ~ Has(m, id)
    <2>1. GetContinousCount(a, id) = 0
      BY <1>1, <1>2, FindBlockIs DEF GetContinousCount
    <2>2. id + 0 = id /\ \A x \in Int : ~ (id <= x /\ x < id + 0)
      BY <1>1
    <2>3. QED
      BY <1>2, <2>1, <2>2
  <1>3. CASE Has(m, id)
    <2>1. PICK i \in DOMAIN m : In(m[i], id)
      BY <1>3 DEF Has
    <2>2. PICK low, high : low = m[i].start /\ high = m[i].start + m[i].size
      OBVIOUS
    <2>3. /\ low \in Nat /\ high \in Nat /\ low <= id /\ id < high /\ high <= UINT_MAX
          /\ End(m[i]) = high
      <3>1. /\ m[i].start \in Nat /\ m[i].size \in Nat /\ m[i].start + m[i].size <= UINT_MAX
            /\ End(m[i]) = m[i].start + m[i].size
        BY <1>1, Elements, Apart
      <3>2. QED
        BY <2>1, <2>2, <3>1 DEF In
    <2>4. ASSUME NEW k \in DOMAIN m
          PROVE  /\ k < i => End(m[k]) < low
                 /\ i < k => m[k].start > high
                 /\ End(m[k]) \in Nat /\ m[k].start \in Nat /\ m[k].size \in Nat
                 /\ End(m[k]) = m[k].start + m[k].size
      <3>1. m[k].start \in Nat /\ m[k].size \in Nat /\ End(m[k]) = m[k].start + m[k].size
        BY <1>1, Elements, Apart
      <3>2. /\ k < i => m[k].start + m[k].size < m[i].start
            /\ i < k => m[i].start + m[i].size < m[k].start
        BY <1>1, Apart
      <3> HIDE DEF m
      <3>3. QED
        BY <2>2, <2>3, <3>1, <3>2
    <2>5. Min(T) = i
      <3>1. i \in T /\ T \in SUBSET (DOMAIN m)
        BY <2>3
      <3>2. \A k \in T : ~ (k < i)
        <4>1. ASSUME NEW k \in T, k < i
              PROVE  FALSE
          <5>1. k \in DOMAIN m /\ End(m[k]) > id
            OBVIOUS
          <5>2. End(m[k]) < low /\ End(m[k]) \in Nat
            BY <2>4, <4>1, <5>1
          <5> HIDE DEF m
          <5>3. QED
            BY <1>1, <2>3, <5>1, <5>2
        <4>2. QED
          BY <4>1
      <3> HIDE DEF T, m
      <3>3. Min(T) \in T /\ Min(T) \in Nat /\ \A j \in DOMAIN m : j < Min(T) => j \notin T
        BY ONLY <1>1, <3>1, FirstOf
      <3>4. ~ (i < Min(T)) /\ ~ (Min(T) < i) /\ i \in Nat
        BY <1>1, <3>1, <3>2, <3>3
      <3>5. QED
        BY <3>3, <3>4
    <2>6. GetContinousCount(a, id) = high - id
      <3>1. GetContinousCount(a, id) = Minus(End(m[i]), id)
        BY <1>1, <1>3, <2>5, FindBlockIs DEF GetContinousCount
      <3>2. Minus(high, id) = high - id
        <4>1. id <= high
          BY <1>1, <2>3
        <4>2. QED
          BY <1>1, <2>3, <4>1, Arithmetic
      <3>3. QED
        BY <2>3, <3>1, <3>2
    <2>7. high - id \in Nat /\ id + (high - id) = high
      BY <1>1, <2>3
    <2>8. \A x \in Int : id <= x /\ x < high => Has(m, x)
      <3>1. \A x \in Int : id <= x /\ x < high => low <= x
        BY <1>1, <2>3
      <3>2. QED
        BY <2>2, <3>1 DEF Has, In
    <2>9. ~ Has(m, high)
      <3>1. ASSUME NEW k \in DOMAIN m, In(m[k], high)
            PROVE  FALSE
        <4>1. m[k].start <= high /\ high < m[k].start + m[k].size
          BY <3>1 DEF In
        <4>2. k = i \/ k < i \/ i < k
          BY <1>1
        <4>3. k = i => m[k].start + m[k].size = high
          BY <2>2
        <4>4. /\ k < i => End(m[k]) < low
              /\ i < k => m[k].start > high
              /\ m[k].start \in Nat /\ End(m[k]) \in Nat /\ End(m[k]) = m[k].start + m[k].size
          BY <2>4
        <4> HIDE DEF m
        <4>5. ~ (k < i)
          <5>1. PICK e \in Nat : e = End(m[k])
            BY <4>4
          <5>2. high < e /\ (k < i => e < low)
            BY <4>1, <4>4, <5>1
          <5>3. QED
            BY <1>1, <2>3, <5>1, <5>2
        <4>6. ~ (i < k)
          BY <2>3, <4>1, <4>4
        <4>7. k # i
          BY <2>3, <4>1, <4>3
        <4>8. QED
          BY <4>2, <4>5, <4>6, <4>7
      <3>2. QED
        BY <3>1 DEF Has
    <2>10. QED
      BY <2>6, <2>7, <2>8, <2>9
  <1>4. QED
    BY <1>2, <1>3

\* The numbers of an interval are as many as its size says.
LEMMA SizeCounts ==
    ASSUME NEW p \in Intervals
    PROVE  /\ IsFiniteSet({x \in Int : In(p, x)})
           /\ Cardinality({x \in Int : In(p, x)}) = p.size
           /\ p.size \in Nat /\ p.size \in Ids
  <1>1. p.start \in Nat /\ p.size \in Nat /\ p.size \in Ids
    BY IntervalAssumption DEF Intervals, BlockInterval, Ids
  <1>2. PICK low, high : low = p.start /\ high = p.start + p.size - 1
    OBVIOUS
  <1>3. low \in Int /\ high \in Int /\ (low > high <=> p.size = 0) /\ high - low + 1 = p.size
    BY <1>1, <1>2
  <1>4. {x \in Int : In(p, x)} = low .. high
    BY <1>1, <1>2 DEF In
  <1>5. /\ IsFiniteSet(low .. high)
        /\ Cardinality(low .. high) = IF low > high THEN 0 ELSE high - low + 1
    BY <1>3, FS_Interval
  <1>6. QED
    BY <1>1, <1>3, <1>4, <1>5

\* GetCountInInterval adds up no block twice, and the sum does not wrap.
LEMMA CountIs ==
    ASSUME NEW a, Good(a), NEW in \in Intervals, NEW total,
           total = [k \in 0 .. Len(a.m_array) |->
                IF k = 0 THEN 0 ELSE Plus(total[k - 1], and_op(a.m_array[k], in).size)]
    PROVE  total[Len(a.m_array)]
                = Cardinality({x \in Int : Has(a.m_array, x) /\ In(in, x)})
  <1> DEFINE m == a.m_array
             n == Len(a.m_array)
             B(k) == {x \in Int : In(in, x) /\ \E j \in DOMAIN m : j <= k /\ In(m[j], x)}
             S == {k \in 0 .. n : total[k] = Cardinality(B(k))}
  <1>1. /\ m \in Seq(BlockInterval) /\ Verify(m) /\ n \in Nat /\ DOMAIN m = 1 .. n
        /\ UINT_MAX \in Nat
    BY GoodIs, IntervalAssumption
  <1>2. ASSUME NEW k
        PROVE  IsFiniteSet(B(k)) /\ Cardinality(B(k)) \in Nat /\ Cardinality(B(k)) <= UINT_MAX
    <2>1. B(k) \in SUBSET (0 .. UINT_MAX - 1)
      <3>1. ASSUME NEW x \in B(k)
            PROVE  x \in 0 .. UINT_MAX - 1
        <4>1. x \in Int /\ in.start <= x /\ x < in.start + in.size
          BY DEF In
        <4>2. in.start \in Nat /\ in.size \in Nat /\ in.start + in.size <= UINT_MAX
          BY IntervalAssumption DEF Intervals, BlockInterval, Ids
        <4>3. QED
          BY <1>1, <4>1, <4>2
      <3>2. QED
        BY <3>1
    <2>2. /\ IsFiniteSet(0 .. UINT_MAX - 1)
          /\ Cardinality(0 .. UINT_MAX - 1) = IF 0 > UINT_MAX - 1 THEN 0 ELSE UINT_MAX - 1 - 0 + 1
      <3>1. 0 \in Int /\ UINT_MAX - 1 \in Int
        BY <1>1
      <3>2. QED
        BY <3>1, FS_Interval
    <2>3. Cardinality(0 .. UINT_MAX - 1) = UINT_MAX
      BY <1>1, <2>2
    <2> HIDE DEF B
    <2>4. IsFiniteSet(B(k)) /\ Cardinality(B(k)) <= UINT_MAX
      BY <2>1, <2>2, <2>3, FS_Subset
    <2>5. QED
      BY <2>4, FS_CardinalityType
  <1>3. 0 \in S
    <2>1. B(0) = {}
      BY <1>1
    <2>2. total[0] = 0
      BY <1>1
    <2> HIDE DEF B
    <2>3. Cardinality(B(0)) = 0 /\ 0 \in 0 .. n
      BY <1>1, <2>1, FS_EmptySet
    <2>4. QED
      BY <2>2, <2>3
  <1>4. ASSUME NEW k \in 0 .. n - 1, k \in S
        PROVE  k + 1 \in S
    <2> DEFINE p == and_op(m[k + 1], in)
               C == {x \in Int : In(p, x)}
    <2>1. k + 1 \in DOMAIN m /\ k + 1 \in 0 .. n /\ k + 1 # 0 /\ k + 1 - 1 = k /\ k \in Nat
      BY <1>1
    <2>2. m[k + 1] \in Intervals
      BY <1>1, <2>1, Elements, Apart DEF Intervals
    <2>3. p \in Intervals /\ \A x \in Int : In(p, x) <=> In(m[k + 1], x) /\ In(in, x)
      BY <2>2, AndOpIs
    <2>4. B(k + 1) = B(k) \union C
      <3>1. \A j \in DOMAIN m : j <= k + 1 <=> j <= k \/ j = k + 1
        BY <1>1, <2>1
      <3> HIDE DEF p, m
      <3>2. QED
        BY <2>1, <2>3, <3>1
    <2>5. B(k) \intersect C = {}
      <3>1. ASSUME NEW x \in B(k) \intersect C
            PROVE  FALSE
        <4>1. PICK j \in DOMAIN m : j <= k /\ In(m[j], x)
          BY <3>1
        <4>2. x \in Int /\ In(m[k + 1], x)
          BY <2>3, <3>1
        <4>3. j = k + 1
          <5> HIDE DEF m
          <5>1. QED
            BY <1>1, <2>1, <4>1, <4>2, OneInterval
        <4>4. QED
          BY <2>1, <4>1, <4>3
      <3>2. QED
        BY <3>1
    <2>6. IsFiniteSet(C) /\ Cardinality(C) = p.size /\ p.size \in Nat
      <3> HIDE DEF p
      <3>1. QED
        BY <2>3, SizeCounts
    <2>7. /\ IsFiniteSet(B(k)) /\ Cardinality(B(k)) \in Nat
          /\ Cardinality(B(k + 1)) \in Nat /\ Cardinality(B(k + 1)) <= UINT_MAX
      BY <1>2
    <2>8. total[k + 1] = Plus(total[k], p.size) /\ total[k] = Cardinality(B(k))
      <3> HIDE DEF B
      <3>1. total[k + 1] = Plus(total[(k + 1) - 1], p.size)
        BY <2>1
      <3>2. QED
        BY <1>4, <2>1, <3>1
    <2> HIDE DEF B, C, p
    <2>9. Cardinality(B(k + 1)) = Cardinality(B(k)) + p.size
      <3>1. Cardinality(B(k) \union C)
                = Cardinality(B(k)) + Cardinality(C) - Cardinality(B(k) \intersect C)
        BY <2>6, <2>7, FS_Union
      <3>2. Cardinality(B(k) \intersect C) = 0
        BY <2>5, FS_EmptySet
      <3>3. Cardinality(B(k + 1)) = Cardinality(B(k)) + Cardinality(C) - 0
        BY <2>4, <3>1, <3>2
      <3>4. QED
        BY <2>6, <2>7, <3>3
    <2>10. Plus(Cardinality(B(k)), p.size) = Cardinality(B(k)) + p.size
      <3>1. Cardinality(B(k)) + p.size <= UINT_MAX
        BY <2>7, <2>9
      <3>2. QED
        BY <2>6, <2>7, <3>1, Arithmetic
    <2>11. total[k + 1] = Cardinality(B(k + 1))
      BY <2>8, <2>9, <2>10
    <2>12. QED
      BY <2>1, <2>11
  <1>5. n \in S
    <2> HIDE DEF S, n
    <2>1. \A k \in 0 .. n : k \in S
      BY <1>1, <1>3, <1>4, InductionUpTo
    <2>2. QED
      BY <1>1, <2>1
  <1>6. B(n) = {x \in Int : Has(m, x) /\ In(in, x)}
    <2>1. \A j \in DOMAIN m : j <= n
      BY <1>1
    <2> HIDE DEF m, n
    <2>2. QED
      BY <2>1 DEF Has
  <1>7. QED
    BY <1>5, <1>6

\* GetCountInInterval counts the blocks there are, and the end it is cut to cuts
\* none of them off.
LEMMA CountInIntervalIs ==
    ASSUME NEW a, Good(a), NEW id \in Ids, NEW len \in Ids
    PROVE  GetCountInInterval(a, id, len) = Cardinality(Blocks(a) \intersect Span(id, len))
  <1> DEFINE m == a.m_array
             n == Len(a.m_array)
             in == Interval(id, Min({len, UINT_MAX - id}))
             Right(f) == f = [k \in 0 .. Len(a.m_array) |->
                IF k = 0 THEN 0 ELSE Plus(f[k - 1], and_op(a.m_array[k], in).size)]
             T == [k \in 1 .. n |-> [t \in Ids |-> Plus(t, and_op(m[k], in).size)]]
  <1>1. /\ m \in Seq(BlockInterval) /\ Verify(m) /\ n \in Nat /\ DOMAIN m = 1 .. n
        /\ UINT_MAX \in Nat /\ id \in Nat /\ len \in Nat /\ id <= UINT_MAX /\ len <= UINT_MAX
    BY GoodIs, IntervalAssumption DEF Ids
  <1>2. PICK z : z = IF len <= UINT_MAX - id THEN len ELSE UINT_MAX - id
    OBVIOUS
  <1>3. /\ z \in Nat /\ z \in Ids /\ z <= len /\ id + z <= UINT_MAX
        /\ id + z = UINT_MAX \/ z = len
    BY <1>1, <1>2 DEF Ids
  <1>4. in \in Intervals /\ in.start = id /\ in.size = z
    <2>1. Min({len, UINT_MAX - id}) = z
      <3>1. len \in Int /\ UINT_MAX - id \in Int
        BY <1>1
      <3>2. QED
        BY <1>2, <3>1, OfTwo
    <2>2. in = Interval(id, z)
      BY <2>1
    <2>3. QED
      BY <1>3, <2>2, IntervalIs DEF Intervals
  <1> HIDE DEF in
  <1>5. \A k \in 1 .. n, t \in Ids : Plus(t, and_op(m[k], in).size) \in Ids
    <2>1. ASSUME NEW k \in 1 .. n, NEW t \in Ids
          PROVE  Plus(t, and_op(m[k], in).size) \in Ids
      <3>1. m[k] \in Intervals
        BY <1>1, Elements, Apart DEF Intervals
      <3>2. and_op(m[k], in).size \in Ids
        BY <1>4, <3>1, AndOpIs, SizeCounts
      <3>3. QED
        BY <3>2, Arithmetic
    <2>2. QED
      BY <2>1
  <1>6. Steps(n, Ids, 0, T)
    <2>1. T \in [1 .. n -> [Ids -> Ids]]
      BY <1>5
    <2>2. 0 \in Ids
      BY <1>1 DEF Ids
    <2> HIDE DEF T, n
    <2>3. QED
      BY <1>1, <2>1, <2>2 DEF Steps
  <1>7. PICK f \in [0 .. n -> Ids] : f = [k \in 0 .. n |-> IF k = 0 THEN 0 ELSE T[k][f[k - 1]]]
    <2> HIDE DEF T, n
    <2>1. QED
      BY <1>6, CountedRecursion
  <1>8. Right(f)
    <2>1. ASSUME NEW k \in 0 .. n
          PROVE  f[k] = IF k = 0 THEN 0 ELSE Plus(f[k - 1], and_op(m[k], in).size)
      <3>1. k = 0 \/ (k \in 1 .. n /\ k - 1 \in 0 .. n)
        BY <1>1
      <3>2. f[k] = IF k = 0 THEN 0 ELSE T[k][f[k - 1]]
        BY <1>7
      <3>3. k \in 1 .. n /\ f[k - 1] \in Ids
                => T[k][f[k - 1]] = Plus(f[k - 1], and_op(m[k], in).size)
        OBVIOUS
      <3>4. k - 1 \in 0 .. n => f[k - 1] \in Ids
        BY <1>7
      <3> HIDE DEF T, m, n
      <3>5. QED
        BY <3>1, <3>2, <3>3, <3>4
    <2>2. f = [k \in 0 .. n |-> f[k]]
      BY <1>7
    <2> HIDE DEF m
    <2>3. QED
      BY <2>1, <2>2 DEF m
  <1>9. GetCountInInterval(a, id, len) = (CHOOSE g : Right(g))[Len(a.m_array)]
    BY DEF GetCountInInterval, in
  <1>10. PICK total : Right(total) /\ GetCountInInterval(a, id, len) = total[Len(a.m_array)]
    <2> HIDE DEF Right
    <2>1. QED
      BY <1>8, <1>9
  <1>11. total[Len(a.m_array)] = Cardinality({x \in Int : Has(m, x) /\ In(in, x)})
    BY <1>4, <1>10, CountIs
  <1>12. Blocks(a) \intersect Span(id, len) = {x \in Int : Has(m, x) /\ In(in, x)}
    <2>1. /\ \A x : x \in Blocks(a) <=> x \in Nat /\ Has(m, x)
          /\ \A x \in Blocks(a) : x < UINT_MAX
      BY <1>1, BlocksAre
    <2>2. \A x : x \in Span(id, len) <=> x \in Int /\ id <= x /\ x < id + len
      BY <1>1 DEF Span
    <2>3. \A x \in Int : In(in, x) <=> id <= x /\ x < id + z
      BY <1>4 DEF In
    <2>4. ASSUME NEW x \in Int
          PROVE  /\ x < UINT_MAX /\ id <= x /\ x < id + len => x < id + z
                 /\ id <= x /\ x < id + z => x < id + len /\ x \in Nat
      BY <1>1, <1>3
    <2> HIDE DEF m
    <2>5. QED
      BY <2>1, <2>2, <2>3, <2>4
  <1>13. QED
    BY <1>10, <1>11, <1>12

LEMMA LooksAre ==
    ASSUME NEW a, Good(a)
    PROVE  LooksAgree(a)
  <1>1. \A x : x \in Blocks(a) <=> x \in Nat /\ Has(a.m_array, x)
    BY GoodIs, BlocksAre
  <1>2. ASSUME NEW id \in Ids
        PROVE  /\ FindBlock(a, id) <=> id \in Blocks(a)
               /\ Span(id, GetContinousCount(a, id)) \subseteq Blocks(a)
               /\ id + GetContinousCount(a, id) \notin Blocks(a)
    <2>1. id \in Nat
      BY IntervalAssumption DEF Ids
    <2>2. FindBlock(a, id) <=> Has(a.m_array, id)
      BY <2>1, FindBlockIs
    <2>3. PICK n : n = GetContinousCount(a, id)
      OBVIOUS
    <2>4. /\ n \in Nat /\ ~ Has(a.m_array, id + n)
          /\ \A x \in Int : id <= x /\ x < id + n => Has(a.m_array, x)
      BY <2>3, ContinousCountIs
    <2>5. \A x \in Span(id, n) : x \in Nat /\ x \in Int /\ id <= x /\ x < id + n
      BY <2>1, <2>4 DEF Span
    <2>6. QED
      BY <1>1, <2>1, <2>2, <2>3, <2>4, <2>5
  <1>3. QED
    BY <1>2, CountInIntervalIs DEF LooksAgree

-----------------------------------------------------------------------------
(* AndOperator.                                                            *)

\* r is what AndOperator has made of the numbers in Q: it has no other ones, and
\* all of them unless it is full.
Collects(r, Q) ==
    /\ Good(r)
    /\ \A x \in Int : Has(r.m_array, x) => x \in Q
    /\ Len(r.m_array) < MaxValidSize => \A x \in Int : x \in Q => Has(r.m_array, x)

\* All numbers in Q lie before start, with a gap between.
Before(Q, start) == Q \in SUBSET Int /\ \A x \in Q : x + 1 < start

\* What is added behind everything else goes to the end of the array or, when it
\* is full, nowhere: it is never joined with what is there.
LEMMA AddAtEnd ==
    ASSUME Overlap = "move", NEW r, NEW Q, Collects(r, Q), NEW p \in Intervals,
           p.size > 0 => Before(Q, p.start)
    PROVE  Collects(AddInterval(r, p.start, p.size), Q \union {x \in Int : In(p, x)})
  <1> DEFINE m == r.m_array
             c == Call(r, p.start, p.size)
             s == AddInterval(r, p.start, p.size)
             P == Q \union {x \in Int : In(p, x)}
  <1>1. /\ Good(r) /\ m \in Seq(BlockInterval) /\ Verify(m) /\ Len(m) \in Nat
        /\ DOMAIN m = 1 .. Len(m) /\ Len(m) <= MaxValidSize
        /\ MaxValidSize \in Nat /\ UINT_MAX \in Nat
    BY GoodIs, IntervalAssumption DEF Collects
  <1>2. PICK start, size : start = p.start /\ size = p.size
    OBVIOUS
  <1>3. /\ start \in Ids /\ size \in Ids /\ start \in Nat /\ size \in Nat
        /\ start + size <= UINT_MAX
    BY <1>1, <1>2 DEF Intervals, BlockInterval, Ids
  <1>4. c \in Calls /\ c.a = r /\ c.start = start /\ c.size = size
    BY <1>1, <1>2, <1>3, GoodIs, CallIs
  <1>5. s = IF AddsAgain(c) THEN Added[NextAdd(c)] ELSE AddReturns(c)
    BY <1>4, AddedIs DEF AddInterval
  <1>6. \A x \in Int : In(p, x) <=> start <= x /\ x < start + size
    BY <1>2 DEF In
  <1> HIDE DEF c, s
  <1>7. CASE size = 0
    <2>1. ~ AddsAgain(c) /\ AddReturns(c) = r
      BY <1>4, <1>7 DEF AddsAgain, AddReturns
    <2>2. \A x \in Int : ~ (start <= x /\ x < start + size)
      BY <1>3, <1>7
    <2>3. s = r /\ P = Q
      BY <1>5, <1>6, <2>1, <2>2
    <2>4. QED
      BY <2>3 DEF s
  <1>8. CASE size # 0
    <2>1. Before(Q, start) /\ size > 0 /\ start # UINT_MAX
      BY <1>1, <1>2, <1>3, <1>8
    <2>2. ASSUME NEW i \in DOMAIN m
          PROVE  /\ m[i].start \in Nat /\ m[i].size \in Nat
                 /\ End(m[i]) = m[i].start + m[i].size
                 /\ m[i].start + m[i].size < start /\ m[i].start < start
      <3>1. PICK low, high : low = m[i].start /\ high = m[i].start + m[i].size
        OBVIOUS
      <3>2. /\ m[i].start \in Nat /\ m[i].size \in Nat /\ End(m[i]) = high
            /\ low \in Nat /\ high \in Nat /\ low < high
        <4>1. /\ m[i].start \in Nat /\ m[i].size \in Nat /\ m[i].size > 0
              /\ End(m[i]) = m[i].start + m[i].size
          BY <1>1, Elements, Apart
        <4> HIDE DEF m
        <4>2. QED
          BY <3>1, <4>1
      <3>3. high - 1 \in Int /\ low <= high - 1 /\ high - 1 < high /\ (high - 1) + 1 = high
        BY <3>2
      <3>4. Has(m, high - 1)
        BY <3>1, <3>3 DEF Has, In
      <3>5. high - 1 \in Q
        BY <3>3, <3>4 DEF Collects
      <3>6. high < start
        BY <2>1, <3>3, <3>5 DEF Before
      <3>7. low < start
        BY <1>3, <3>2, <3>6
      <3>8. QED
        BY <3>1, <3>2, <3>6, <3>7
    <2>3. UpTo(m, start) = {}
      <3>1. ASSUME NEW i \in DOMAIN m
            PROVE  ~ (m[i].start > start \/ End(m[i]) >= start)
        <4>1. /\ m[i].start \in Nat /\ m[i].size \in Nat /\ m[i].start < start
              /\ End(m[i]) = m[i].start + m[i].size /\ m[i].start + m[i].size < start
          BY <2>2
        <4> HIDE DEF m
        <4>2. QED
          BY <1>3, <4>1
      <3>2. QED
        BY <3>1 DEF UpTo
    <2>4. ~ AddsAgain(c) /\ AddReturns(c) = SafeInsert(r, Len(m) + 1, start, size)
      BY <1>4, <1>8, <2>1, <2>3 DEF AddsAgain, AddReturns
    <2>5. s = SafeInsert(r, Len(m) + 1, start, size)
      BY <1>5, <2>4
    <2>6. CASE Len(m) = MaxValidSize
      <3>1. s = r
        BY <2>5, <2>6 DEF SafeInsert
      <3>2. ~ (Len(m) < MaxValidSize)
        BY <1>1, <2>6
      <3>3. Collects(r, P)
        BY <3>2 DEF Collects
      <3>4. QED
        BY <3>1, <3>3 DEF s
    <2>7. CASE Len(m) # MaxValidSize
      <3>1. PICK j : j = Len(m) + 1
        OBVIOUS
      <3>2. FitsAt(r, j, start, size)
        <4>1. j \in 1 .. Len(m) + 1 /\ ~ (j <= Len(m))
          BY <1>1, <3>1
        <4>2. j > 1 => m[j - 1].start + m[j - 1].size < start
          <5>1. j > 1 => j - 1 \in DOMAIN m
            BY <1>1, <3>1
          <5>2. QED
            BY <2>2, <5>1
        <4>3. QED
          BY <1>1, <1>3, <2>1, <4>1, <4>2 DEF FitsAt
      <3>3. /\ Good(s) /\ Len(s.m_array) = Len(m) + 1
            /\ \A x \in Int : Has(s.m_array, x) <=> Has(m, x) \/ (start <= x /\ x < start + size)
        BY <2>5, <2>7, <3>1, <3>2, InsertNumbers
      <3>4. Len(m) < MaxValidSize
        BY <1>1, <2>7
      <3>5. /\ \A x \in Int : Has(m, x) => x \in Q
            /\ \A x \in Int : x \in Q => Has(m, x)
        BY <3>4 DEF Collects
      <3> HIDE DEF m
      <3>6. Collects(s, P)
        BY <1>6, <3>3, <3>5 DEF Collects
      <3>7. QED
        BY <3>6 DEF s
    <2>8. QED
      BY <2>6, <2>7
  <1>9. QED
    BY <1>7, <1>8

\* The inner loop of AndOperator, as steps.
WithRight(g, m, result, i2) ==
    g = [k \in 0 .. Len(m) |->
            IF k = 0 THEN result
            ELSE AddInterval(g[k - 1], and_op(m[k], i2).start, and_op(m[k], i2).size)]

LEMMA AndWithSteps ==
    ASSUME Overlap = "move", NEW m \in Seq(BlockInterval), Verify(m),
           NEW result, Good(result), NEW i2 \in Intervals
    PROVE  \E g \in [0 .. Len(m) -> GoodArrays] :
              WithRight(g, m, result, i2) /\ AndWith(m, result, i2) = g[Len(m)]
  <1> DEFINE n == Len(m)
             p(k) == and_op(m[k], i2)
             T == [k \in 1 .. n |-> [b \in GoodArrays |-> AddInterval(b, p(k).start, p(k).size)]]
  <1>1. n \in Nat /\ DOMAIN m = 1 .. n
    BY Elements
  <1>2. \A k \in 1 .. n : p(k) \in Intervals
    <2>1. ASSUME NEW k \in 1 .. n
          PROVE  p(k) \in Intervals
      <3>1. m[k] \in Intervals
        BY <1>1, Elements, Apart DEF Intervals
      <3>2. QED
        BY <3>1, AndOpIs
    <2>2. QED
      BY <2>1
  <1> HIDE DEF p
  <1>3. \A k \in 1 .. n, b \in GoodArrays :
            AddInterval(b, p(k).start, p(k).size) \in GoodArrays
    <2>1. ASSUME NEW k \in 1 .. n, NEW b \in GoodArrays
          PROVE  AddInterval(b, p(k).start, p(k).size) \in GoodArrays
      <3>1. AddSpec(Call(b, p(k).start, p(k).size), AddInterval(b, p(k).start, p(k).size))
        BY <1>2, GoodArraysAre, AddIntervalIs
      <3>2. QED
        BY <3>1, GoodArraysAre DEF AddSpec
    <2>2. QED
      BY <2>1
  <1>4. Steps(n, GoodArrays, result, T)
    <2>1. T \in [1 .. n -> [GoodArrays -> GoodArrays]]
      BY <1>3
    <2>2. result \in GoodArrays
      BY GoodArraysAre
    <2> HIDE DEF T, n
    <2>3. QED
      BY <1>1, <2>1, <2>2 DEF Steps
  <1>5. PICK f \in [0 .. n -> GoodArrays] :
            f = [k \in 0 .. n |-> IF k = 0 THEN result ELSE T[k][f[k - 1]]]
    <2> HIDE DEF T, n
    <2>1. QED
      BY <1>4, CountedRecursion
  <1>6. WithRight(f, m, result, i2)
    <2>1. ASSUME NEW k \in 0 .. n
          PROVE  f[k] = IF k = 0 THEN result ELSE AddInterval(f[k - 1], p(k).start, p(k).size)
      <3>1. k = 0 \/ (k \in 1 .. n /\ k - 1 \in 0 .. n)
        BY <1>1
      <3>2. f[k] = IF k = 0 THEN result ELSE T[k][f[k - 1]]
        BY <1>5
      <3>3. k \in 1 .. n /\ f[k - 1] \in GoodArrays
                => T[k][f[k - 1]] = AddInterval(f[k - 1], p(k).start, p(k).size)
        OBVIOUS
      <3>4. k - 1 \in 0 .. n => f[k - 1] \in GoodArrays
        BY <1>5
      <3> HIDE DEF T, n
      <3>5. QED
        BY <3>1, <3>2, <3>3, <3>4
    <2>2. f = [k \in 0 .. n |-> f[k]]
      BY <1>5
    <2>3. QED
      BY <2>1, <2>2 DEF WithRight, p
  <1>7. AndWith(m, result, i2) = (CHOOSE g : WithRight(g, m, result, i2))[Len(m)]
    BY DEF AndWith, WithRight
  <1>8. PICK g : WithRight(g, m, result, i2) /\ AndWith(m, result, i2) = g[Len(m)]
    BY <1>6, <1>7
  <1>9. \A k \in 0 .. n : g[k] \in GoodArrays
    <2> DEFINE S == {k \in 0 .. n : g[k] \in GoodArrays}
    <2>1. \A k \in 0 .. n : g[k] = IF k = 0 THEN result
                                   ELSE AddInterval(g[k - 1], p(k).start, p(k).size)
      BY <1>8 DEF WithRight, p
    <2>2. 0 \in S
      BY <1>1, <2>1, GoodArraysAre
    <2>3. ASSUME NEW k \in 0 .. n - 1, k \in S
          PROVE  k + 1 \in S
      <3>1. k + 1 \in 0 .. n /\ k + 1 \in 1 .. n /\ k + 1 # 0 /\ (k + 1) - 1 = k
        BY <1>1
      <3>2. g[k + 1] = AddInterval(g[k], p(k + 1).start, p(k + 1).size)
        BY <2>1, <3>1
      <3>3. QED
        BY <1>3, <2>3, <3>1, <3>2
    <2> HIDE DEF S, n
    <2>4. \A k \in 0 .. n : k \in S
      BY <1>1, <2>2, <2>3, InductionUpTo
    <2>5. QED
      BY <2>4 DEF S
  <1>10. g \in [0 .. n -> GoodArrays]
    <2>1. g = [k \in 0 .. n |-> g[k]]
      BY <1>8 DEF WithRight
    <2> HIDE DEF n
    <2>2. QED
      BY <1>9, <2>1
  <1>11. QED
    BY <1>8, <1>10

\* The inner loop adds what the interval i2, which lies behind all that went
\* before, has in common with m.
LEMMA AndWithIs ==
    ASSUME Overlap = "move", NEW m \in Seq(BlockInterval), Verify(m),
           NEW result, NEW Q, Collects(result, Q),
           NEW i2 \in Intervals, Before(Q, i2.start)
    PROVE  Collects(AndWith(m, result, i2), Q \union {x \in Int : Has(m, x) /\ In(i2, x)})
  <1> DEFINE n == Len(m)
             p(k) == and_op(m[k], i2)
             B(k) == Q \union {x \in Int : In(i2, x) /\ \E j \in DOMAIN m : j <= k /\ In(m[j], x)}
  <1>1. n \in Nat /\ DOMAIN m = 1 .. n /\ i2.start \in Nat /\ i2.size \in Nat
    BY Elements, IntervalAssumption DEF Intervals, BlockInterval, Ids
  <1>2. PICK g : WithRight(g, m, result, i2) /\ AndWith(m, result, i2) = g[n]
    BY AndWithSteps DEF Collects
  <1>3. \A k \in 0 .. n : g[k] = IF k = 0 THEN result
                                 ELSE AddInterval(g[k - 1], p(k).start, p(k).size)
    BY <1>2 DEF WithRight
  <1> DEFINE S == {k \in 0 .. n : Collects(g[k], B(k))}
  <1>4. 0 \in S
    <2>1. B(0) = Q
      BY <1>1
    <2>2. g[0] = result /\ 0 \in 0 .. n
      BY <1>1, <1>3
    <2> HIDE DEF B
    <2>3. QED
      BY <2>1, <2>2
  <1>5. ASSUME NEW k \in 0 .. n - 1, k \in S
        PROVE  k + 1 \in S
    <2>1. /\ k + 1 \in DOMAIN m /\ k + 1 \in 0 .. n /\ k + 1 # 0 /\ (k + 1) - 1 = k
          /\ k \in Nat
      BY <1>1
    <2>2. m[k + 1] \in Intervals
      BY <1>1, <2>1, Elements, Apart DEF Intervals
    <2>3. /\ p(k + 1) \in Intervals
          /\ \A x \in Int : In(p(k + 1), x) <=> In(m[k + 1], x) /\ In(i2, x)
      BY <2>2, AndOpIs
    <2>4. g[k + 1] = AddInterval(g[k], p(k + 1).start, p(k + 1).size)
      BY <1>3, <2>1
    <2>5. p(k + 1).start \in Nat /\ p(k + 1).size \in Nat
      <3> HIDE DEF p
      <3>1. QED
        BY <2>3, IntervalAssumption DEF Intervals, BlockInterval, Ids
    \* the first number of what is added lies behind all others by a gap
    <2>6. ASSUME p(k + 1).size > 0
          PROVE  Before(B(k), p(k + 1).start)
      <3>1. PICK s \in Nat : s = p(k + 1).start
        BY <2>5
      <3>2. In(m[k + 1], s) /\ In(i2, s)
        <4>1. In(p(k + 1), s)
          <5> HIDE DEF p
          <5>1. QED
            BY <2>5, <2>6, <3>1 DEF In
        <4>2. QED
          BY <2>3, <4>1
      <3>3. ASSUME NEW x \in B(k)
            PROVE  x \in Int /\ x + 1 < s
        <4>1. CASE x \in Q
          <5>1. x \in Int /\ x + 1 < i2.start
            BY <4>1 DEF Before
          <5>2. i2.start <= s
            BY <3>2 DEF In
          <5>3. QED
            BY <1>1, <3>1, <5>1, <5>2
        <4>2. CASE x \notin Q
          <5>1. PICK j \in DOMAIN m : j <= k /\ In(m[j], x) /\ x \in Int
            BY <3>3, <4>2
          <5>2. j < k + 1
            BY <1>1, <2>1, <5>1
          <5>3. m[j].start + m[j].size < m[k + 1].start
            BY <2>1, <5>2, Apart
          <5>4. m[j].start \in Nat /\ m[j].size \in Nat /\ m[k + 1].start \in Nat
            BY <2>1, Elements
          <5>5. x < m[j].start + m[j].size /\ m[k + 1].start <= s
            BY <3>2, <5>1 DEF In
          <5>6. QED
            BY <5>1, <5>3, <5>4, <5>5
        <4>3. QED
          BY <4>1, <4>2
      <3> HIDE DEF B, p
      <3>4. QED
        BY <3>1, <3>3 DEF Before
    <2>7. B(k + 1) = B(k) \union {x \in Int : In(p(k + 1), x)}
      <3>1. \A j \in DOMAIN m : j <= k + 1 <=> j <= k \/ j = k + 1
        BY <1>1, <2>1
      <3>2. ASSUME NEW x
            PROVE  x \in B(k + 1) <=> x \in B(k) \union {y \in Int : In(p(k + 1), y)}
        <4>1. (\E j \in DOMAIN m : j <= k + 1 /\ In(m[j], x))
                <=> (\E j \in DOMAIN m : j <= k /\ In(m[j], x)) \/ In(m[k + 1], x)
          BY <2>1, <3>1
        <4> HIDE DEF p
        <4>2. QED
          BY <2>3, <4>1
      <3> HIDE DEF B, p
      <3>3. QED
        BY <3>2
    <2> HIDE DEF B, p
    <2>8. Collects(g[k], B(k))
      BY <1>5
    <2>9. Collects(g[k + 1], B(k + 1))
      <3>1. PICK q, C : q = p(k + 1) /\ C = B(k)
        OBVIOUS
      <3>2. /\ q \in Intervals /\ Collects(g[k], C)
            /\ q.size > 0 => Before(C, q.start)
        <4>1. q.size > 0 => Before(C, q.start)
          BY <2>6, <3>1
        <4>2. QED
          BY <2>3, <2>8, <3>1, <4>1
      <3>3. Collects(AddInterval(g[k], q.start, q.size), C \union {x \in Int : In(q, x)})
        BY ONLY <3>2, Overlap = "move", AddAtEnd
      <3>4. QED
        BY <2>4, <2>7, <3>1, <3>3
    <2>10. QED
      BY <2>1, <2>9
  <1>6. n \in S
    <2> HIDE DEF S, n
    <2>1. \A k \in 0 .. n : k \in S
      BY <1>1, <1>4, <1>5, InductionUpTo
    <2>2. QED
      BY <1>1, <2>1
  <1>7. B(n) = Q \union {x \in Int : Has(m, x) /\ In(i2, x)}
    <2>1. \A j \in DOMAIN m : j <= n
      BY <1>1
    <2> HIDE DEF n
    <2>2. QED
      BY <2>1 DEF Has
  <1>8. QED
    BY <1>2, <1>6, <1>7

\* The outer loop.
AndRight(g, a, another) ==
    g = [k \in 0 .. Len(another.m_array) |->
            IF k = 0 THEN Empty ELSE AndWith(a.m_array, g[k - 1], another.m_array[k])]

LEMMA AndSteps ==
    ASSUME Overlap = "move", NEW a, Good(a), NEW another, Good(another)
    PROVE  \E g : AndRight(g, a, another)
                    /\ AndOperator(a, another) = g[Len(another.m_array)]
  <1> DEFINE m == a.m_array
             o == another.m_array
             n == Len(another.m_array)
             T == [k \in 1 .. n |-> [b \in GoodArrays |-> AndWith(m, b, o[k])]]
  <1>1. /\ o \in Seq(BlockInterval) /\ Verify(o) /\ n \in Nat /\ DOMAIN o = 1 .. n
        /\ m \in Seq(BlockInterval) /\ Verify(m) /\ Len(m) \in Nat
    BY GoodIs
  <1>2. \A k \in 1 .. n, b \in GoodArrays : AndWith(m, b, o[k]) \in GoodArrays
    <2>1. ASSUME NEW k \in 1 .. n, NEW b \in GoodArrays
          PROVE  AndWith(m, b, o[k]) \in GoodArrays
      <3>1. o[k] \in Intervals
        BY <1>1, Elements, Apart DEF Intervals
      <3>2. Good(b)
        BY GoodArraysAre
      <3> HIDE DEF m, o, n
      <3>3. PICK g \in [0 .. Len(m) -> GoodArrays] : AndWith(m, b, o[k]) = g[Len(m)]
        BY <1>1, <3>1, <3>2, AndWithSteps
      <3>4. QED
        BY <1>1, <3>3
    <2>2. QED
      BY <2>1
  <1>3. Steps(n, GoodArrays, Empty, T)
    <2>1. T \in [1 .. n -> [GoodArrays -> GoodArrays]]
      BY <1>2
    <2>2. Empty \in GoodArrays
      BY GoodArraysAre, EmptyIsGood
    <2> HIDE DEF T, n
    <2>3. QED
      BY <1>1, <2>1, <2>2 DEF Steps
  <1>4. PICK f \in [0 .. n -> GoodArrays] :
            f = [k \in 0 .. n |-> IF k = 0 THEN Empty ELSE T[k][f[k - 1]]]
    <2> HIDE DEF T, n
    <2>1. QED
      BY <1>3, CountedRecursion
  <1>5. AndRight(f, a, another)
    <2>1. ASSUME NEW k \in 0 .. n
          PROVE  f[k] = IF k = 0 THEN Empty ELSE AndWith(m, f[k - 1], o[k])
      <3>1. k = 0 \/ (k \in 1 .. n /\ k - 1 \in 0 .. n)
        BY <1>1
      <3>2. f[k] = IF k = 0 THEN Empty ELSE T[k][f[k - 1]]
        BY <1>4
      <3>3. k \in 1 .. n /\ f[k - 1] \in GoodArrays
                => T[k][f[k - 1]] = AndWith(m, f[k - 1], o[k])
        OBVIOUS
      <3>4. k - 1 \in 0 .. n => f[k - 1] \in GoodArrays
        BY <1>4
      <3> HIDE DEF T, m, n, o
      <3>5. QED
        BY <3>1, <3>2, <3>3, <3>4
    <2>2. f = [k \in 0 .. n |-> f[k]]
      BY <1>4
    <2>3. QED
      BY <2>1, <2>2 DEF AndRight
  <1>6. AndOperator(a, another)
            = (CHOOSE g : AndRight(g, a, another))[Len(another.m_array)]
    BY DEF AndOperator, AndRight
  <1>7. QED
    BY <1>5, <1>6

\* AndOperator is intersection, unless the result is full: what both arrays have
\* comes in ascending order, so that every piece is added at the end.
LEMMA AndOperatorIs ==
    ASSUME Overlap = "move", NEW a, Good(a), NEW another, Good(another)
    PROVE  AndIsIntersection(a, another)
  <1> DEFINE m == a.m_array
             o == another.m_array
             n == Len(another.m_array)
             B(k) == {x \in Int : Has(m, x) /\ \E j \in DOMAIN o : j <= k /\ In(o[j], x)}
  <1>1. /\ o \in Seq(BlockInterval) /\ Verify(o) /\ n \in Nat /\ DOMAIN o = 1 .. n
        /\ m \in Seq(BlockInterval) /\ Verify(m)
    BY GoodIs
  <1>2. PICK g : AndRight(g, a, another) /\ AndOperator(a, another) = g[n]
    BY AndSteps
  <1>3. \A k \in 0 .. n : g[k] = IF k = 0 THEN Empty ELSE AndWith(m, g[k - 1], o[k])
    BY <1>2 DEF AndRight
  <1> DEFINE S == {k \in 0 .. n : Collects(g[k], B(k))}
  <1>4. 0 \in S
    <2>1. B(0) = {}
      BY <1>1
    <2>2. g[0] = Empty /\ 0 \in 0 .. n
      BY <1>1, <1>3
    <2>3. Good(Empty) /\ \A x \in Int : ~ Has(Empty.m_array, x)
      BY EmptyIsGood DEF Has
    <2> HIDE DEF B
    <2>4. Collects(g[0], B(0))
      BY <2>1, <2>2, <2>3 DEF Collects
    <2>5. QED
      BY <2>2, <2>4
  <1>5. ASSUME NEW k \in 0 .. n - 1, k \in S
        PROVE  k + 1 \in S
    <2>1. /\ k + 1 \in DOMAIN o /\ k + 1 \in 0 .. n /\ k + 1 # 0 /\ (k + 1) - 1 = k
          /\ k \in Nat
      BY <1>1
    <2>2. o[k + 1] \in Intervals
      BY <1>1, <2>1, Elements, Apart DEF Intervals
    <2>3. g[k + 1] = AndWith(m, g[k], o[k + 1])
      BY <1>3, <2>1
    <2>4. Before(B(k), o[k + 1].start)
      <3>1. ASSUME NEW x \in B(k)
            PROVE  x \in Int /\ x + 1 < o[k + 1].start
        <4>1. PICK j \in DOMAIN o : j <= k /\ In(o[j], x) /\ x \in Int
          BY <3>1
        <4>2. j < k + 1
          BY <1>1, <2>1, <4>1
        <4>3. o[j].start + o[j].size < o[k + 1].start
          BY <1>1, <2>1, <4>2, Apart
        <4>4. o[j].start \in Nat /\ o[j].size \in Nat /\ o[k + 1].start \in Nat
          BY <1>1, <2>1, Elements
        <4>5. x < o[j].start + o[j].size
          BY <4>1 DEF In
        <4> HIDE DEF o
        <4>6. QED
          BY <4>1, <4>3, <4>4, <4>5
      <3> HIDE DEF B
      <3>2. QED
        BY <3>1 DEF Before
    <2>5. B(k + 1) = B(k) \union {x \in Int : Has(m, x) /\ In(o[k + 1], x)}
      <3>1. \A j \in DOMAIN o : j <= k + 1 <=> j <= k \/ j = k + 1
        BY <1>1, <2>1
      <3>2. ASSUME NEW x
            PROVE  (\E j \in DOMAIN o : j <= k + 1 /\ In(o[j], x))
                    <=> (\E j \in DOMAIN o : j <= k /\ In(o[j], x)) \/ In(o[k + 1], x)
        BY <2>1, <3>1
      <3> HIDE DEF m, o
      <3>3. QED
        BY <3>2
    <2> HIDE DEF B, m, o, n
    <2>6. Collects(g[k], B(k))
      BY <1>5
    <2>7. Collects(g[k + 1], B(k + 1))
      BY <1>1, <2>2, <2>3, <2>4, <2>5, <2>6, AndWithIs
    <2>8. QED
      BY <2>1, <2>7
  <1>6. n \in S
    <2> HIDE DEF S, n
    <2>1. \A k \in 0 .. n : k \in S
      BY <1>1, <1>4, <1>5, InductionUpTo
    <2>2. QED
      BY <1>1, <2>1
  <1>7. \A x \in Int : x \in B(n) <=> Has(m, x) /\ Has(o, x)
    <2>1. \A j \in DOMAIN o : j <= n
      BY <1>1
    <2> HIDE DEF n, m
    <2>2. QED
      BY <2>1 DEF Has
  <1>8. PICK both : both = AndOperator(a, another)
    OBVIOUS
  <1>9. Collects(both, B(n))
    BY <1>2, <1>6, <1>8
  <1>10. /\ \A x : x \in Blocks(a) <=> x \in Nat /\ Has(m, x)
         /\ \A x : x \in Blocks(another) <=> x \in Nat /\ Has(o, x)
         /\ \A x : x \in Blocks(both) <=> x \in Nat /\ Has(both.m_array, x)
    <2>1. Good(both)
      BY <1>9 DEF Collects
    <2>2. QED
      BY <2>1, GoodIs, BlocksAre
  <1>11. \A x \in Nat : x \in Int
    OBVIOUS
  <1> HIDE DEF B, m, o, n
  <1>12. Blocks(both) \subseteq Blocks(a) \intersect Blocks(another)
    BY <1>7, <1>9, <1>10, <1>11 DEF Collects
  <1>13. ASSUME Len(both.m_array) < MaxValidSize
         PROVE  Blocks(a) \intersect Blocks(another) \subseteq Blocks(both)
    BY <1>7, <1>9, <1>10, <1>11, <1>13 DEF Collects
  <1>14. QED
    BY <1>8, <1>12, <1>13 DEF AndIsIntersection

\* The queries agree with sets of numbers, in every array there is, and the
\* common part of two arrays is what both have.
THEOREM QueriesCorrect ==
    ASSUME Overlap = "move"
    PROVE  Spec => []QueriesAgree
  <1>1. TypeOK => QueriesAgree
    <2> SUFFICES ASSUME Good(array)
                 PROVE  QueriesAgree
      BY TypeIsGood
    <2>1. \A another \in Others : AndIsIntersection(array, another)
      BY OthersAreGood, AndOperatorIs
    <2>2. QED
      BY <2>1, LooksAre DEF QueriesAgree
  <1>2. QED
    BY <1>1, TypeCorrect, PTL
====

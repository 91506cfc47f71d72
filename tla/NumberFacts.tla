---------------------------- MODULE NumberFacts ----------------------------
(***************************************************************************)
(* What the proofs share about numbers: induction with a set in place of a *)
(* predicate, least elements, and division.                                *)
(***************************************************************************)
EXTENDS Integers, WellFoundedInduction, TLAPS

\* A set with zero and every successor has every natural number.
LEMMA SetInduct ==
    ASSUME NEW S, 0 \in S, \A n \in Nat : n \in S => n + 1 \in S
    PROVE  Nat \subseteq S
  <1> DEFINE T == Nat \ S
  <1>1. SUFFICES ASSUME T # {} PROVE FALSE
    OBVIOUS
  <1>2. T \subseteq Nat
    OBVIOUS
  <1>3. \E x \in T : \A y \in T : ~(<<y, x>> \in OpToRel(<, Nat))
    BY <1>1, <1>2, NatLessThanWellFounded, WFMin
  <1>4. PICK x \in T : \A y \in T : ~(<<y, x>> \in OpToRel(<, Nat))
    BY <1>3
  <1>5. x \in Nat /\ x # 0 /\ x - 1 \in Nat
    OBVIOUS
  <1>6. x - 1 \notin T
    <2>1. <<x - 1, x>> \in OpToRel(<, Nat)
      BY <1>5 DEF OpToRel
    <2>2. QED
      BY <1>4, <2>1
  <1>7. x - 1 \in S /\ (x - 1) + 1 = x
    BY <1>5, <1>6
  <1>8. QED
    BY <1>5, <1>7

\* A set of naturals that is not empty has a smallest element.
LEMMA LeastNumber ==
    ASSUME NEW T, T \subseteq Nat, T # {}
    PROVE  \E x \in T : \A y \in T : x <= y
  <1>1. PICK x \in T : \A y \in T : ~(<<y, x>> \in OpToRel(<, Nat))
    BY NatLessThanWellFounded, WFMin
  <1>2. ASSUME NEW y \in T PROVE x <= y
    <2>1. ~(<<y, x>> \in OpToRel(<, Nat))
      BY <1>1
    <2>2. y \in Nat /\ x \in Nat
      OBVIOUS
    <2>3. QED
      BY <2>1, <2>2 DEF OpToRel
  <1>3. QED
    BY <1>2

-----------------------------------------------------------------------------
LEMMA MulStep ==
    ASSUME NEW w \in Nat, NEW a \in Nat, NEW b \in Nat, a < b
    PROVE  w * a + w <= w * b /\ w * a \in Nat /\ w * b \in Nat
  <1>1. b = a + 1 + (b - a - 1) /\ b - a - 1 \in Nat
    OBVIOUS
  <1>2. w * b = w * a + w + w * (b - a - 1)
    BY <1>1
  <1>3. w * (b - a - 1) \in Nat /\ w * a \in Nat
    BY <1>1
  <1>4. QED
    BY <1>2, <1>3

LEMMA DivMod ==
    ASSUME NEW x \in Nat, NEW w \in Nat \ {0}
    PROVE  /\ x \div w \in Nat /\ x % w \in Nat /\ x % w < w
           /\ x = w * (x \div w) + (x % w)
  OBVIOUS

\* Quotient and remainder are unique.
LEMMA DivUnique ==
    ASSUME NEW w \in Nat \ {0}, NEW a \in Nat, NEW r \in Nat, r < w
    PROVE  (w * a + r) \div w = a /\ (w * a + r) % w = r
  <1> DEFINE x == w * a + r
             b == x \div w
             m == x % w
  <1>1. x \in Nat
    OBVIOUS
  <1>2. b \in Nat /\ m \in Nat /\ m < w /\ x = w * b + m
    BY <1>1, DivMod
  <1>3. w * a + r = w * b + m
    BY <1>2
  <1> HIDE DEF b, m
  <1>4. ~(a < b)
    <2> SUFFICES ASSUME a < b PROVE FALSE
      OBVIOUS
    <2>1. w * a + w <= w * b /\ w * a \in Nat /\ w * b \in Nat
      BY <1>2, MulStep
    <2>2. QED
      BY <1>2, <1>3, <2>1
  <1>5. ~(b < a)
    <2> SUFFICES ASSUME b < a PROVE FALSE
      OBVIOUS
    <2>1. w * b + w <= w * a /\ w * a \in Nat /\ w * b \in Nat
      BY <1>2, MulStep
    <2>2. QED
      BY <1>2, <1>3, <2>1
  <1>6. a = b
    BY <1>2, <1>4, <1>5
  <1>7. r = m
    <2>1. w * a \in Nat
      OBVIOUS
    <2>2. QED
      BY <1>2, <1>3, <1>6, <2>1
  <1>8. QED
    BY <1>6, <1>7 DEF b, m

\* Of two times the later one has gone on at least as far as a counter of w
\* says that shows more.
LEMMA CounterLags ==
    ASSUME NEW w \in Nat \ {0}, NEW s \in Nat, NEW t \in Nat, s <= t, NEW u \in Nat,
           t % w >= (s % w) + u
    PROVE  t - s >= u
  <1> DEFINE a == s \div w
             b == t \div w
             i == s % w
             j == t % w
  <1>1. /\ a \in Nat /\ i \in Nat /\ i < w /\ s = w * a + i
        /\ b \in Nat /\ j \in Nat /\ j < w /\ t = w * b + j
    BY DivMod
  <1>2. j >= i + u
    OBVIOUS
  <1> HIDE DEF a, b, i, j
  <1>3. ~(b < a)
    <2> SUFFICES ASSUME b < a PROVE FALSE
      OBVIOUS
    <2>1. w * b + w <= w * a /\ w * a \in Nat /\ w * b \in Nat
      BY <1>1, MulStep
    <2>2. QED
      BY <1>1, <1>2, <2>1
  <1>4. CASE a < b
    <2>1. w * a + w <= w * b /\ w * a \in Nat /\ w * b \in Nat
      BY <1>1, <1>4, MulStep
    <2>2. QED
      BY <1>1, <1>2, <2>1
  <1>5. CASE a = b
    <2>1. w * a \in Nat
      BY <1>1
    <2>2. QED
      BY <1>1, <1>2, <1>5, <2>1
  <1>6. QED
    BY <1>1, <1>3, <1>4, <1>5

\* Rounding up to a multiple.
LEMMA RoundUp ==
    ASSUME NEW n \in Nat, NEW c \in Nat \ {0}
    PROVE  LET q == (n + c - 1) \div c
           IN  q \in Nat /\ q * c >= n /\ q * c <= n + c - 1
  <1> DEFINE m == n + c - 1
  <1>1. m \in Nat
    OBVIOUS
  <1> HIDE DEF m
  <1>2. /\ m \div c \in Int /\ m % c \in 0 .. c - 1
        /\ m = c * (m \div c) + (m % c)
    BY <1>1
  <1>3. m \div c \in Nat
    BY <1>1
  <1>4. (m \div c) * c = c * (m \div c)
    BY <1>2
  <1>5. c * (m \div c) = m - (m % c)
    BY <1>1, <1>2
  <1>6. QED
    BY <1>1, <1>2, <1>3, <1>4, <1>5 DEF m

\* The upper half of a counter of h times h that shows the same number twice,
\* less than a turn apart: between the two the lower half goes with it.
LEMMA SameHalf ==
    ASSUME NEW h \in Nat \ {0}, NEW r \in Nat, NEW s \in Nat, NEW t \in Nat, r <= s, s <= t,
           t - r <= h * h - h,
           (r % (h * h)) \div h = (t % (h * h)) \div h
    PROVE  ((r % (h * h)) \div h) * h + ((s % (h * h)) % h) = s % (h * h)
  <1> DEFINE w == h * h
             a == r \div w
             c == t \div w
             x == r % w
             z == t % w
             k == x \div h
             l == x % h
             m == z % h
  <1>0. w \in Nat \ {0} /\ w >= h
    OBVIOUS
  <1>1. a \in Nat /\ x \in Nat /\ x < w /\ r = w * a + x
    BY <1>0, DivMod
  <1>2. c \in Nat /\ z \in Nat /\ z < w /\ t = w * c + z
    BY <1>0, DivMod
  <1>3. k \in Nat /\ l \in Nat /\ l < h /\ x = h * k + l
    BY <1>1, DivMod
  <1>4. m \in Nat /\ m < h /\ z = h * k + m
    BY <1>2, DivMod
  <1>5. t - r <= w - h /\ h * k \in Nat
    BY <1>3
  <1> HIDE DEF w, a, c, x, z, k, l, m
  <1>6. a = c
    <2>1. ~(c < a)
      <3> SUFFICES ASSUME c < a PROVE FALSE
        OBVIOUS
      <3>1. w * c + w <= w * a /\ w * a \in Nat /\ w * c \in Nat
        BY <1>0, <1>1, <1>2, MulStep
      <3> QED
        BY <1>0, <1>1, <1>2, <1>3, <1>4, <1>5, <3>1
    <2>2. ~(a < c)
      <3> SUFFICES ASSUME a < c PROVE FALSE
        OBVIOUS
      <3>1. w * a + w <= w * c /\ w * a \in Nat /\ w * c \in Nat
        BY <1>0, <1>1, <1>2, MulStep
      <3> QED
        BY <1>0, <1>1, <1>2, <1>3, <1>4, <1>5, <3>1
    <2> QED
      BY <1>1, <1>2, <2>1, <2>2
  <1> DEFINE base == w * a + h * k
             n == s - base
  <1>7. base \in Nat /\ n \in Nat /\ n < h /\ s = w * a + (h * k + n)
    <2>1. w * a \in Nat
      BY <1>0, <1>1
    <2> QED
      BY <1>1, <1>2, <1>3, <1>4, <1>5, <1>6, <2>1
  <1>8. h * k + n < w /\ h * k + n \in Nat
    <2>1. k < h
      <3> SUFFICES ASSUME k >= h PROVE FALSE
        BY <1>3
      <3>1. CASE k = h
        BY <1>1, <1>3, <3>1 DEF w
      <3>2. CASE h < k
        <4>1. h * h + h <= h * k
          BY <1>3, <3>2, MulStep
        <4> QED
          BY <1>1, <1>3, <4>1, <1>0 DEF w
      <3> QED
        BY <1>3, <3>1, <3>2
    <2>2. h * k + h <= h * h
      BY <1>3, <2>1, MulStep
    <2> HIDE DEF n
    <2> QED
      BY <1>5, <1>7, <2>2 DEF w
  <1> HIDE DEF base, n
  <1>9. s % w = h * k + n
    <2>1. (w * a + (h * k + n)) % w = h * k + n
      BY <1>0, <1>1, <1>8, DivUnique
    <2> QED
      BY <1>7, <2>1
  <1>10. (h * k + n) % h = n
    BY <1>3, <1>7, DivUnique
  <1>11. h * k = k * h
    BY <1>3
  <1> QED
    BY <1>7, <1>9, <1>10, <1>11, <1>3 DEF k, x, w

\* Rounding to the nearest multiple of 2 * g, as a half rounded up.
LEMMA RoundToNearest ==
    ASSUME NEW g \in Nat \ {0}, NEW q \in Nat, NEW e \in Int, -g <= e, e < g,
           q * (2 * g) + e >= 0
    PROVE  LET d == (q * (2 * g) + e) \div g IN (d \div 2) + (d % 2) = q
  <1>1. CASE e >= 0
    <2>1. q * (2 * g) + e = g * (2 * q) + e
      OBVIOUS
    <2>2. (g * (2 * q) + e) \div g = 2 * q
      BY <1>1, DivUnique
    <2> QED
      BY <2>1, <2>2
  <1>2. CASE e < 0
    <2>0. q # 0
      BY <1>2
    <2>1. q * (2 * g) + e = g * (2 * q - 1) + (g + e)
      OBVIOUS
    <2>2. 2 * q - 1 \in Nat /\ g + e \in Nat /\ g + e < g
      BY <1>2, <2>0
    <2>3. (g * (2 * q - 1) + (g + e)) \div g = 2 * q - 1
      BY <2>2, DivUnique
    <2>4. ((2 * q - 1) \div 2) + ((2 * q - 1) % 2) = q
      BY <2>0
    <2> QED
      BY <2>1, <2>3, <2>4
  <1> QED
    BY <1>1, <1>2

-----------------------------------------------------------------------------
\* Recursion over an interval: the first value, and for each number the step
\* that leads to it, as a function.
AreSteps(step, S, n) == step \in [1 .. n -> [S -> S]]
GoesBySteps(g, S, n, first, step) ==
    g \in [0 .. n -> S] /\ g[0] = first /\ \A k \in 1 .. n : g[k] = step[k][g[k - 1]]

\* A function defined so exists.
LEMMA Recursion ==
    ASSUME NEW S, NEW n, NEW first, NEW step, n \in Nat, first \in S, AreSteps(step, S, n)
    PROVE  \E g : GoesBySteps(g, S, n, first, step)
  <1> USE DEF AreSteps
  <1> DEFINE Run(m, g) == g[0] = first /\ \A k \in 1 .. m : g[k] = step[k][g[k - 1]]
             T == {m \in Nat : m <= n => \E g \in [0 .. m -> S] : Run(m, g)}
  <1>1. 0 \in T
    <2> DEFINE g == [k \in 0 .. 0 |-> first]
    <2>1. g \in [0 .. 0 -> S] /\ Run(0, g)
      OBVIOUS
    <2>2. QED
      BY <2>1
  <1>2. ASSUME NEW m \in Nat, m \in T PROVE m + 1 \in T
    <2>1. SUFFICES ASSUME m + 1 <= n PROVE \E g \in [0 .. m + 1 -> S] : Run(m + 1, g)
      OBVIOUS
    <2>2. PICK g \in [0 .. m -> S] : Run(m, g)
      BY <1>2, <2>1
    <2> DEFINE last == step[m + 1][g[m]]
               h == [k \in 0 .. m + 1 |-> IF k = m + 1 THEN last ELSE g[k]]
    <2>3. last \in S
      <3>1. m + 1 \in 1 .. n /\ m \in 0 .. m
        BY <2>1
      <3>2. step[m + 1] \in [S -> S] /\ g[m] \in S
        BY <3>1
      <3>3. QED
        BY <3>2
    <2>4. h \in [0 .. m + 1 -> S]
      BY <2>3
    <2>5. h[0] = first
      BY <2>2
    <2>6. ASSUME NEW k \in 1 .. m + 1 PROVE h[k] = step[k][h[k - 1]]
      <3>1. CASE k = m + 1
        <4>1. h[k] = last /\ k - 1 = m /\ h[m] = g[m]
          BY <3>1
        <4>2. QED
          BY <3>1, <4>1
      <3>2. CASE k # m + 1
        <4>1. k \in 1 .. m /\ k \in 0 .. m + 1 /\ k - 1 \in 0 .. m + 1 /\ k - 1 # m + 1
          BY <3>2
        <4>2. h[k] = g[k] /\ h[k - 1] = g[k - 1]
          BY <4>1
        <4>3. QED
          BY <2>2, <4>1, <4>2
      <3>3. QED
        BY <3>1, <3>2
    <2> HIDE DEF h
    <2>7. Run(m + 1, h)
      BY <2>5, <2>6
    <2>8. QED
      BY <2>4, <2>7
  <1> HIDE DEF T
  <1>3. Nat \subseteq T
    BY <1>1, <1>2, SetInduct
  <1>4. n \in T
    BY <1>3
  <1>5. QED
    BY <1>4 DEF T, GoesBySteps

===============================================================================

--------------------------------- MODULE Lists ---------------------------------
(***************************************************************************)
(* Lists as the pipelines of the backend make them: the items of a list    *)
(* that pass a test, in their order, the first few of a list, and what the *)
(* numbers in a list add up to; with the facts that the proofs about these *)
(* pipelines rest on.                                                      *)
(***************************************************************************)
EXTENDS Sequences, FiniteSetsExt, FiniteSetTheorems

\* A list, whatever is in it.
IsList(x) == x \in Seq({ x[i] : i \in DOMAIN x })

\* The first n items, all if there are fewer.
Cut(seq, n) == SubSeq(seq, 1, IF n < Len(seq) THEN n ELSE Len(seq))

\* The how-manieth of some places a place is.
Rank(places, p) == Cardinality({ q \in places : q <= p })

\* The items at some places of a list, in their order.
Where(seq, places) ==
  [k \in 1 .. Cardinality(places) |-> seq[CHOOSE p \in places : Rank(places, p) = k]]

\* The sum of a list of numbers.
Total(amounts) ==
  LET upto[n \in 0 .. Len(amounts)] == IF n = 0 THEN 0 ELSE upto[n - 1] + amounts[n]
  IN  upto[Len(amounts)]

-----------------------------------------------------------------------------
(* Numbers *)

NatLess == {p \in Nat \X Nat : p[1] < p[2]}

\* The naturals are well-founded, ...
LEMMA NatLessIsWellFounded == IsWellFoundedOn(NatLess, Nat)
<1>1. OpToRel(<, Nat) = NatLess
  BY DEF OpToRel, NatLess
<1>2. QED
  BY <1>1, NatLessThanWellFounded

\* ... so every set of some has a least one, ...
LEMMA LeastElement ==
  ASSUME NEW S \in SUBSET Nat, S # {}
  PROVE  \E n \in S : \A m \in S : n <= m
<1>1. PICK n \in S : \A m \in S : ~(<<m, n>> \in NatLess)
  BY NatLessIsWellFounded, WFMin
<1>2. ASSUME NEW m \in S PROVE n <= m
  <2>1. m \in Nat /\ n \in Nat /\ <<m, n>> \notin NatLess
    BY <1>1
  <2>2. QED
    BY <2>1 DEF NatLess
<1>3. QED
  BY <1>2

\* ... and every bounded one a greatest.
LEMMA GreatestElement ==
  ASSUME NEW N \in Nat, NEW S \in SUBSET (0 .. N), S # {}
  PROVE  \E n \in S : \A m \in S : m <= n
<1> DEFINE T == {N - s : s \in S}
<1>1. ASSUME NEW s \in S PROVE N - s \in Nat
  OBVIOUS
<1>2. T \in SUBSET Nat /\ T # {}
  BY <1>1
<1>3. PICK t \in T : \A m \in T : t <= m
  BY <1>2, LeastElement
<1>4. PICK n \in S : t = N - n
  OBVIOUS
<1>5. \A m \in S : N - m \in T
  OBVIOUS
<1>6. \A m \in S : m <= n
  BY <1>3, <1>4, <1>5
<1>7. QED
  BY <1>6

\* The greater and the less of two.
LEMMA MaxOfTwo ==
  ASSUME NEW a \in Int, NEW b \in Int
  PROVE  Max({a, b}) = IF a >= b THEN a ELSE b
<1> DEFINE m == IF a >= b THEN a ELSE b
<1>1. m \in {a, b} /\ \A y \in {a, b} : m >= y
  OBVIOUS
<1>2. \A x \in {a, b} : (\A y \in {a, b} : x >= y) => x = m
  OBVIOUS
<1> HIDE DEF m
<1>3. Max({a, b}) = m
  BY <1>1, <1>2 DEF Max
<1>4. QED
  BY <1>3 DEF m

LEMMA MinOfTwo ==
  ASSUME NEW a \in Int, NEW b \in Int
  PROVE  Min({a, b}) = IF a <= b THEN a ELSE b
<1> DEFINE m == IF a <= b THEN a ELSE b
<1>1. m \in {a, b} /\ \A y \in {a, b} : m <= y
  OBVIOUS
<1>2. \A x \in {a, b} : (\A y \in {a, b} : x <= y) => x = m
  OBVIOUS
<1> HIDE DEF m
<1>3. Min({a, b}) = m
  BY <1>1, <1>2 DEF Min
<1>4. QED
  BY <1>3 DEF m

\* What holds at 0 and is passed on holds up to any bound.
LEMMA StepByStep ==
  ASSUME NEW N \in Nat, NEW S, 0 \in S, \A n \in 1 .. N : n - 1 \in S => n \in S
  PROVE  \A n \in 0 .. N : n \in S
<1> SUFFICES ASSUME NEW k \in 0 .. N, k \notin S PROVE FALSE
  OBVIOUS
<1> DEFINE T == {n \in 0 .. N : n \notin S}
<1>1. T \in SUBSET Nat /\ T # {}
  OBVIOUS
<1>2. PICK n \in T : \A m \in T : n <= m
  BY <1>1, LeastElement
<1>3. n # 0 /\ n \in 1 .. N /\ n - 1 \in 0 .. N
  BY <1>2
<1>4. n - 1 \in S
  BY <1>2, <1>3
<1>5. QED
  BY <1>2, <1>3, <1>4

\* What a division leaves is less than the divisor, ...
LEMMA Quotient ==
  ASSUME NEW a \in Int, NEW d \in Nat \ {0}
  PROVE  a \div d \in Int /\ d * (a \div d) <= a /\ a < d * (a \div d) + d
OBVIOUS

\* ... a multiple less than the next one is none above it, ...
LEMMA LeastFactor ==
  ASSUME NEW d \in Nat \ {0}, NEW m \in Int, NEW n \in Int, d * m < d * n + d
  PROVE  m <= n
OBVIOUS

\* ... so more divided is no less.
LEMMA QuotientGrows ==
  ASSUME NEW a \in Int, NEW b \in Int, a <= b, NEW d \in Nat \ {0}
  PROVE  a \div d <= b \div d
<1>1. PICK m \in Int : m = a \div d /\ d * m <= a
  BY Quotient
<1>2. PICK n \in Int : n = b \div d /\ b < d * n + d
  BY Quotient
<1>3. d * m \in Int /\ d * n \in Int
  OBVIOUS
<1>4. d * m < d * n + d
  BY <1>1, <1>2, <1>3
<1>5. QED
  BY <1>1, <1>2, <1>4, LeastFactor

\* A larger ratio is cut to no less, ...
LEMMA PartGrows ==
  ASSUME NEW a \in Int, NEW b \in Int, NEW d \in Nat \ {0}, NEW e \in Nat \ {0}, a * e <= b * d
  PROVE  a \div d \in Int /\ b \div e \in Int /\ a \div d <= b \div e
<1>1. PICK m \in Int : m = a \div d /\ d * m <= a
  BY Quotient
<1>2. PICK n \in Int : n = b \div e /\ b < e * n + e
  BY Quotient
<1>3. \A x \in Int, y \in Int, k \in Nat \ {0} : /\ x <= y => x * k <= y * k
                                                 /\ x < y => x * k < y * k
  OBVIOUS
<1>4. (d * m) * e <= a * e /\ b * d < (e * n + e) * d
  <2>1. d * m \in Int /\ e * n + e \in Int
    OBVIOUS
  <2>2. QED
    BY <1>1, <1>2, <1>3, <2>1
<1>5. (d * m) * e < (e * n + e) * d
  <2>1. (d * m) * e \in Int /\ a * e \in Int /\ b * d \in Int /\ (e * n + e) * d \in Int
    OBVIOUS
  <2>2. QED
    BY <1>4, <2>1
<1>6. PICK k \in Nat \ {0} : k = e * d
  OBVIOUS
<1>7. (d * m) * e = k * m /\ (e * n + e) * d = k * n + k
  BY <1>6
<1>8. k * m < k * n + k
  BY <1>5, <1>7
<1>9. m <= n
  BY <1>8, LeastFactor
<1>10. QED
  BY <1>1, <1>2, <1>9

\* A larger ratio is rounded to no less, ...
LEMMA RatioGrows ==
  ASSUME NEW a \in Int, NEW b \in Int, NEW d \in Nat \ {0}, NEW e \in Nat \ {0}, a * e <= b * d
  PROVE  /\ (2 * a + d) \div (2 * d) \in Int /\ (2 * b + e) \div (2 * e) \in Int
         /\ (2 * a + d) \div (2 * d) <= (2 * b + e) \div (2 * e)
<1>1. 2 * a + d \in Int /\ 2 * d \in Nat \ {0} /\ 2 * b + e \in Int /\ 2 * e \in Nat \ {0}
  OBVIOUS
<1>2. PICK m \in Int : m = (2 * a + d) \div (2 * d) /\ 2 * d * m <= 2 * a + d
  BY <1>1, Quotient
<1>3. PICK n \in Int : n = (2 * b + e) \div (2 * e) /\ 2 * b + e < 2 * e * n + 2 * e
  BY <1>1, Quotient
<1>4. d * m \in Int /\ e * n \in Int /\ 2 * (d * m) <= 2 * a + d /\ 2 * b < 2 * (e * n) + e
  <2>1. 2 * d * m = 2 * (d * m) /\ 2 * e * n = 2 * (e * n) /\ d * m \in Int /\ e * n \in Int
    OBVIOUS
  <2>2. QED
    BY <1>2, <1>3, <2>1
<1>5. PICK p \in Int : p = d * m
  BY <1>4
<1>6. PICK q \in Int : q = e * n
  BY <1>4
<1>7. 2 * p - d <= 2 * a /\ 2 * b + 1 <= 2 * q + e
  BY <1>4, <1>5, <1>6
<1>8. (2 * p - d) * e <= 2 * a * e /\ (2 * b + 1) * d <= (2 * q + e) * d
  <2>1. \A x \in Int, y \in Int, k \in Nat : x <= y => x * k <= y * k
    OBVIOUS
  <2>2. 2 * p - d \in Int /\ 2 * a \in Int /\ 2 * b + 1 \in Int /\ 2 * q + e \in Int /\ e \in Nat /\ d \in Nat
    OBVIOUS
  <2>3. QED
    BY <1>7, <2>1, <2>2
<1>9. (2 * p - d) * e < (2 * q + e) * d
  <2>1. a * e \in Int /\ b * d \in Int /\ 2 * a * e = 2 * (a * e) /\ (2 * b + 1) * d = 2 * (b * d) + d
    OBVIOUS
  <2>2. (2 * p - d) * e \in Int /\ (2 * q + e) * d \in Int
    OBVIOUS
  <2>3. QED
    BY <1>8, <2>1, <2>2
<1>10. 2 * (p * e) < 2 * (q * d) + 2 * (e * d)
  <2>1. (2 * p - d) * e = 2 * (p * e) - e * d /\ (2 * q + e) * d = 2 * (q * d) + e * d
    OBVIOUS
  <2>2. p * e \in Int /\ q * d \in Int /\ e * d \in Int
    OBVIOUS
  <2>3. QED
    BY <1>9, <2>1, <2>2
<1>11. PICK k \in Nat \ {0} : k = e * d
  OBVIOUS
<1>12. p * e = k * m /\ q * d = k * n
  BY <1>5, <1>6, <1>11
<1>13. k * m < k * n + k
  <2>1. k * m \in Int /\ k * n \in Int
    OBVIOUS
  <2>2. QED
    BY <1>10, <1>11, <1>12, <2>1
<1>14. m <= n
  BY <1>13, LeastFactor
<1>15. QED
  BY <1>2, <1>3, <1>14

\* ... and a whole one to itself.
LEMMA RatioOfWhole ==
  ASSUME NEW k \in Int, NEW d \in Nat \ {0}
  PROVE  (2 * (k * d) + d) \div (2 * d) = k
<1>1. PICK x \in Int : x = k * d
  OBVIOUS
<1>2. 2 * x + d \in Int /\ 2 * d \in Nat \ {0}
  OBVIOUS
<1>3. PICK m \in Int : m = (2 * x + d) \div (2 * d) /\ 2 * d * m <= 2 * x + d /\ 2 * x + d < 2 * d * m + 2 * d
  BY <1>2, Quotient
<1>4. PICK y \in Int : y = d * m
  OBVIOUS
<1>5. 2 * d * m = 2 * y
  BY <1>4
<1>6. x < y + d /\ y < x + d
  BY <1>3, <1>5
<1>7. d * k < d * m + d /\ d * m < d * k + d
  BY <1>1, <1>4, <1>6
<1>8. k <= m /\ m <= k
  BY <1>7, LeastFactor
<1>9. QED
  BY <1>1, <1>3, <1>8

\* f starts with b and goes on by the steps given.
Recurs(f, b, step, N) == f[0] = b /\ \A n \in 1 .. N : f[n] = step[n][f[n - 1]]

\* A recursion whose step is a function of its place and of what came before has a solution.
LEMMA Recursion ==
  ASSUME NEW N \in Nat, NEW V, NEW b \in V, NEW step \in [1 .. N -> [V -> V]]
  PROVE  \E f \in [0 .. N -> V] : Recurs(f, b, step, N)
<1> DEFINE Some(m) == \E f \in [0 .. m -> V] : f[0] = b /\ \A n \in 1 .. m : f[n] = step[n][f[n - 1]]
<1> DEFINE S == {m \in 0 .. N : Some(m)}
<1>1. 0 \in S
  <2>1. [n \in 0 .. 0 |-> b] \in [0 .. 0 -> V] /\ [n \in 0 .. 0 |-> b][0] = b /\ 1 .. 0 = {}
    OBVIOUS
  <2>2. Some(0)
    BY <2>1
  <2>3. QED
    BY <2>2
<1>2. ASSUME NEW m \in 1 .. N, m - 1 \in S PROVE m \in S
  <2>1. PICK f \in [0 .. (m - 1) -> V] : f[0] = b /\ \A n \in 1 .. (m - 1) : f[n] = step[n][f[n - 1]]
    BY <1>2
  <2>2. f[m - 1] \in V /\ step[m] \in [V -> V]
    BY <1>2
  <2>3. PICK v \in V : v = step[m][f[m - 1]]
    BY <2>2
  <2> DEFINE g == [n \in 0 .. m |-> IF n = m THEN v ELSE f[n]]
  <2>4. ASSUME NEW n \in 0 .. m PROVE (IF n = m THEN v ELSE f[n]) \in V
    BY <1>2, <2>4
  <2>5. g \in [0 .. m -> V]
    BY <2>4
  <2>6. g[0] = b
    BY <1>2, <2>1
  <2>7. ASSUME NEW n \in 1 .. m PROVE g[n] = step[n][g[n - 1]]
    <3>1. CASE n = m
      BY <1>2, <2>3, <3>1
    <3>2. CASE n # m
      <4>1. n \in 1 .. (m - 1) /\ n - 1 \in 0 .. (m - 1) /\ n - 1 # m
        BY <1>2, <3>2
      <4>2. f[n] = step[n][f[n - 1]]
        BY <2>1, <4>1
      <4>3. g[n] = f[n] /\ g[n - 1] = f[n - 1]
        BY <1>2, <3>2, <4>1
      <4>4. QED
        BY <4>2, <4>3
    <3>3. QED
      BY <3>1, <3>2
  <2> HIDE DEF g
  <2>8. Some(m)
    BY <2>5, <2>6, <2>7
  <2> HIDE DEF Some
  <2>9. QED
    BY <1>2, <2>8
<1> HIDE DEF S
<1>3. N \in S
  <2>1. (\A m \in 1 .. N : m - 1 \in S => m \in S) /\ N \in 0 .. N
    BY <1>2
  <2>2. QED
    BY <1>1, <2>1, StepByStep
<1>4. Some(N)
  BY <1>3 DEF S
<1>5. QED
  BY <1>4 DEF Recurs

\* The sum of a list of integers, step by step.
LEMMA TotalAdds ==
  ASSUME NEW amounts \in Seq(Int)
  PROVE  \E f \in [0 .. Len(amounts) -> Int] :
           /\ f[0] = 0 /\ \A n \in 1 .. Len(amounts) : f[n] = f[n - 1] + amounts[n]
           /\ Total(amounts) = f[Len(amounts)]
<1> DEFINE N == Len(amounts)
<1> DEFINE step == [n \in 1 .. N |-> [v \in Int |-> v + amounts[n]]]
<1>1. N \in Nat /\ \A n \in 1 .. N : amounts[n] \in Int
  OBVIOUS
<1>2. step \in [1 .. N -> [Int -> Int]] /\ 0 \in Int
  BY <1>1
<1> HIDE DEF step
<1>3. PICK f \in [0 .. N -> Int] : Recurs(f, 0, step, N)
  <2> HIDE DEF N
  <2>1. QED
    BY <1>1, <1>2, Recursion
<1>4. ASSUME NEW n \in 1 .. N PROVE f[n] = f[n - 1] + amounts[n]
  <2>1. f[n - 1] \in Int
    BY <1>1
  <2>2. step[n][f[n - 1]] = f[n - 1] + amounts[n]
    BY <2>1 DEF step
  <2>3. QED
    BY <1>3, <2>2 DEF Recurs
<1> DEFINE Is(g) == g = [n \in 0 .. N |-> IF n = 0 THEN 0 ELSE g[n - 1] + amounts[n]]
<1>5. Is(f)
  BY <1>1, <1>3, <1>4 DEF Recurs
<1> DEFINE upto == CHOOSE g : Is(g)
<1>6. Is(upto)
  BY <1>5
<1>7. Total(amounts) = upto[N]
  BY DEF Total
<1> HIDE DEF upto
<1>8. upto[0] = 0 /\ \A n \in 1 .. N : upto[n] = upto[n - 1] + amounts[n]
  BY <1>1, <1>6
<1> DEFINE S == {n \in 0 .. N : upto[n] = f[n]}
<1>9. 0 \in S /\ \A n \in 1 .. N : n - 1 \in S => n \in S
  BY <1>1, <1>3, <1>4, <1>8 DEF Recurs
<1> HIDE DEF S
<1>10. N \in S
  <2> HIDE DEF N
  <2>1. N \in 0 .. N
    BY <1>1
  <2>2. QED
    BY <1>1, <1>9, <2>1, StepByStep
<1>11. upto[N] = f[N]
  BY <1>10 DEF S
<1>12. QED
  BY <1>3, <1>4, <1>7, <1>11 DEF Recurs

\* A sum with one more number is that much more.
LEMMA TotalAppends ==
  ASSUME NEW a \in Seq(Int), NEW x \in Int
  PROVE  Total(Append(a, x)) = Total(a) + x /\ Total(a) \in Int
<1>1. PICK N \in Nat : N = Len(a)
  OBVIOUS
<1>2. PICK b \in Seq(Int) : b = Append(a, x)
  <2>1. Append(a, x) \in Seq(Int)
    OBVIOUS
  <2>2. QED
    BY <2>1
<1>3. Len(b) = N + 1 /\ b[N + 1] = x /\ \A n \in 1 .. N : b[n] = a[n] /\ a[n] \in Int
  BY <1>1, <1>2
<1>4. PICK f \in [0 .. N -> Int] :
        f[0] = 0 /\ (\A n \in 1 .. N : f[n] = f[n - 1] + a[n]) /\ Total(a) = f[N]
  BY <1>1, TotalAdds
<1>5. PICK g \in [0 .. N + 1 -> Int] :
        g[0] = 0 /\ (\A n \in 1 .. N + 1 : g[n] = g[n - 1] + b[n]) /\ Total(b) = g[N + 1]
  BY <1>3, TotalAdds
<1> DEFINE S == {n \in 0 .. N : f[n] = g[n]}
<1>6. 0 \in S
  BY <1>4, <1>5
<1>7. ASSUME NEW n \in 1 .. N, n - 1 \in S PROVE n \in S
  <2>1. f[n] = f[n - 1] + a[n] /\ g[n] = g[n - 1] + b[n] /\ f[n - 1] = g[n - 1] /\ b[n] = a[n]
    <3>1. n \in 1 .. N + 1
      OBVIOUS
    <3>2. QED
      BY <1>3, <1>4, <1>5, <1>7, <3>1
  <2>2. QED
    BY <2>1
<1> HIDE DEF S
<1>8. N \in S
  <2>1. N \in 0 .. N
    OBVIOUS
  <2>2. QED
    BY <1>6, <1>7, <2>1, StepByStep
<1>9. g[N + 1] = g[N] + b[N + 1] /\ f[N] = g[N] /\ f[N] \in Int
  <2>1. N + 1 \in 1 .. N + 1 /\ (N + 1) - 1 = N /\ N \in 0 .. N
    OBVIOUS
  <2>2. QED
    BY <1>4, <1>5, <1>8, <2>1 DEF S
<1>10. QED
  BY <1>2, <1>3, <1>4, <1>5, <1>9

\* A sum of larger numbers is no less, ...
LEMMA TotalGrows ==
  ASSUME NEW a \in Seq(Int), NEW b \in Seq(Int), Len(a) = Len(b), \A i \in 1 .. Len(a) : a[i] <= b[i]
  PROVE  Total(a) \in Int /\ Total(b) \in Int /\ Total(a) <= Total(b)
<1>1. PICK N \in Nat : N = Len(a) /\ N = Len(b)
  OBVIOUS
<1>2. \A i \in 1 .. N : a[i] \in Int /\ b[i] \in Int
  BY <1>1
<1>3. PICK f \in [0 .. N -> Int] :
        f[0] = 0 /\ (\A n \in 1 .. N : f[n] = f[n - 1] + a[n]) /\ Total(a) = f[N]
  BY <1>1, TotalAdds
<1>4. PICK g \in [0 .. N -> Int] :
        g[0] = 0 /\ (\A n \in 1 .. N : g[n] = g[n - 1] + b[n]) /\ Total(b) = g[N]
  BY <1>1, TotalAdds
<1> DEFINE S == {n \in 0 .. N : f[n] <= g[n]}
<1>5. 0 \in S
  BY <1>3, <1>4
<1>6. ASSUME NEW n \in 1 .. N, n - 1 \in S PROVE n \in S
  <2>1. f[n - 1] \in Int /\ g[n - 1] \in Int /\ f[n - 1] <= g[n - 1] /\ a[n] <= b[n]
    BY <1>1, <1>6
  <2>2. f[n] = f[n - 1] + a[n] /\ g[n] = g[n - 1] + b[n] /\ a[n] \in Int /\ b[n] \in Int
    BY <1>2, <1>3, <1>4
  <2>3. \A u, v, x, y \in Int : u <= v /\ x <= y => u + x <= v + y
    OBVIOUS
  <2>4. f[n] <= g[n]
    BY <2>1, <2>2, <2>3
  <2>5. QED
    BY <2>4
<1> HIDE DEF S
<1>7. \A n \in 0 .. N : n \in S
  BY <1>5, <1>6, StepByStep
<1>8. f[N] <= g[N] /\ f[N] \in Int /\ g[N] \in Int
  BY <1>7 DEF S
<1>9. QED
  BY <1>3, <1>4, <1>8

\* ... and if one of them is larger, the sum is, ...
LEMMA TotalGrowsMore ==
  ASSUME NEW a \in Seq(Int), NEW b \in Seq(Int), Len(a) = Len(b), \A i \in 1 .. Len(a) : a[i] <= b[i],
         NEW k \in 1 .. Len(a), a[k] < b[k]
  PROVE  Total(a) \in Int /\ Total(b) \in Int /\ Total(a) < Total(b)
<1>1. PICK N \in Nat : N = Len(a) /\ N = Len(b)
  OBVIOUS
<1>2. \A i \in 1 .. N : a[i] \in Int /\ b[i] \in Int
  BY <1>1
<1>3. PICK f \in [0 .. N -> Int] :
        f[0] = 0 /\ (\A n \in 1 .. N : f[n] = f[n - 1] + a[n]) /\ Total(a) = f[N]
  BY <1>1, TotalAdds
<1>4. PICK g \in [0 .. N -> Int] :
        g[0] = 0 /\ (\A n \in 1 .. N : g[n] = g[n - 1] + b[n]) /\ Total(b) = g[N]
  BY <1>1, TotalAdds
<1>5. k \in 1 .. N
  BY <1>1
<1> DEFINE S == {n \in 0 .. N : f[n] <= g[n] /\ (k <= n => f[n] < g[n])}
<1>6. 0 \in S
  BY <1>3, <1>4, <1>5
<1>7. ASSUME NEW n \in 1 .. N, n - 1 \in S PROVE n \in S
  <2>1. /\ f[n - 1] \in Int /\ g[n - 1] \in Int /\ f[n - 1] <= g[n - 1] /\ a[n] <= b[n]
        /\ k <= n - 1 => f[n - 1] < g[n - 1]
    BY <1>1, <1>7
  <2>2. f[n] = f[n - 1] + a[n] /\ g[n] = g[n - 1] + b[n] /\ a[n] \in Int /\ b[n] \in Int
    BY <1>2, <1>3, <1>4
  <2>3. \A u, v, x, y \in Int : u <= v /\ x <= y => u + x <= v + y /\ (u < v \/ x < y => u + x < v + y)
    OBVIOUS
  <2>4. k <= n => k <= n - 1 \/ k = n
    BY <1>5
  <2>5. f[n] <= g[n] /\ (k <= n => f[n] < g[n])
    BY <2>1, <2>2, <2>3, <2>4
  <2>6. QED
    BY <2>5
<1> HIDE DEF S
<1>8. N \in S
  <2>1. N \in 0 .. N
    OBVIOUS
  <2>2. QED
    BY <1>6, <1>7, <2>1, StepByStep
<1>9. f[N] < g[N] /\ f[N] \in Int /\ g[N] \in Int
  BY <1>5, <1>8 DEF S
<1>10. QED
  BY <1>3, <1>4, <1>9

\* ... one number many times adds up to a multiple of it, ...
LEMMA TotalOfSame ==
  ASSUME NEW m \in Int, NEW N \in Nat
  PROVE  /\ [i \in 1 .. N |-> m] \in Seq(Int) /\ Len([i \in 1 .. N |-> m]) = N
         /\ Total([i \in 1 .. N |-> m]) = m * N
<1> DEFINE a == [i \in 1 .. N |-> m]
<1>1. a \in Seq(Int) /\ Len(a) = N /\ \A i \in 1 .. N : a[i] = m
  OBVIOUS
<1> HIDE DEF a
<1>2. PICK f \in [0 .. N -> Int] :
        f[0] = 0 /\ (\A n \in 1 .. N : f[n] = f[n - 1] + a[n]) /\ Total(a) = f[N]
  BY <1>1, TotalAdds
<1> DEFINE S == {n \in 0 .. N : f[n] = m * n}
<1>3. 0 \in S
  BY <1>2
<1>4. ASSUME NEW n \in 1 .. N, n - 1 \in S PROVE n \in S
  <2>1. f[n - 1] = m * (n - 1) /\ m * (n - 1) = m * n - m /\ m * n \in Int
    BY <1>4
  <2>2. f[n] = m * n
    BY <1>1, <1>2, <2>1
  <2>3. QED
    BY <2>2
<1> HIDE DEF S
<1>5. \A n \in 0 .. N : n \in S
  BY <1>3, <1>4, StepByStep
<1>6. f[N] = m * N
  BY <1>5 DEF S
<1>7. QED
  BY <1>1, <1>2, <1>6 DEF a

\* ... numbers some times as large add up to so many times as much, ...
LEMMA TotalScales ==
  ASSUME NEW a \in Seq(Int), NEW b \in Seq(Int), Len(a) = Len(b), NEW c \in Int,
         \A i \in 1 .. Len(a) : b[i] = a[i] * c
  PROVE  Total(a) \in Int /\ Total(b) = Total(a) * c
<1>1. PICK N \in Nat : N = Len(a) /\ N = Len(b)
  OBVIOUS
<1>2. \A i \in 1 .. N : a[i] \in Int /\ b[i] = a[i] * c
  BY <1>1
<1>3. PICK f \in [0 .. N -> Int] :
        f[0] = 0 /\ (\A n \in 1 .. N : f[n] = f[n - 1] + a[n]) /\ Total(a) = f[N]
  BY <1>1, TotalAdds
<1>4. PICK g \in [0 .. N -> Int] :
        g[0] = 0 /\ (\A n \in 1 .. N : g[n] = g[n - 1] + b[n]) /\ Total(b) = g[N]
  BY <1>1, TotalAdds
<1> DEFINE S == {n \in 0 .. N : g[n] = f[n] * c}
<1>5. 0 \in S
  BY <1>3, <1>4
<1>6. ASSUME NEW n \in 1 .. N, n - 1 \in S PROVE n \in S
  <2>1. PICK x, y \in Int : x = f[n - 1] /\ y = a[n]
    <3>1. n - 1 \in 0 .. N /\ f[n - 1] \in Int /\ a[n] \in Int
      BY <1>2
    <3>2. QED
      BY <3>1
  <2>2. g[n - 1] = x * c /\ b[n] = y * c /\ f[n] = x + y /\ g[n] = g[n - 1] + b[n]
    BY <1>2, <1>3, <1>4, <1>6, <2>1
  <2>3. (x + y) * c = x * c + y * c
    OBVIOUS
  <2>4. QED
    BY <2>2, <2>3
<1> HIDE DEF S
<1>7. N \in S
  <2>1. N \in 0 .. N
    OBVIOUS
  <2>2. QED
    BY <1>5, <1>6, <2>1, StepByStep
<1>8. QED
  BY <1>3, <1>4, <1>7 DEF S

\* ... and naturals to one, which is 0 if and only if they all are.
LEMMA TotalOfNaturals ==
  ASSUME NEW a \in Seq(Nat)
  PROVE  Total(a) \in Nat /\ (Total(a) > 0 <=> \E i \in 1 .. Len(a) : a[i] > 0)
<1>1. PICK N \in Nat : N = Len(a)
  OBVIOUS
<1>2. a \in Seq(Int) /\ \A i \in 1 .. N : a[i] \in Nat
  BY <1>1
<1>3. PICK z \in Seq(Int) : z = [i \in 1 .. N |-> 0] /\ Len(z) = N /\ Total(z) = 0 * N
  <2>1. 0 \in Int
    OBVIOUS
  <2>2. /\ [i \in 1 .. N |-> 0] \in Seq(Int) /\ Len([i \in 1 .. N |-> 0]) = N
        /\ Total([i \in 1 .. N |-> 0]) = 0 * N
    BY <2>1, TotalOfSame
  <2>3. QED
    BY <2>2
<1>4. Total(z) = 0 /\ \A i \in 1 .. N : z[i] = 0
  BY <1>3
<1>5. Len(z) = Len(a) /\ \A i \in 1 .. Len(z) : z[i] <= a[i]
  BY <1>1, <1>2, <1>3, <1>4
<1>6. Total(a) \in Int /\ 0 <= Total(a)
  BY <1>2, <1>4, <1>5, TotalGrows
<1>7. ASSUME NEW i \in 1 .. N, a[i] > 0 PROVE Total(a) > 0
  <2>1. i \in 1 .. Len(z) /\ z[i] < a[i]
    BY <1>2, <1>3, <1>4, <1>7
  <2>2. Total(z) < Total(a)
    BY <1>2, <1>5, <2>1, TotalGrowsMore
  <2>3. QED
    BY <1>4, <1>6, <2>2
<1>8. ASSUME \A i \in 1 .. N : ~(a[i] > 0) PROVE ~(Total(a) > 0)
  <2>1. \A i \in 1 .. N : a[i] = 0
    BY <1>2, <1>8
  <2>2. Len(a) = Len(z) /\ \A i \in 1 .. Len(a) : a[i] <= z[i]
    BY <1>1, <1>3, <1>4, <2>1
  <2>3. Total(a) <= Total(z)
    BY <1>2, <2>2, TotalGrows
  <2>4. QED
    BY <1>4, <1>6, <2>3
<1>9. QED
  BY <1>1, <1>6, <1>7, <1>8

\* Of two lists that add up to the same, one is larger somewhere if the other is elsewhere.
LEMMA TotalsBalance ==
  ASSUME NEW a \in Seq(Int), NEW b \in Seq(Int), Len(a) = Len(b), Total(a) = Total(b),
         NEW k \in 1 .. Len(a), a[k] < b[k]
  PROVE  \E i \in 1 .. Len(a) : b[i] < a[i]
<1> SUFFICES ASSUME \A i \in 1 .. Len(a) : ~(b[i] < a[i]) PROVE FALSE
  OBVIOUS
<1>1. \A i \in 1 .. Len(a) : a[i] \in Int /\ b[i] \in Int
  OBVIOUS
<1>2. \A i \in 1 .. Len(a) : a[i] <= b[i]
  BY <1>1
<1>3. Total(a) \in Int /\ Total(b) \in Int /\ Total(a) < Total(b)
  BY <1>2, TotalGrowsMore
<1>4. QED
  BY <1>3

-----------------------------------------------------------------------------
(* The items of a list at some places *)

\* Different places have different ranks, in their order, and every rank is one of a place.
LEMMA RanksAreDense ==
  ASSUME NEW n \in Nat, NEW places \in SUBSET (1 .. n)
  PROVE  /\ IsFiniteSet(places) /\ Cardinality(places) \in Nat
         /\ \A p \in places : Rank(places, p) \in 1 .. Cardinality(places)
         /\ \A p, q \in places : p < q => Rank(places, p) < Rank(places, q)
         /\ \A k \in 1 .. Cardinality(places) : \E p \in places : Rank(places, p) = k
<1>1. IsFiniteSet(1 .. n)
  BY FS_Interval
<1>2. IsFiniteSet(places) /\ Cardinality(places) \in Nat
  BY <1>1, FS_Subset, FS_CardinalityType
<1> DEFINE upto(p) == { q \in places : q <= p }
<1>3. ASSUME NEW p \in places PROVE IsFiniteSet(upto(p)) /\ Cardinality(upto(p)) \in 1 .. Cardinality(places)
  <2>1. upto(p) \in SUBSET places /\ p \in upto(p)
    OBVIOUS
  <2> HIDE DEF upto
  <2>2. IsFiniteSet(upto(p)) /\ Cardinality(upto(p)) <= Cardinality(places)
    BY <1>2, <2>1, FS_Subset
  <2>3. Cardinality(upto(p)) \in Nat /\ Cardinality(upto(p)) # 0
    BY <2>1, <2>2, FS_CardinalityType, FS_EmptySet
  <2>4. QED
    BY <1>2, <2>2, <2>3
<1>4. ASSUME NEW p \in places, NEW q \in places, p < q PROVE Cardinality(upto(p)) < Cardinality(upto(q))
  <2>1. upto(p) \in SUBSET upto(q) /\ q \in upto(q) /\ q \notin upto(p)
    <3>1. p \in Int /\ q \in Int /\ \A r \in places : r \in Int
      OBVIOUS
    <3>2. ASSUME NEW r \in upto(p) PROVE r \in upto(q)
      BY <1>4, <3>1
    <3>3. q \in upto(q) /\ q \notin upto(p)
      BY <1>4, <3>1
    <3>4. QED
      BY <3>2, <3>3
  <2>2. IsFiniteSet(upto(q)) /\ Cardinality(upto(q)) \in Nat /\ Cardinality(upto(p)) \in Nat
    BY <1>2, <1>3
  <2> HIDE DEF upto
  <2>3. Cardinality(upto(p)) <= Cardinality(upto(q)) /\ Cardinality(upto(p)) # Cardinality(upto(q))
    BY <2>1, <2>2, FS_Subset
  <2>4. QED
    BY <2>2, <2>3
<1>5. \A p \in places : Rank(places, p) = Cardinality(upto(p))
  BY DEF Rank
<1> HIDE DEF upto
<1>6. ASSUME NEW k \in 1 .. Cardinality(places) PROVE \E p \in places : Rank(places, p) = k
  <2> DEFINE T == 1 .. Cardinality(places)
  <2> DEFINE f == [p \in places |-> Rank(places, p)]
  <2>1. f \in [places -> T]
    BY <1>3, <1>5
  <2>2. ASSUME NEW p \in places, NEW q \in places, f[p] = f[q] PROVE p = q
    <3>1. p \in Int /\ q \in Int
      OBVIOUS
    <3>2. Rank(places, p) = Rank(places, q)
      BY <2>2
    <3>3. \A r, s \in places : r < s => Rank(places, r) < Rank(places, s)
      BY <1>4, <1>5
    <3>4. \A r \in places : Rank(places, r) \in Int
      BY <1>2, <1>3, <1>5
    <3>5. ~(p < q) /\ ~(q < p)
      BY <3>2, <3>3, <3>4
    <3>6. QED
      BY <3>1, <3>5
  <2> HIDE DEF f
  <2>3. f \in Injection(places, T)
    BY <2>1, <2>2 DEF Injection, IsInjective
  <2>4. IsFiniteSet(T) /\ Cardinality(T) = Cardinality(places)
    BY <1>2, FS_Interval
  <2>5. f \in Surjection(places, T)
    BY <2>3, <2>4, FS_Injection
  <2>6. PICK p \in places : f[p] = k
    BY <2>5 DEF Surjection
  <2>7. QED
    BY <2>6 DEF f
<1>7. QED
  BY <1>2, <1>3, <1>4, <1>5, <1>6

\* What is taken from a list: each item at its place's rank, ...
LEMMA WhereTakes ==
  ASSUME NEW S, NEW seq \in Seq(S), NEW places \in SUBSET DOMAIN seq
  PROVE  /\ Where(seq, places) \in Seq(S)
         /\ IsFiniteSet(places) /\ Cardinality(places) \in Nat
         /\ Len(Where(seq, places)) = Cardinality(places)
         /\ \A p \in places : /\ Rank(places, p) \in 1 .. Cardinality(places)
                              /\ Where(seq, places)[Rank(places, p)] = seq[p]
         /\ \A k \in 1 .. Cardinality(places) :
              \E p \in places : Rank(places, p) = k /\ Where(seq, places)[k] = seq[p]
<1> DEFINE C == Cardinality(places)
<1> DEFINE at(k) == CHOOSE p \in places : Rank(places, p) = k
<1>1. places \in SUBSET (1 .. Len(seq)) /\ Len(seq) \in Nat
  OBVIOUS
<1>2. /\ IsFiniteSet(places) /\ C \in Nat
      /\ \A p \in places : Rank(places, p) \in 1 .. C
      /\ \A p, q \in places : p < q => Rank(places, p) < Rank(places, q)
      /\ \A k \in 1 .. C : \E p \in places : Rank(places, p) = k
  BY <1>1, RanksAreDense
<1>3. ASSUME NEW k \in 1 .. C PROVE at(k) \in places /\ Rank(places, at(k)) = k
  BY <1>2
<1>4. ASSUME NEW p \in places PROVE at(Rank(places, p)) = p
  <2> DEFINE q == at(Rank(places, p))
  <2>1. Rank(places, p) \in 1 .. C
    BY <1>2
  <2>2. q \in places /\ Rank(places, q) = Rank(places, p)
    BY <1>3, <2>1
  <2> HIDE DEF q
  <2>3. ~(p < q) /\ ~(q < p)
    BY <1>2, <2>1, <2>2
  <2>4. p \in Nat /\ q \in Nat
    BY <1>1, <2>2
  <2>5. q = p
    BY <2>3, <2>4
  <2>6. QED
    BY <2>5 DEF q
<1> HIDE DEF at
<1>5. Where(seq, places) = [k \in 1 .. C |-> seq[at(k)]]
  BY DEF Where, at
<1>6. \A k \in 1 .. C : seq[at(k)] \in S
  BY <1>3
<1> HIDE DEF C
<1>7. Where(seq, places) \in Seq(S) /\ Len(Where(seq, places)) = C
  BY <1>2, <1>5, <1>6
<1>8. QED
  BY <1>2, <1>3, <1>4, <1>5, <1>7 DEF C

\* ... and in the order of the list.
LEMMA RanksInOrder ==
  ASSUME NEW S, NEW seq \in Seq(S), NEW places \in SUBSET DOMAIN seq
  PROVE  \A p, q \in places : p < q => Rank(places, p) < Rank(places, q)
<1>1. places \in SUBSET (1 .. Len(seq)) /\ Len(seq) \in Nat
  OBVIOUS
<1>2. QED
  BY <1>1, RanksAreDense

\* A function on 1 .. n is a list, ...
LEMMA AList ==
  ASSUME NEW n \in Nat, NEW f, f = [i \in 1 .. n |-> f[i]]
  PROVE  IsList(f) /\ Len(f) = n /\ DOMAIN f = 1 .. n
<1>1. \A i \in 1 .. n : f[i] \in { f[j] : j \in 1 .. n }
  OBVIOUS
<1>2. f \in Seq({ f[j] : j \in 1 .. n }) /\ Len(f) = n /\ DOMAIN f = 1 .. n
  BY <1>1
<1>3. QED
  BY <1>2 DEF IsList

\* ... so is one thing, ...
LEMMA OneIsList == ASSUME NEW x PROVE IsList(<<x>>)
<1>1. PICK one : one = <<x>>
  OBVIOUS
<1>2. one = [i \in 1 .. 1 |-> one[i]]
  BY <1>1
<1>3. QED
  BY <1>1, <1>2, AList

\* ... and so is a list with one more item.
LEMMA ListAppends ==
  ASSUME NEW seq, IsList(seq), NEW x
  PROVE  /\ IsList(Append(seq, x)) /\ Len(seq) \in Nat /\ DOMAIN seq = 1 .. Len(seq)
         /\ Len(Append(seq, x)) = Len(seq) + 1 /\ DOMAIN Append(seq, x) = 1 .. Len(seq) + 1
         /\ Append(seq, x)[Len(seq) + 1] = x
         /\ \A i \in 1 .. Len(seq) : Append(seq, x)[i] = seq[i]
<1> DEFINE S == { seq[i] : i \in DOMAIN seq } \cup {x}
<1>1. seq \in Seq(S) /\ x \in S
  <2>1. seq \in Seq({ seq[i] : i \in DOMAIN seq })
    BY DEF IsList
  <2>2. \A i \in 1 .. Len(seq) : seq[i] \in S
    BY <2>1
  <2>3. QED
    BY <2>1, <2>2
<1> HIDE DEF S
<1>2. PICK n \in Nat : n = Len(seq)
  BY <1>1
<1>3. PICK more : more = Append(seq, x)
  OBVIOUS
<1>4. /\ more \in Seq(S) /\ Len(more) = n + 1 /\ more[n + 1] = x /\ \A i \in 1 .. n : more[i] = seq[i]
  BY <1>1, <1>2, <1>3
<1>5. more = [i \in 1 .. n + 1 |-> more[i]]
  BY <1>4
<1>6. IsList(more)
  BY <1>2, <1>5, AList
<1>7. QED
  BY <1>1, <1>2, <1>3, <1>4, <1>6

\* Who takes all of a list has the list.
LEMMA WhereAll ==
  ASSUME NEW S, NEW seq \in Seq(S)
  PROVE  Where(seq, DOMAIN seq) = seq
<1>1. PICK N \in Nat : N = Len(seq) /\ DOMAIN seq = 1 .. N
  OBVIOUS
<1>2. ASSUME NEW i \in 1 .. N PROVE Rank(DOMAIN seq, i) = i
  <2>1. { q \in 1 .. N : q <= i } = 1 .. i
    OBVIOUS
  <2>2. Cardinality(1 .. i) = i
    BY FS_Interval
  <2>3. QED
    BY <1>1, <2>1, <2>2 DEF Rank
<1>3. Cardinality(1 .. N) = N
  BY FS_Interval
<1>4. PICK all : all = Where(seq, DOMAIN seq)
  OBVIOUS
<1>5. /\ all \in Seq(S) /\ Len(all) = N
      /\ \A p \in DOMAIN seq : all[Rank(DOMAIN seq, p)] = seq[p]
  <2>1. DOMAIN seq \in SUBSET DOMAIN seq
    OBVIOUS
  <2>2. QED
    BY <1>1, <1>3, <1>4, <2>1, WhereTakes
<1>6. \A i \in 1 .. N : all[i] = seq[i]
  BY <1>1, <1>2, <1>5
<1>7. all = seq
  BY <1>1, <1>5, <1>6
<1>8. QED
  BY <1>4, <1>7

\* All of this, of a list of anything.
LEMMA WhereLists ==
  ASSUME NEW seq, IsList(seq), NEW places \in SUBSET DOMAIN seq, NEW taken, taken = Where(seq, places)
  PROVE  /\ IsList(taken) /\ Len(taken) \in Nat /\ DOMAIN taken = 1 .. Len(taken)
         /\ \A k \in DOMAIN taken : \E p \in places : Rank(places, p) = k /\ taken[k] = seq[p]
         /\ \A p \in places : Rank(places, p) \in DOMAIN taken /\ taken[Rank(places, p)] = seq[p]
         /\ \A p, q \in places : p < q => Rank(places, p) < Rank(places, q)
<1> DEFINE S == { seq[i] : i \in DOMAIN seq }
<1>1. seq \in Seq(S)
  BY DEF IsList
<1> HIDE DEF S
<1>2. /\ taken \in Seq(S) /\ Cardinality(places) \in Nat /\ Len(taken) = Cardinality(places)
      /\ \A p \in places : Rank(places, p) \in 1 .. Cardinality(places) /\ taken[Rank(places, p)] = seq[p]
      /\ \A k \in 1 .. Cardinality(places) : \E p \in places : Rank(places, p) = k /\ taken[k] = seq[p]
  BY <1>1, WhereTakes
<1>3. \A p, q \in places : p < q => Rank(places, p) < Rank(places, q)
  BY <1>1, RanksInOrder
<1>4. PICK n \in Nat : n = Len(taken)
  BY <1>2
<1>5. taken = [k \in 1 .. n |-> taken[k]]
  BY <1>2, <1>4
<1>6. IsList(taken) /\ DOMAIN taken = 1 .. n
  BY <1>4, <1>5, AList
<1>7. QED
  BY <1>2, <1>3, <1>4, <1>6

\* The first n items of a list.
LEMMA CutTakes ==
  ASSUME NEW S, NEW seq \in Seq(S), NEW n \in Nat
  PROVE  /\ Cut(seq, n) \in Seq(S)
         /\ Len(Cut(seq, n)) <= n /\ Len(Cut(seq, n)) <= Len(seq)
         /\ Len(Cut(seq, n)) = n \/ Len(Cut(seq, n)) = Len(seq)
         /\ \A i \in 1 .. Len(Cut(seq, n)) : Cut(seq, n)[i] = seq[i]
<1>1. CASE n < Len(seq)
  <2>1. Cut(seq, n) = SubSeq(seq, 1, n)
    BY <1>1 DEF Cut
  <2>2. QED
    BY <1>1, <2>1
<1>2. CASE ~(n < Len(seq))
  <2>1. Cut(seq, n) = SubSeq(seq, 1, Len(seq))
    BY <1>2 DEF Cut
  <2>2. QED
    BY <1>2, <2>1
<1>3. QED
  BY <1>1, <1>2
=============================================================================

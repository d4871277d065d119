-------------------------- MODULE ArithmeticProofs --------------------------
(***************************************************************************)
(* The facts about amounts that the proofs of the contracts rest on: what  *)
(* the two rounding primitives of FixedPointMathLib guarantee, how         *)
(* products compare, and what the sum over a mapping does when an entry    *)
(* changes.                                                                *)
(***************************************************************************)
EXTENDS FixedPointMath, Sums, TLAPS, WellFoundedInduction

(***************************************************************************)
(* Products and quotients.                                                 *)
(***************************************************************************)

\* Integer division rounds down by less than the divisor.
LEMMA DivBounds ==
    ASSUME NEW a \in Nat, NEW d \in Nat \ {0}
    PROVE  /\ a \div d \in Nat
           /\ d * (a \div d) <= a
           /\ a < d * (a \div d) + d
OBVIOUS

\* Amounts multiply to an amount.
LEMMA ProductNat ==
    ASSUME NEW x \in Nat, NEW y \in Nat
    PROVE  x * y \in Nat
OBVIOUS

\* A factor that both sides share can be added or removed.
LEMMA ProductMono ==
    ASSUME NEW x \in Int, NEW y \in Int, NEW c \in Nat, x <= y
    PROVE  c * x <= c * y /\ x * c <= y * c
OBVIOUS

\* A common positive factor can be removed.
LEMMA ProductCancel ==
    ASSUME NEW x \in Int, NEW y \in Int, NEW c \in Nat \ {0}, c * x <= c * y
    PROVE  x <= y
<1>1. SUFFICES ASSUME y < x PROVE FALSE
  OBVIOUS
<1>2. y + 1 <= x
  BY <1>1
<1>3. c * (y + 1) <= c * x
  BY <1>2, ProductMono
<1>4. c * (y + 1) = c * y + c
  OBVIOUS
<1>5. c * x \in Int /\ c * y \in Int
  OBVIOUS
<1>. QED BY <1>3, <1>4, <1>5

\* Products regroup.
LEMMA ProductRegroup ==
    ASSUME NEW x \in Int, NEW y \in Int, NEW z \in Int
    PROVE  /\ (x * y) * z = x * (y * z)
           /\ (x * y) * z = (x * z) * y
           /\ (x + y) * z = x * z + y * z
           /\ (x - y) * z = x * z - y * z
           /\ x * y = y * x
OBVIOUS

\* mulDivDown never returns more than the exact quotient, and misses it by less
\* than one.
LEMMA MulDivDownBounds ==
    ASSUME NEW x \in Nat, NEW y \in Nat, NEW d \in Nat \ {0}
    PROVE  /\ MulDivDown(x, y, d) \in Nat
           /\ d * MulDivDown(x, y, d) <= x * y
           /\ x * y < d * MulDivDown(x, y, d) + d
<1>1. x * y \in Nat
  BY ProductNat
<1> DEFINE p == x * y
<1>2. p \in Nat
  BY <1>1
<1>3. /\ p \div d \in Nat
      /\ d * (p \div d) <= p
      /\ p < d * (p \div d) + d
  <2>. HIDE DEF p
  <2>. QED BY <1>2, DivBounds
<1>. QED BY <1>3 DEF MulDivDown

\* mulDivUp never returns less than the exact quotient, and exceeds it by less
\* than one.
LEMMA MulDivUpBounds ==
    ASSUME NEW x \in Nat, NEW y \in Nat, NEW d \in Nat \ {0}
    PROVE  /\ MulDivUp(x, y, d) \in Nat
           /\ d * MulDivUp(x, y, d) >= x * y
           /\ d * MulDivUp(x, y, d) < x * y + d
<1>1. x * y \in Nat
  BY ProductNat
<1> DEFINE p == x * y
<1> DEFINE q == (p - 1) \div d
<1>2. CASE p = 0
  <2>1. MulDivUp(x, y, d) = 0
    BY <1>2 DEF MulDivUp
  <2>. QED BY <2>1, <1>2
<1>3. CASE p # 0
  <2>1. p - 1 \in Nat
    BY <1>1, <1>3
  <2>2. q \in Nat /\ d * q <= p - 1 /\ p - 1 < d * q + d
    <3>. HIDE DEF p
    <3>. QED BY <2>1, DivBounds
  <2>3. MulDivUp(x, y, d) = q + 1
    BY <1>3 DEF MulDivUp
  <2>4. d * (q + 1) = d * q + d
    <3>. HIDE DEF q, p
    <3>. QED BY <2>2
  <2>5. p \in Nat /\ d * q \in Int
    <3>1. p \in Nat
      BY <1>1
    <3>. HIDE DEF q, p
    <3>. QED BY <2>2, <3>1
  <2>6. d * (q + 1) >= p /\ d * (q + 1) < p + d
    <3>. HIDE DEF p, q
    <3>. QED BY <2>2, <2>4, <2>5
  <2>. QED BY <2>2, <2>3, <2>6
<1>. QED BY <1>2, <1>3

-----------------------------------------------------------------------------
(***************************************************************************)
(* Sums, for mappings of any size.  Induction on the size takes the form   *)
(* of a least counterexample: a non-empty set of naturals has a least      *)
(* element.                                                                *)
(***************************************************************************)

\* A non-empty set of naturals has a least element.
LEMMA NatMin ==
    ASSUME NEW T \in SUBSET Nat, T # {}
    PROVE  \E x \in T : \A y \in T : x <= y
<1>1. \E x \in T : \A y \in T : ~ (<<y, x>> \in OpToRel(<, Nat))
  BY NatLessThanWellFounded, WFMin, Zenon
<1>2. PICK x \in T : \A y \in T : ~ (<<y, x>> \in OpToRel(<, Nat))
  BY <1>1
<1>3. ASSUME NEW y \in T PROVE x <= y
  <2>1. <<y, x>> \in OpToRel(<, Nat) <=> y < x
    BY DEF OpToRel
  <2>2. x \in Nat /\ y \in Nat
    OBVIOUS
  <2>3. ~ (y < x)
    BY <1>2, <2>1
  <2>. QED BY <2>2, <2>3
<1>. QED BY <1>3

\* g[i] is the sum of the first i values of f.
IsPrefixSum(g, f, n) ==
    /\ g \in [0..n -> Int]
    /\ g[0] = 0
    /\ \A i \in 1..n : g[i] = g[i-1] + f[i]

\* Every function has its prefix sums,
LEMMA PrefixSumExists ==
    ASSUME NEW n \in Nat, NEW f \in [1..n -> Int]
    PROVE  \E g : IsPrefixSum(g, f, n)
<1> DEFINE Bad == {m \in 0..n : ~ \E g : IsPrefixSum(g, f, m)}
<1>1. SUFFICES Bad = {}
  <2>1. n \in 0..n
    OBVIOUS
  <2>. QED BY <2>1
<1>2. SUFFICES ASSUME Bad # {} PROVE FALSE
  OBVIOUS
<1>3. Bad \in SUBSET Nat
  OBVIOUS
<1>4. PICK m \in Bad : \A y \in Bad : m <= y
  BY <1>2, <1>3, NatMin
<1>5. m # 0
  <2>1. IsPrefixSum([i \in 0..0 |-> 0], f, 0)
    BY DEF IsPrefixSum
  <2>. QED BY <2>1, <1>4
<1>6. m-1 \in 0..n /\ m-1 \notin Bad
  BY <1>4, <1>5
<1>7. PICK g : IsPrefixSum(g, f, m-1)
  BY <1>6
<1> DEFINE h == [i \in 0..m |-> IF i = m THEN g[m-1] + f[m] ELSE g[i]]
<1>8. IsPrefixSum(h, f, m)
  <2>1. m \in Nat /\ m >= 1 /\ m <= n
    BY <1>4, <1>5
  <2>2. f[m] \in Int /\ g[m-1] \in Int
    BY <1>7, <2>1 DEF IsPrefixSum
  <2>3. ASSUME NEW i \in 0..m, i # m PROVE i \in 0..(m-1) /\ g[i] \in Int /\ h[i] = g[i]
    BY <1>7, <2>1, <2>3 DEF IsPrefixSum
  <2>4. h \in [0..m -> Int]
    BY <2>2, <2>3
  <2>5. h[0] = 0
    BY <2>1, <2>3, <1>7 DEF IsPrefixSum
  <2>6. ASSUME NEW i \in 1..m PROVE h[i] = h[i-1] + f[i]
    <3>1. CASE i = m
      BY <3>1, <2>1, <2>3
    <3>2. CASE i # m
      <4>1. i \in 0..m /\ i-1 \in 0..m /\ i-1 # m /\ i \in 1..(m-1)
        BY <3>2, <2>1
      <4>2. g[i] = g[i-1] + f[i]
        BY <4>1, <1>7 DEF IsPrefixSum
      <4>. QED BY <4>1, <4>2, <3>2, <2>3
    <3>. QED BY <3>1, <3>2
  <2>. HIDE DEF h
  <2>. QED BY <2>4, <2>5, <2>6 DEF IsPrefixSum
<1>. QED BY <1>8, <1>4

\* and only one of them.
LEMMA PrefixSumUnique ==
    ASSUME NEW n \in Nat, NEW f \in [1..n -> Int], NEW g, NEW h,
           IsPrefixSum(g, f, n), IsPrefixSum(h, f, n)
    PROVE  g = h
<1> DEFINE Bad == {m \in 0..n : g[m] # h[m]}
<1>1. SUFFICES Bad = {}
  <2>1. g = [i \in 0..n |-> g[i]] /\ h = [i \in 0..n |-> h[i]]
    BY DEF IsPrefixSum
  <2>. QED BY <2>1
<1>2. SUFFICES ASSUME Bad # {} PROVE FALSE
  OBVIOUS
<1>3. Bad \in SUBSET Nat
  OBVIOUS
<1>4. PICK m \in Bad : \A y \in Bad : m <= y
  BY <1>2, <1>3, NatMin
<1>5. m # 0
  BY <1>4 DEF IsPrefixSum
<1>6. m \in 1..n /\ m-1 \in 0..n /\ m-1 \notin Bad
  BY <1>4, <1>5
<1>7. g[m] = g[m-1] + f[m] /\ h[m] = h[m-1] + f[m] /\ g[m-1] = h[m-1]
  BY <1>6 DEF IsPrefixSum
<1>. QED BY <1>7, <1>4

\* The recursive definition of Sum yields the last prefix sum.
LEMMA SumPrefix ==
    ASSUME NEW n \in Nat, NEW f \in [1..n -> Int], NEW g, IsPrefixSum(g, f, n)
    PROVE  Sum(f, n) = g[n]
<1> DEFINE Eq(h) == h = [i \in 0..n |-> IF i = 0 THEN 0 ELSE h[i-1] + f[i]]
<1> DEFINE p == CHOOSE h : Eq(h)
<1>1. Sum(f, n) = p[n]
  BY Zenon DEF Sum
<1>2. Eq(g)
  BY DEF IsPrefixSum
<1>3. Eq(p)
  BY <1>2, Zenon
<1>4. IsPrefixSum(p, f, n)
  <2> HIDE DEF p
  <2> DEFINE Bad == {m \in 0..n : p[m] # g[m]}
  <2>0. \A i \in 0..n : p[i] = IF i = 0 THEN 0 ELSE p[i-1] + f[i]
    BY <1>3
  <2>1. SUFFICES Bad = {}
    <3>1. p = [i \in 0..n |-> p[i]]
      BY <1>3
    <3>. QED BY <3>1 DEF IsPrefixSum
  <2>2. SUFFICES ASSUME Bad # {} PROVE FALSE
    OBVIOUS
  <2>3. Bad \in SUBSET Nat
    OBVIOUS
  <2>4. PICK m \in Bad : \A y \in Bad : m <= y
    BY <2>2, <2>3, NatMin
  <2>5. m # 0
    BY <2>4, <2>0 DEF IsPrefixSum
  <2>6. m \in 1..n /\ m-1 \in 0..n /\ m-1 \notin Bad
    BY <2>4, <2>5
  <2>7. g[m] = g[m-1] + f[m] /\ p[m] = p[m-1] + f[m] /\ g[m-1] = p[m-1]
    BY <2>6, <2>0 DEF IsPrefixSum
  <2>. QED BY <2>7, <2>4
<1>5. p = g
  BY <1>4, PrefixSumUnique
<1>. QED BY <1>1, <1>5

\* A sum of integers is an integer.
LEMMA SumInt ==
    ASSUME NEW n \in Nat, NEW f \in [1..n -> Int]
    PROVE  Sum(f, n) \in Int
<1>1. PICK g : IsPrefixSum(g, f, n)
  BY PrefixSumExists
<1>2. Sum(f, n) = g[n]
  BY <1>1, SumPrefix
<1>. QED BY <1>1, <1>2 DEF IsPrefixSum

\* Assigning one entry of a Solidity mapping changes the sum of its values by
\* the difference: the fact behind every total a contract keeps by hand.
LEMMA SumUpdate ==
    ASSUME NEW n \in Nat, NEW f \in [1..n -> Int], NEW a \in 1..n, NEW v \in Int
    PROVE  Sum([f EXCEPT ![a] = v], n) = Sum(f, n) - f[a] + v
<1> DEFINE e == [f EXCEPT ![a] = v]
<1>1. PICK g : IsPrefixSum(g, f, n)
  BY PrefixSumExists
<1> DEFINE h == [i \in 0..n |-> IF i < a THEN g[i] ELSE g[i] - f[a] + v]
<1>2. IsPrefixSum(h, e, n)
  <2>1. h \in [0..n -> Int]
    BY <1>1 DEF IsPrefixSum
  <2>2. h[0] = 0
    BY <1>1 DEF IsPrefixSum
  <2>3. ASSUME NEW i \in 1..n PROVE h[i] = h[i-1] + e[i]
    <3>1. g[i] = g[i-1] + f[i] /\ i-1 \in 0..n /\ i \in 0..n /\ g[i-1] \in Int /\ f[i] \in Int
      BY <1>1 DEF IsPrefixSum
    <3>2. CASE i < a
      BY <3>1, <3>2
    <3>3. CASE i = a
      BY <3>1, <3>3
    <3>4. CASE i > a
      BY <3>1, <3>4
    <3>. QED BY <3>2, <3>3, <3>4
  <2>. QED BY <2>1, <2>2, <2>3 DEF IsPrefixSum
<1>3. e \in [1..n -> Int]
  OBVIOUS
<1>4. Sum(e, n) = h[n] /\ Sum(f, n) = g[n]
  <2> HIDE DEF e, h
  <2>. QED BY <1>1, <1>2, <1>3, SumPrefix
<1>5. h[n] = g[n] - f[a] + v
  OBVIOUS
<1>. QED BY <1>4, <1>5

\* No entry of a mapping of amounts exceeds the sum of the mapping.
LEMMA SumAtLeast ==
    ASSUME NEW n \in Nat, NEW f \in [1..n -> Nat], NEW a \in 1..n
    PROVE  f[a] <= Sum(f, n)
<1>0. f \in [1..n -> Int]
  OBVIOUS
<1>1. PICK g : IsPrefixSum(g, f, n)
  BY <1>0, PrefixSumExists
<1> DEFINE Bad == {m \in 0..n : g[m] < 0 \/ (m >= a /\ g[m] < f[a])}
<1>2. Bad = {}
  <2>1. SUFFICES ASSUME Bad # {} PROVE FALSE
    OBVIOUS
  <2>2. Bad \in SUBSET Nat
    OBVIOUS
  <2>3. PICK m \in Bad : \A y \in Bad : m <= y
    BY <2>1, <2>2, NatMin
  <2>4. m # 0
    BY <2>3, <1>1 DEF IsPrefixSum
  <2>5. m \in 1..n /\ m-1 \in 0..n /\ m-1 \notin Bad
    BY <2>3, <2>4
  <2>6. g[m] = g[m-1] + f[m] /\ g[m-1] \in Int /\ f[m] \in Nat
    BY <2>5, <1>1 DEF IsPrefixSum
  <2>. QED BY <2>3, <2>5, <2>6
<1>3. g[n] >= f[a]
  <2>1. n \in 0..n /\ n \notin Bad /\ n >= a /\ g[n] \in Int
    BY <1>2, <1>1 DEF IsPrefixSum
  <2>. QED BY <2>1
<1>. QED BY <1>0, <1>1, <1>3, SumPrefix

\* A sum of amounts is an amount.
LEMMA SumNat ==
    ASSUME NEW n \in Nat, NEW f \in [1..n -> Nat]
    PROVE  Sum(f, n) \in Nat
<1>1. f \in [1..n -> Int]
  OBVIOUS
<1>2. PICK g : IsPrefixSum(g, f, n)
  BY <1>1, PrefixSumExists
<1>3. Sum(f, n) = g[n] /\ g[n] \in Int
  <2>1. Sum(f, n) = g[n]
    BY <1>1, <1>2, SumPrefix
  <2>. QED BY <1>2, <2>1 DEF IsPrefixSum
<1>4. CASE n = 0
  BY <1>2, <1>3, <1>4 DEF IsPrefixSum
<1>5. CASE n # 0
  <2>1. n \in 1..n
    BY <1>5
  <2>2. f[n] \in Nat /\ f[n] <= Sum(f, n)
    BY <2>1, SumAtLeast
  <2>. QED BY <1>3, <2>2
<1>. QED BY <1>4, <1>5

\* A fresh mapping sums to zero.
LEMMA SumZero ==
    ASSUME NEW n \in Nat
    PROVE  Sum([i \in 1..n |-> 0], n) = 0
<1> DEFINE f == [i \in 1..n |-> 0]
<1> DEFINE g == [i \in 0..n |-> 0]
<1>1. f \in [1..n -> Int] /\ IsPrefixSum(g, f, n) /\ g[n] = 0
  BY DEF IsPrefixSum
<1>2. Sum(f, n) = g[n]
  <2>. HIDE DEF f, g
  <2>. QED BY <1>1, SumPrefix
<1>. QED BY <1>1, <1>2

\* One more entry adds its value; the sum of the others depends on them only.
LEMMA SumAppend ==
    ASSUME NEW n \in Nat, NEW f \in [1..n -> Int], NEW e \in [1..(n+1) -> Int],
           \A i \in 1..n : e[i] = f[i]
    PROVE  Sum(e, n + 1) = Sum(f, n) + e[n+1]
<1>1. PICK g : IsPrefixSum(g, f, n)
  BY PrefixSumExists
<1> DEFINE h == [i \in 0..(n+1) |-> IF i = n + 1 THEN g[n] + e[n+1] ELSE g[i]]
<1>2. IsPrefixSum(h, e, n + 1)
  <2>1. e[n+1] \in Int /\ g[n] \in Int
    BY <1>1 DEF IsPrefixSum
  <2>2. ASSUME NEW i \in 0..(n+1), i # n + 1 PROVE i \in 0..n /\ g[i] \in Int /\ h[i] = g[i]
    BY <1>1, <2>2 DEF IsPrefixSum
  <2>3. h \in [0..(n+1) -> Int]
    BY <2>1, <2>2
  <2>4. h[0] = 0
    BY <1>1, <2>2 DEF IsPrefixSum
  <2>5. ASSUME NEW i \in 1..(n+1) PROVE h[i] = h[i-1] + e[i]
    <3>1. CASE i = n + 1
      BY <2>1, <2>2, <3>1
    <3>2. CASE i # n + 1
      <4>1. i \in 1..n /\ i \in 0..(n+1) /\ i-1 \in 0..(n+1) /\ i-1 # n + 1
        BY <3>2
      <4>2. g[i] = g[i-1] + f[i]
        BY <1>1, <4>1 DEF IsPrefixSum
      <4>. QED BY <2>2, <3>2, <4>1, <4>2
    <3>. QED BY <3>1, <3>2
  <2>. HIDE DEF h
  <2>. QED BY <2>3, <2>4, <2>5 DEF IsPrefixSum
<1>3. h[n+1] = g[n] + e[n+1]
  OBVIOUS
<1>4. Sum(e, n + 1) = h[n+1] /\ Sum(f, n) = g[n]
  <2> HIDE DEF h
  <2>. QED BY <1>1, <1>2, SumPrefix
<1>. QED BY <1>3, <1>4

\* Two bounds with the same factors add up.
LEMMA ScaledAdd ==
    ASSUME NEW r \in Nat, NEW c \in Nat,
           NEW u \in Int, NEW v \in Int, NEW x \in Int, NEW y \in Int,
           r * u <= c * v, r * x <= c * y
    PROVE  r * (u + x) <= c * (v + y)
<1>1. r * (u + x) = r * u + r * x /\ c * (v + y) = c * v + c * y
  OBVIOUS
<1>2. r * u \in Int /\ r * x \in Int /\ c * v \in Int /\ c * y \in Int
  OBVIOUS
<1>. QED BY <1>1, <1>2

\* A bound on each entry, with a factor on both sides, carries over to the sum:
\* rounding every entry up cannot make the total fall short.
LEMMA SumScaled ==
    ASSUME NEW n \in Nat, NEW f \in [1..n -> Nat], NEW h \in [1..n -> Nat],
           NEW c \in Nat, NEW r \in Nat,
           \A i \in 1..n : r * f[i] <= c * h[i]
    PROVE  r * Sum(f, n) <= c * Sum(h, n)
<1>0. f \in [1..n -> Int] /\ h \in [1..n -> Int]
  OBVIOUS
<1>1. PICK p : IsPrefixSum(p, f, n)
  BY <1>0, PrefixSumExists
<1>2. PICK q : IsPrefixSum(q, h, n)
  BY <1>0, PrefixSumExists
<1> DEFINE Bad == {m \in 0..n : ~ (r * p[m] <= c * q[m])}
<1>3. Bad = {}
  <2>1. SUFFICES ASSUME Bad # {} PROVE FALSE
    OBVIOUS
  <2>2. Bad \in SUBSET Nat
    OBVIOUS
  <2>3. PICK m \in Bad : \A y \in Bad : m <= y
    BY <2>1, <2>2, NatMin
  <2>4. m # 0
    BY <2>3, <1>1, <1>2 DEF IsPrefixSum
  <2>5. m \in 1..n /\ m-1 \in 0..n /\ m-1 \notin Bad
    BY <2>3, <2>4
  <2>6. /\ p[m] = p[m-1] + f[m] /\ p[m-1] \in Int /\ f[m] \in Int
        /\ q[m] = q[m-1] + h[m] /\ q[m-1] \in Int /\ h[m] \in Int
    BY <2>5, <1>1, <1>2 DEF IsPrefixSum
  <2>7. r * p[m-1] <= c * q[m-1] /\ r * f[m] <= c * h[m]
    BY <2>5
  <2>8. r * p[m] <= c * q[m]
    BY <2>6, <2>7, ScaledAdd
  <2>. QED BY <2>3, <2>8
<1>4. r * p[n] <= c * q[n]
  <2>1. n \in 0..n
    OBVIOUS
  <2>. QED BY <1>3, <2>1
<1>5. Sum(f, n) = p[n] /\ Sum(h, n) = q[n]
  BY <1>0, <1>1, <1>2, SumPrefix
<1>. QED BY <1>4, <1>5
=============================================================================

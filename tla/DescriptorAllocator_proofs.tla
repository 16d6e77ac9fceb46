--------------------- MODULE DescriptorAllocator_proofs ---------------------
(***************************************************************************)
(* Proofs about BFCAllocator, and about DescriptorAllocator for any number *)
(* of threads and kernels, any sizes and any memory of the device.         *)
(***************************************************************************)
EXTENDS DescriptorAllocator, Integers, SequenceTheorems,
        WellFoundedInduction, TLAPS

-----------------------------------------------------------------------------
(* Recursion over the natural numbers. *)

(* A least natural number with a property. *)
LEMMA LeastElement ==
    ASSUME NEW S \in SUBSET Nat, S # {}
    PROVE  \E m \in S : \A n \in S : m <= n
<1>1. PICK m \in S : \A n \in S : ~(<<n, m>> \in OpToRel(<, Nat))
  BY NatLessThanWellFounded, WFMin, Zenon
<1>2. \A n \in S : ~(n < m)
  BY <1>1 DEF OpToRel
<1>3. QED
  BY <1>2

(* A function that is given by its first value and by each value from the    *)
(* one before exists, and only one: with functions instead of operators as   *)
(* parameters, so that it can be cited.                                      *)
Follows(g, n, base, step) ==
    /\ g \in [0..n -> Nat]
    /\ g[0] = base
    /\ \A i \in 1..n : g[i] = step[i][g[i - 1]]

\* A recursion over 0..n has a solution.
LEMMA RecursionExists ==
    ASSUME NEW base \in Nat, NEW step \in [Nat -> [Nat -> Nat]], NEW n \in Nat
    PROVE  \E g : Follows(g, n, base, step)
<1> DEFINE S == {k \in Nat : ~\E g : Follows(g, k, base, step)}
<1> SUFFICES ASSUME S # {} PROVE FALSE
  OBVIOUS
<1>1. PICK m \in S : \A k \in S : m <= k
  <2>1. S \in SUBSET Nat
    OBVIOUS
  <2>2. QED
    BY <2>1, LeastElement
<1>2. m # 0
  <2>1. Follows([i \in 0..0 |-> base], 0, base, step)
    BY DEF Follows
  <2>2. QED
    BY <1>1, <2>1
<1>m. m \in Nat /\ m \in S
  BY <1>1
<1>3. m - 1 \in Nat /\ m - 1 \notin S
  <2> HIDE DEF S
  <2>1. QED
    BY <1>1, <1>2, <1>m
<1>4. PICK g : Follows(g, m - 1, base, step)
  BY <1>3
<1> HIDE DEF S
<1> DEFINE f == [i \in 0..m |-> IF i = m THEN step[m][g[m - 1]] ELSE g[i]]
<1>5. /\ g \in [0..(m - 1) -> Nat] /\ g[0] = base
      /\ \A i \in 1..(m - 1) : g[i] = step[i][g[i - 1]]
  BY <1>4 DEF Follows
<1>6. g[m - 1] \in Nat /\ step[m] \in [Nat -> Nat]
  <2>1. m - 1 \in 0..(m - 1)
    BY <1>3
  <2>2. QED
    BY <1>m, <1>5, <2>1
<1>7. f \in [0..m -> Nat] /\ f[0] = base
  <2>1. ASSUME NEW i \in 0..m PROVE f[i] \in Nat
    <3>1. CASE i = m
      BY <1>6, <3>1
    <3>2. CASE i # m
      <4>1. i \in 0..(m - 1)
        BY <1>m, <3>2
      <4>2. QED
        BY <1>5, <3>2, <4>1
    <3>3. QED
      BY <3>1, <3>2
  <2>2. f[0] = base
    BY <1>m, <1>2, <1>5
  <2>3. QED
    BY <2>1, <2>2
<1>8. ASSUME NEW i \in 1..m PROVE f[i] = step[i][f[i - 1]]
  <2>1. CASE i = m
    BY <1>m, <1>2, <1>3, <2>1
  <2>2. CASE i # m
    <3>1. i \in 1..(m - 1) /\ i - 1 \in 0..m /\ i - 1 # m /\ i \in 0..m
      BY <1>m, <1>3, <2>2
    <3>2. f[i] = g[i] /\ f[i - 1] = g[i - 1]
      BY <2>2, <3>1
    <3>3. QED
      BY <1>5, <3>1, <3>2
  <2>3. QED
    BY <2>1, <2>2
<1>9. Follows(f, m, base, step)
  BY <1>7, <1>8 DEF Follows
<1>10. QED
  BY <1>m, <1>9 DEF S

\* A recursion over 0..n has one solution.
LEMMA RecursionUnique ==
    ASSUME NEW base \in Nat, NEW step, NEW n \in Nat, NEW k \in Nat, n <= k,
           NEW g, NEW f,
           Follows(g, n, base, step), Follows(f, k, base, step)
    PROVE  \A i \in 0..n : g[i] = f[i]
<1> DEFINE S == {i \in 0..n : g[i] # f[i]}
<1> SUFFICES ASSUME S # {} PROVE FALSE
  OBVIOUS
<1>1. PICK m \in S : \A i \in S : m <= i
  <2>1. S \in SUBSET Nat
    OBVIOUS
  <2>2. QED
    BY <2>1, LeastElement
<1>2. m # 0
  BY <1>1 DEF Follows
<1>3. m - 1 \in 0..n /\ m - 1 \notin S /\ m \in 1..n /\ m \in 1..k
  BY <1>1, <1>2
<1>4. g[m - 1] = f[m - 1]
  BY <1>3
<1>5. g[m] = step[m][g[m - 1]] /\ f[m] = step[m][f[m - 1]]
  BY <1>3 DEF Follows
<1>6. QED
  BY <1>1, <1>4, <1>5

-----------------------------------------------------------------------------
(* Powers of two. *)

\* PowerOfTwo is the solution of its recursion.
LEMMA PowerFollows ==
    ASSUME NEW k \in Nat
    PROVE  LET step == [i \in Nat |-> [x \in Nat |-> 2 * x]]
           IN  \E g : Follows(g, k, 1, step) /\ PowerOfTwo(k) = g[k]
<1> DEFINE step == [i \in Nat |-> [x \in Nat |-> 2 * x]]
           Solves(f) == f = [i \in 0..k |-> IF i = 0 THEN 1 ELSE 2 * f[i - 1]]
           p == CHOOSE f : Solves(f)
<1>1. step \in [Nat -> [Nat -> Nat]]
  OBVIOUS
<1>2. PICK g : Follows(g, k, 1, step)
  BY <1>1, RecursionExists
<1>3. Solves(g)
  <2>1. g \in [0..k -> Nat] /\ g[0] = 1
    BY <1>2 DEF Follows
  <2>2. ASSUME NEW i \in 1..k PROVE g[i] = 2 * g[i - 1]
    <3>0. i - 1 \in 0..k
      OBVIOUS
    <3>1. g[i] = step[i][g[i - 1]]
      BY <1>2, Zenon DEF Follows
    <3>2. g[i - 1] \in Nat
      BY <2>1, <3>0
    <3>3. QED
      BY <3>1, <3>2
  <2>3. QED
    BY <2>1, <2>2
<1>4. Solves(p)
  <2> HIDE DEF Solves
  <2>1. QED
    BY <1>3
<1>5. PowerOfTwo(k) = p[k]
  BY DEF PowerOfTwo
<1> HIDE DEF p
<1> DEFINE S == {i \in 0..k : p[i] # g[i]}
<1>6. S = {}
  <2> SUFFICES ASSUME S # {} PROVE FALSE
    OBVIOUS
  <2>1. S \in SUBSET Nat
    OBVIOUS
  <2>2. PICK m \in S : \A i \in S : m <= i
    BY <2>1, LeastElement
  <2>3. p[0] = 1 /\ g[0] = 1
    BY <1>2, <1>4 DEF Follows
  <2>4. m \in 1..k /\ m - 1 \in 0..k /\ m - 1 \notin S
    BY <2>2, <2>3
  <2>5. p[m - 1] = g[m - 1]
    BY <2>4
  <2>6. p[m] = 2 * p[m - 1] /\ g[m] = 2 * g[m - 1]
    BY <1>3, <1>4, <2>4
  <2>7. QED
    BY <2>2, <2>5, <2>6
<1>7. p[k] = g[k]
  BY <1>6
<1> HIDE DEF step
<1>8. QED
  BY <1>2, <1>5, <1>7 DEF step

\* PowerOfTwo starts at one and doubles.
LEMMA PowerProperties ==
    /\ PowerOfTwo(0) = 1
    /\ \A k \in Nat : /\ PowerOfTwo(k) \in Nat
                      /\ PowerOfTwo(k + 1) = 2 * PowerOfTwo(k)
<1> DEFINE step == [i \in Nat |-> [x \in Nat |-> 2 * x]]
<1>1. step \in [Nat -> [Nat -> Nat]]
  OBVIOUS
<1>2. ASSUME NEW k \in Nat
      PROVE  \E g : Follows(g, k, 1, step) /\ PowerOfTwo(k) = g[k]
  BY PowerFollows
<1> HIDE DEF step
<1>3. PowerOfTwo(0) = 1
  <2>1. PICK g : Follows(g, 0, 1, step) /\ PowerOfTwo(0) = g[0]
    BY <1>2
  <2>2. QED
    BY <2>1 DEF Follows
<1>4. ASSUME NEW k \in Nat
      PROVE  /\ PowerOfTwo(k) \in Nat
             /\ PowerOfTwo(k + 1) = 2 * PowerOfTwo(k)
  <2>1. PICK g : Follows(g, k, 1, step) /\ PowerOfTwo(k) = g[k]
    BY <1>2
  <2>2. PICK j \in Nat : j = k + 1 /\ k <= j /\ j - 1 = k /\ j \in 1..j
    OBVIOUS
  <2>3. PICK f : Follows(f, j, 1, step) /\ PowerOfTwo(j) = f[j]
    BY <1>2
  <2>4. \A i \in 0..k : g[i] = f[i]
    <3>1. 1 \in Nat /\ k <= j
      BY <2>2
    <3>2. Follows(g, k, 1, step) /\ Follows(f, j, 1, step)
      BY <2>1, <2>3
    <3>3. QED
      BY <3>1, <3>2, RecursionUnique
  <2>5. k \in 0..k
    OBVIOUS
  <2>6. g[k] = f[k] /\ g[k] \in Nat
    BY <2>1, <2>4, <2>5 DEF Follows
  <2>7. f[j] = step[j][f[k]]
    BY <2>2, <2>3 DEF Follows
  <2>8. step[j][f[k]] = 2 * f[k]
    BY <2>6 DEF step
  <2>9. QED
    BY <2>1, <2>2, <2>3, <2>6, <2>7, <2>8
<1>5. QED
  BY <1>3, <1>4

\* PowerOfTwo(k) is positive and above k.
LEMMA PowerBounds ==
    \A k \in Nat : PowerOfTwo(k) \in Nat \ {0} /\ PowerOfTwo(k) > k
<1> DEFINE S == {k \in Nat : ~(PowerOfTwo(k) \in Nat \ {0}
                               /\ PowerOfTwo(k) > k)}
<1> SUFFICES ASSUME S # {} PROVE FALSE
  OBVIOUS
<1>1. S \in SUBSET Nat
  OBVIOUS
<1>2. PICK m \in S : \A k \in S : m <= k
  BY <1>1, LeastElement
<1>3. m \in Nat /\ m # 0
  BY <1>2, PowerProperties
<1>4. PICK j \in Nat : m = j + 1
  <2>1. m - 1 \in Nat /\ m = (m - 1) + 1
    BY <1>3
  <2>2. QED
    BY <2>1
<1>5. j \notin S
  BY <1>2, <1>4
<1>6. PowerOfTwo(j) \in Nat \ {0} /\ PowerOfTwo(j) > j
  BY <1>5
<1>7. PowerOfTwo(m) = 2 * PowerOfTwo(j) /\ PowerOfTwo(j) \in Nat
  BY <1>4, PowerProperties
<1>8. PowerOfTwo(m) \in Nat \ {0} /\ PowerOfTwo(m) > m
  BY <1>3, <1>4, <1>6, <1>7
<1>9. QED
  BY <1>2, <1>8

\* PowerOfTwo is monotonic.
LEMMA PowerMonotonic ==
    ASSUME NEW j \in Nat, NEW k \in Nat, j <= k
    PROVE  PowerOfTwo(j) <= PowerOfTwo(k)
<1> DEFINE S == {i \in Nat : j <= i /\ ~(PowerOfTwo(j) <= PowerOfTwo(i))}
<1> SUFFICES ASSUME S # {} PROVE FALSE
  OBVIOUS
<1>1. S \in SUBSET Nat
  OBVIOUS
<1>2. PICK m \in S : \A i \in S : m <= i
  BY <1>1, LeastElement
<1>3. m \in Nat /\ j <= m /\ m # j
  BY <1>2, PowerBounds
<1>4. PICK i \in Nat : m = i + 1 /\ j <= i
  <2>1. m - 1 \in Nat /\ m = (m - 1) + 1 /\ j <= m - 1
    BY <1>3
  <2>2. QED
    BY <2>1
<1>5. i \notin S
  BY <1>2, <1>4
<1>6. PowerOfTwo(j) <= PowerOfTwo(i)
  BY <1>4, <1>5
<1>7. /\ PowerOfTwo(m) = 2 * PowerOfTwo(i)
      /\ PowerOfTwo(i) \in Nat /\ PowerOfTwo(j) \in Nat
  BY <1>4, PowerProperties
<1>8. PowerOfTwo(j) <= PowerOfTwo(m)
  BY <1>6, <1>7
<1>9. QED
  BY <1>2, <1>8

\* Log2Floor(n) is the exponent of the last power of two not above n.
LEMMA Log2FloorBounds ==
    ASSUME NEW n \in Nat \ {0}
    PROVE  /\ Log2Floor(n) \in Nat
           /\ PowerOfTwo(Log2Floor(n)) <= n
           /\ n < PowerOfTwo(Log2Floor(n) + 1)
<1> DEFINE S == {b \in Nat : n < PowerOfTwo(b + 1)}
<1>1. n \in S
  <2>1. n + 1 \in Nat
    OBVIOUS
  <2>2. PowerOfTwo(n + 1) > n + 1 /\ PowerOfTwo(n + 1) \in Nat
    BY <2>1, PowerBounds
  <2>3. QED
    BY <2>2
<1>2. PICK b \in S : \A c \in S : b <= c
  <2>1. S \in SUBSET Nat
    OBVIOUS
  <2>2. QED
    BY <1>1, <2>1, LeastElement
<1>3. b \in 0..n /\ n < PowerOfTwo(b + 1)
  BY <1>1, <1>2
<1>4. PowerOfTwo(b) <= n
  <2>1. CASE b = 0
    BY <2>1, PowerProperties
  <2>2. CASE b # 0
    <3>1. PICK c \in Nat : b = c + 1
      <4>1. b - 1 \in Nat /\ b = (b - 1) + 1
        BY <1>3, <2>2
      <4>2. QED
        BY <4>1
    <3>2. c \notin S
      BY <1>2, <3>1
    <3>3. PowerOfTwo(b) \in Nat
      BY <1>3, PowerBounds
    <3>4. QED
      BY <3>1, <3>2, <3>3
  <2>3. QED
    BY <2>1, <2>2
<1>5. \E c \in 0..n : PowerOfTwo(c) <= n /\ n < PowerOfTwo(c + 1)
  BY <1>3, <1>4
<1> DEFINE L == Log2Floor(n)
<1>6. L \in 0..n /\ PowerOfTwo(L) <= n /\ n < PowerOfTwo(L + 1)
  BY <1>5, Zenon DEF Log2Floor
<1> HIDE DEF L
<1>7. L \in Nat
  BY <1>6
<1>8. QED
  BY <1>6, <1>7 DEF L

\* Log2Floor is monotonic.
LEMMA Log2FloorMonotonic ==
    ASSUME NEW m \in Nat \ {0}, NEW n \in Nat \ {0}, m <= n
    PROVE  Log2Floor(m) <= Log2Floor(n)
<1> DEFINE a == Log2Floor(m)
           b == Log2Floor(n)
<1>1. a \in Nat /\ PowerOfTwo(a) <= m
  BY Log2FloorBounds
<1>2. b \in Nat /\ n < PowerOfTwo(b + 1)
  BY Log2FloorBounds
<1> HIDE DEF a, b
<1> SUFFICES ASSUME ~(a <= b) PROVE FALSE
  BY DEF a, b
<1>3. b + 1 \in Nat /\ b + 1 <= a
  BY <1>1, <1>2
<1>4. PowerOfTwo(b + 1) <= PowerOfTwo(a)
  BY <1>1, <1>3, PowerMonotonic
<1>5. PowerOfTwo(b + 1) \in Nat /\ PowerOfTwo(a) \in Nat
  BY <1>1, <1>3, PowerBounds
<1>6. QED
  BY <1>1, <1>2, <1>4, <1>5

-----------------------------------------------------------------------------
(* Sizes, bins and regions. *)

Bytes == 1..MaxAllocationSize

(* Larger chunks are in no smaller bins. *)
LEMMA Bins ==
    /\ BinNumForSize \in [Bytes -> 0..(NumBins - 1)]
    /\ \A a, b \in Bytes : a <= b => BinNumForSize[a] <= BinNumForSize[b]
<1> DEFINE v(n) == MaxOf(n, MinAllocationSize) \div MinAllocationSize
<1>0. MinAllocationSize \in Nat \ {0} /\ MaxAllocationSize \in Nat
      /\ NumBins \in Nat \ {0}
  BY SizesAssumption
<1>1. ASSUME NEW n \in Bytes PROVE v(n) \in Nat \ {0}
  <2>1. MaxOf(n, MinAllocationSize) \in Nat
        /\ MaxOf(n, MinAllocationSize) >= MinAllocationSize
    BY <1>0 DEF MaxOf, Bytes
  <2> DEFINE x == MaxOf(n, MinAllocationSize)
  <2> HIDE DEF x
  <2>2. x \in Nat /\ x >= MinAllocationSize
    BY <2>1 DEF x
  <2>3. x \div MinAllocationSize \in Nat \ {0}
    BY <1>0, <2>2
  <2>4. QED
    BY <2>3 DEF x
<1>2. ASSUME NEW a \in Bytes, NEW b \in Bytes, a <= b PROVE v(a) <= v(b)
  <2> DEFINE x == MaxOf(a, MinAllocationSize)
             y == MaxOf(b, MinAllocationSize)
  <2>1. x \in Nat /\ y \in Nat /\ x <= y
    BY <1>0, <1>2 DEF MaxOf, Bytes
  <2> HIDE DEF x, y
  <2>2. x \div MinAllocationSize <= y \div MinAllocationSize
    BY <1>0, <2>1
  <2>3. QED
    BY <2>2 DEF x, y
<1> HIDE DEF v
<1> DEFINE L(n) == Log2Floor(v(n))
<1>3. ASSUME NEW n \in Bytes PROVE L(n) \in Nat
  BY <1>1, Log2FloorBounds
<1>4. ASSUME NEW a \in Bytes, NEW b \in Bytes, a <= b PROVE L(a) <= L(b)
  BY <1>1, <1>2, <1>4, Log2FloorMonotonic
<1> HIDE DEF L
<1>5. BinNumForSize = [n \in Bytes |-> MinOf(NumBins - 1, L(n))]
  BY DEF BinNumForSize, L, v, Bytes
<1>6. ASSUME NEW n \in Bytes
      PROVE  MinOf(NumBins - 1, L(n)) \in 0..(NumBins - 1)
  BY <1>0, <1>3 DEF MinOf
<1>7. ASSUME NEW a \in Bytes, NEW b \in Bytes, a <= b
      PROVE  BinNumForSize[a] <= BinNumForSize[b]
  <2>1. L(a) \in Nat /\ L(b) \in Nat /\ L(a) <= L(b)
    BY <1>3, <1>4, <1>7
  <2>2. MinOf(NumBins - 1, L(a)) <= MinOf(NumBins - 1, L(b))
    BY <1>0, <2>1 DEF MinOf
  <2>3. QED
    BY <1>5, <2>2
<1>8. QED
  BY <1>5, <1>6, <1>7

(* RoundedBytes gives the least multiple of the granule that is no smaller. *)
LEMMA Rounding ==
    ASSUME NEW n \in Nat
    PROVE  /\ RoundedBytes(n) \in Nat
           /\ RoundedBytes(n) >= n
           /\ RoundedBytes(n) % MinAllocationSize = 0
           /\ \A k \in Nat : k % MinAllocationSize = 0 /\ n <= k
                                => RoundedBytes(n) <= k
<1> DEFINE M == MinAllocationSize
           q == (n + M - 1) \div M
<1>1. M \in Nat \ {0}
  BY SizesAssumption
<1> HIDE DEF M
<1> DEFINE r == (n + M - 1) % M
<1>2. /\ q \in Nat /\ r \in 0..(M - 1) /\ n + M - 1 = M * q + r
      /\ M * q \in Nat
  BY <1>1
<1> HIDE DEF q, r
<1>3. RoundedBytes(n) = M * q
  BY DEF RoundedBytes, M, q
<1>4. M * q >= n
  BY <1>1, <1>2
<1>5. (M * q) % M = 0
  BY <1>1, <1>2, SMTT(30)
<1>6. ASSUME NEW k \in Nat, k % M = 0, n <= k PROVE M * q <= k
  <2>1. PICK j \in Nat : k = M * j
    <3> DEFINE j == k \div M
    <3>1. k = M * j + (k % M) /\ j \in Nat /\ M * j \in Nat
      BY <1>1
    <3> HIDE DEF j
    <3>2. k = M * j
      BY <1>6, <3>1
    <3>3. QED
      BY <3>1, <3>2
  <2>2. q <= j
    <3> SUFFICES ASSUME q >= j + 1 PROVE FALSE
      BY <1>2, <2>1
    <3>1. M * q >= M * (j + 1)
      BY <1>1, <1>2, <2>1
    <3>2. M * (j + 1) = M * j + M
      BY <1>1, <2>1
    <3>3. QED
      BY <1>1, <1>2, <1>6, <2>1, <3>1, <3>2
  <2>3. QED
    BY <1>1, <1>2, <2>1, <2>2
<1>7. QED
  BY <1>2, <1>3, <1>4, <1>5, <1>6 DEF M

(* Multiples of the granule are closed under what is done to sizes. *)
Granular(n) == n \in Nat /\ n % MinAllocationSize = 0

\* A multiple of a granular size is granular.
LEMMA GranularTimes ==
    ASSUME NEW a, Granular(a), NEW c \in Nat
    PROVE  Granular(a * c)
<1> DEFINE M == MinAllocationSize
           q == a \div M
<1>1. M \in Nat \ {0} /\ a \in Nat /\ a % M = 0
  BY SizesAssumption DEF Granular
<1> HIDE DEF M
<1>2. q \in Nat /\ a = M * q + 0
  BY <1>1
<1> HIDE DEF q
<1>3. a * c = M * (q * c) /\ q * c \in Nat
  BY <1>1, <1>2
<1>4. \A x \in Nat : (M * x) % M = 0 /\ M * x \in Nat
  BY <1>1, SMTT(30)
<1>5. QED
  BY <1>3, <1>4 DEF Granular, M

\* Sums and differences of granular sizes are granular.
LEMMA GranularSum ==
    ASSUME NEW a, NEW b, Granular(a), Granular(b)
    PROVE  /\ Granular(a + b)
           /\ a >= b => Granular(a - b)
<1> DEFINE M == MinAllocationSize
           q == a \div M
           p == b \div M
<1>1. M \in Nat \ {0} /\ a \in Nat /\ a % M = 0 /\ b \in Nat /\ b % M = 0
  BY SizesAssumption DEF Granular
<1> HIDE DEF M
<1>2. q \in Nat /\ a = M * q /\ p \in Nat /\ b = M * p
  BY <1>1
<1> HIDE DEF q, p
<1>3. (M * (q + p)) % M = 0 /\ M * (q + p) = a + b /\ a + b \in Nat
  BY <1>1, <1>2
<1>4. a >= b => (a - b) % M = 0 /\ a - b \in Nat
  <2> HAVE a >= b
  <2>1. q >= p
    <3> SUFFICES ASSUME p >= q + 1 PROVE FALSE
      BY <1>2
    <3>1. M * p >= M * (q + 1) /\ M * (q + 1) = M * q + M
      BY <1>1, <1>2
    <3>2. QED
      BY <1>1, <1>2, <3>1
  <2>2. q - p \in Nat
    BY <1>2, <2>1
  <2>3. M * (q - p) = a - b
    BY <1>1, <1>2
  <2>4. (M * (q - p)) % M = 0
    BY <1>1, <2>2
  <2>5. QED
    BY <1>1, <2>3, <2>4
<1>5. QED
  BY <1>3, <1>4 DEF Granular, M

(* The size of a region that is doubled until it suffices. *)
LEMMA Doubling ==
    ASSUME NEW curr \in Nat \ {0}, NEW n \in Nat
    PROVE  /\ Doubled(curr, n) \in Nat \ {0}
           /\ Doubled(curr, n) >= n
           /\ Granular(curr) => Granular(Doubled(curr, n))
<1> DEFINE S == {k \in Nat : curr * PowerOfTwo(k) >= n}
<1>1. \A k \in Nat : PowerOfTwo(k) \in Nat \ {0}
  BY PowerBounds
<1>2. n \in S
  <2>1. PowerOfTwo(n) > n /\ PowerOfTwo(n) \in Nat
    BY PowerBounds
  <2>2. curr * PowerOfTwo(n) >= PowerOfTwo(n)
    BY <2>1
  <2>3. curr * PowerOfTwo(n) \in Nat
    BY <2>1
  <2>4. QED
    BY <2>1, <2>2, <2>3
<1>3. PICK k \in S : \A c \in S : k <= c
  <2>1. S \in SUBSET Nat
    OBVIOUS
  <2>2. QED
    BY <1>2, <2>1, LeastElement
<1>4. k \in 0..n /\ curr * PowerOfTwo(k) >= n
  BY <1>2, <1>3
<1>5. k > 0 => curr * PowerOfTwo(k - 1) < n
  <2> HAVE k > 0
  <2>1. k - 1 \in Nat /\ k - 1 \notin S
    BY <1>3, <1>4
  <2>2. curr * PowerOfTwo(k - 1) \in Nat
    BY <1>1, <2>1
  <2>3. QED
    BY <2>1, <2>2
<1> DEFINE times == CHOOSE c \in 0..n : /\ curr * PowerOfTwo(c) >= n
                                        /\ c > 0 =>
                                             curr * PowerOfTwo(c - 1) < n
<1>6. times \in 0..n /\ curr * PowerOfTwo(times) >= n
  BY <1>4, <1>5, Zenon
<1>7. Doubled(curr, n) = curr * PowerOfTwo(times)
  BY DEF Doubled
<1> HIDE DEF times
<1>8. curr * PowerOfTwo(times) \in Nat \ {0}
  <2>1. times \in Nat
    BY <1>6
  <2>2. PowerOfTwo(times) \in Nat \ {0}
    BY <1>1, <2>1
  <2>3. QED
    BY <2>2
<1>9. Granular(curr) => Granular(curr * PowerOfTwo(times))
  <2>1. times \in Nat
    BY <1>6
  <2>2. PowerOfTwo(times) \in Nat
    BY <1>1, <2>1
  <2>3. QED
    BY <2>2, GranularTimes
<1>10. QED
  BY <1>6, <1>7, <1>8, <1>9

(* The sum of the sizes of the regions. *)
LEMMA TotalFollows ==
    ASSUME NEW R, Len(R) \in Nat, \A i \in 1..Len(R) : R[i].size \in Nat
    PROVE  LET step == [i \in Nat |-> [x \in Nat |->
                          IF i \in 1..Len(R) THEN x + R[i].size ELSE 0]]
           IN  \E g : Follows(g, Len(R), 0, step) /\ TotalSize(R) = g[Len(R)]
<1> DEFINE k == Len(R)
           step == [i \in Nat |-> [x \in Nat |->
                      IF i \in 1..k THEN x + R[i].size ELSE 0]]
           Solves(f) == f = [i \in 0..k |-> IF i = 0 THEN 0
                                            ELSE f[i - 1] + R[i].size]
           p == CHOOSE f : Solves(f)
<1>1. step \in [Nat -> [Nat -> Nat]]
  OBVIOUS
<1>k. k \in Nat
  OBVIOUS
<1> HIDE DEF k
<1>2. PICK g : Follows(g, k, 0, step)
  BY <1>1, <1>k, RecursionExists
<1>3. Solves(g)
  <2>1. g \in [0..k -> Nat] /\ g[0] = 0
    BY <1>2 DEF Follows
  <2>2. ASSUME NEW i \in 1..k PROVE g[i] = g[i - 1] + R[i].size
    <3>0. i - 1 \in 0..k /\ i \in Nat
      BY <1>k
    <3>1. g[i] = step[i][g[i - 1]]
      BY <1>2, Zenon DEF Follows
    <3>2. g[i - 1] \in Nat
      BY <2>1, <3>0
    <3>3. QED
      BY <3>0, <3>1, <3>2
  <2>3. QED
    BY <1>k, <2>1, <2>2
<1>4. Solves(p)
  <2> HIDE DEF Solves
  <2>1. QED
    BY <1>3
<1>5. TotalSize(R) = p[k]
  BY DEF TotalSize, k
<1> HIDE DEF p
<1> DEFINE S == {i \in 0..k : p[i] # g[i]}
<1>6. S = {}
  <2> SUFFICES ASSUME S # {} PROVE FALSE
    OBVIOUS
  <2>1. S \in SUBSET Nat
    BY <1>k
  <2>2. PICK m \in S : \A i \in S : m <= i
    BY <2>1, LeastElement
  <2>3. p[0] = 0 /\ g[0] = 0
    BY <1>2, <1>4, <1>k DEF Follows
  <2>4. m \in 1..k /\ m - 1 \in 0..k /\ m - 1 \notin S
    BY <1>k, <2>2, <2>3
  <2>5. p[m - 1] = g[m - 1]
    BY <2>4
  <2>6. p[m] = p[m - 1] + R[m].size /\ g[m] = g[m - 1] + R[m].size
    BY <1>3, <1>4, <1>k, <2>4
  <2>7. QED
    BY <2>2, <2>5, <2>6
<1>7. p[k] = g[k]
  BY <1>k, <1>6
<1> HIDE DEF step
<1>8. QED
  BY <1>2, <1>5, <1>7 DEF step, k

\* Appending a region adds its size to the total.
LEMMA TotalSizeGrows ==
    ASSUME NEW A, NEW R \in Seq(A), NEW r \in A,
           \A x \in A : x.size \in Nat
    PROVE  TotalSize(Append(R, r)) = TotalSize(R) + r.size
<1> DEFINE n == Len(R)
           Q == Append(R, r)
           w == r.size
<1>1. /\ n \in Nat /\ Len(Q) = n + 1 /\ Q[n + 1] = r /\ w \in Nat
      /\ \A i \in 1..n : Q[i] = R[i] /\ R[i] \in A
  BY AppendProperties, LenProperties, ElementOfSeq
<1> HIDE DEF n, Q, w
<1>2. PICK m \in Nat : m = n + 1 /\ n <= m /\ m - 1 = n /\ m \in 1..m
                       /\ n \in 0..n
  BY <1>1
<1>3. \A i \in 1..m : Q[i].size \in Nat
  <2> TAKE i \in 1..m
  <2>1. CASE i = m
    BY <1>1, <1>2, <2>1
  <2>2. CASE i # m
    <3>1. i \in 1..n
      BY <1>1, <1>2, <2>2
    <3>2. QED
      BY <1>1, <3>1
  <2>3. QED
    BY <2>1, <2>2
<1> DEFINE old == [i \in Nat |-> [x \in Nat |->
                     IF i \in 1..n THEN x + R[i].size ELSE 0]]
           new == [i \in Nat |-> [x \in Nat |->
                     IF i \in 1..m THEN x + Q[i].size ELSE 0]]
<1>4. PICK g : Follows(g, n, 0, old) /\ TotalSize(R) = g[n]
  <2>1. Len(R) \in Nat /\ \A i \in 1..Len(R) : R[i].size \in Nat
    BY <1>1 DEF n
  <2>2. QED
    BY <2>1, TotalFollows DEF n
<1>5. PICK f : Follows(f, m, 0, new) /\ TotalSize(Q) = f[m]
  <2>1. Len(Q) = m
    BY <1>1, <1>2
  <2>2. QED
    BY <1>3, <2>1, TotalFollows
<1>6. Follows(g, n, 0, new)
  <2>1. g \in [0..n -> Nat] /\ g[0] = 0
    BY <1>4 DEF Follows
  <2>2. ASSUME NEW i \in 1..n PROVE g[i] = new[i][g[i - 1]]
    <3>1. /\ i \in Nat /\ i - 1 \in 0..n /\ i \in 1..m
          /\ Q[i].size = R[i].size
      BY <1>1, <1>2
    <3>2. g[i] = old[i][g[i - 1]]
      BY <1>4, Zenon DEF Follows
    <3>3. g[i - 1] \in Nat
      BY <2>1, <3>1
    <3>4. old[i][g[i - 1]] = g[i - 1] + R[i].size
      BY <3>1, <3>3
    <3>5. new[i][g[i - 1]] = g[i - 1] + Q[i].size
      BY <3>1, <3>3
    <3>6. QED
      BY <3>1, <3>2, <3>4, <3>5
  <2> HIDE DEF new
  <2>3. QED
    BY <2>1, <2>2 DEF Follows
<1> HIDE DEF old
<1>7. g[n] = f[n] /\ g[n] \in Nat
  <2> HIDE DEF new
  <2>1. \A i \in 0..n : g[i] = f[i]
    <3>1. n \in Nat /\ 0 \in Nat /\ n <= m
      BY <1>1, <1>2
    <3>2. Follows(f, m, 0, new)
      BY <1>5
    <3>3. QED
      BY <1>6, <3>1, <3>2, RecursionUnique
  <2>2. QED
    BY <1>2, <1>6, <2>1 DEF Follows
<1>8. f[m] = f[n] + w
  <2>1. f[m] = new[m][f[n]]
    <3> HIDE DEF new
    <3>1. QED
      BY <1>2, <1>5 DEF Follows
  <2>2. new[m][f[n]] = f[n] + Q[m].size
    BY <1>2, <1>7
  <2>3. Q[m].size = w
    BY <1>1, <1>2 DEF w
  <2>4. QED
    BY <2>1, <2>2, <2>3
<1>9. QED
  BY <1>4, <1>5, <1>7, <1>8 DEF Q, w

\* An allocator without regions has allocated nothing.
LEMMA TotalSizeEmpty ==
    ASSUME NEW R, Len(R) = 0
    PROVE  TotalSize(R) = 0
<1> DEFINE step == [i \in Nat |-> [x \in Nat |->
                      IF i \in 1..Len(R) THEN x + R[i].size ELSE 0]]
<1>1. Len(R) \in Nat /\ \A i \in 1..Len(R) : R[i].size \in Nat
  OBVIOUS
<1>2. PICK g : Follows(g, Len(R), 0, step) /\ TotalSize(R) = g[Len(R)]
  BY <1>1, TotalFollows, Zenon
<1>3. g[0] = 0
  BY <1>2, Zenon DEF Follows
<1>4. QED
  BY <1>2, <1>3

-----------------------------------------------------------------------------
(* The record of an allocator, by its fields. *)

Bfc(C, F, H, R, curr, total, back) ==
    [chunks |-> C, free_list |-> F, handles |-> H, regions |-> R,
     curr_region |-> curr, total |-> total, started_backpedal |-> back]

Updated(C, h, x) == [C EXCEPT ![h] = x]
OutOfBin(c) == [c EXCEPT !.bin_num = NoBin]
MarkedFree(c) == [c EXCEPT !.in_use = FALSE]
MarkedUsed(c) == [c EXCEPT !.in_use = TRUE]
MergedAway(C, g, h) == Updated(Merged(C, g, h), h, DeletedChunk)
Shrunk(c, n, m) == [c EXCEPT !.size = n, !.next = m]
WithPrev(c, m) == [c EXCEPT !.prev = m]
Shrink(s, h, n, m) ==
    [s EXCEPT !.chunks[h] = [@ EXCEPT !.size = n, !.next = m]]
Relink(s, h, m) == [s EXCEPT !.chunks[h].prev = m]
MarkFree(s, h) == [s EXCEPT !.chunks[h].in_use = FALSE]
MarkUsed(s, h) == [s EXCEPT !.chunks[h].in_use = TRUE]
MergedOut(C, x, g, h) == MergedAway(Updated(C, x, OutOfBin(C[x])), g, h)
Without(H, h) == [p \in {q \in DOMAIN H : H[q] # h} |-> H[p]]

HandleOf(C, F) == IF F # << >> THEN Head(F) ELSE Len(C) + 1
WithNew(C, F, x) ==
    IF F # << >> THEN Updated(C, HandleOf(C, F), x) ELSE Append(C, x)
LessFree(F) == IF F # << >> THEN Tail(F) ELSE F
WithHandle(H, p, m) ==
    [q \in DOMAIN H \cup {p} |-> IF q = p THEN m ELSE H[q]]

\* The fields of an allocator state put together by Bfc.
LEMMA Fields ==
    ASSUME NEW C, NEW F, NEW H, NEW R, NEW c, NEW n, NEW b
    PROVE  /\ Bfc(C, F, H, R, c, n, b).chunks = C
           /\ Bfc(C, F, H, R, c, n, b).free_list = F
           /\ Bfc(C, F, H, R, c, n, b).handles = H
           /\ Bfc(C, F, H, R, c, n, b).regions = R
           /\ Bfc(C, F, H, R, c, n, b).curr_region = c
           /\ Bfc(C, F, H, R, c, n, b).total = n
           /\ Bfc(C, F, H, R, c, n, b).started_backpedal = b
BY DEF Bfc

WithChunks(s, x, y, z) ==
    [s EXCEPT !.chunks = x, !.free_list = y, !.handles = z]

WithRegions(s, x, y, z) ==
    [s EXCEPT !.regions = x, !.total = y, !.curr_region = z]

\* Replacing the chunks, the free list and the handles changes no other field.
LEMMA ChangedChunks ==
    ASSUME NEW C, NEW F, NEW H, NEW R, NEW c, NEW n, NEW b,
           NEW x, NEW y, NEW z, NEW s, s = Bfc(C, F, H, R, c, n, b)
    PROVE  WithChunks(s, x, y, z) = Bfc(x, y, z, R, c, n, b)
<1>1. [s EXCEPT !.chunks = x] = Bfc(x, F, H, R, c, n, b)
  BY DEF Bfc
<1>2. [Bfc(x, F, H, R, c, n, b) EXCEPT !.free_list = y]
        = Bfc(x, y, H, R, c, n, b)
  BY DEF Bfc
<1>3. [Bfc(x, y, H, R, c, n, b) EXCEPT !.handles = z]
        = Bfc(x, y, z, R, c, n, b)
  BY DEF Bfc
<1>4. QED
  BY <1>1, <1>2, <1>3, Zenon DEF WithChunks

\* Replacing the regions and the sizes changes no other field.
LEMMA ChangedRegions ==
    ASSUME NEW C, NEW F, NEW H, NEW R, NEW c, NEW n, NEW b,
           NEW x, NEW y, NEW z, NEW s, s = Bfc(C, F, H, R, c, n, b)
    PROVE  WithRegions(s, x, y, z) = Bfc(C, F, H, x, z, y, b)
<1>1. [s EXCEPT !.regions = x]
        = Bfc(C, F, H, x, c, n, b)
  BY DEF Bfc
<1>2. [Bfc(C, F, H, x, c, n, b) EXCEPT !.total = y] = Bfc(C, F, H, x, c, y, b)
  BY DEF Bfc
<1>3. [Bfc(C, F, H, x, c, y, b) EXCEPT !.curr_region = z]
        = Bfc(C, F, H, x, z, y, b)
  BY DEF Bfc
<1>4. QED
  BY <1>1, <1>2, <1>3, Zenon DEF WithRegions

\* What DeleteChunk leaves: a cleared chunk on the free list, no handle to it.
LEMMA ChunkDeleted ==
    ASSUME NEW C, NEW F, NEW H, NEW R, NEW c, NEW n, NEW b, NEW h
    PROVE  DeleteChunk(Bfc(C, F, H, R, c, n, b), h)
             = Bfc(Updated(C, h, DeletedChunk), <<h>> \o F, Without(H, h),
                   R, c, n, b)
<1> DEFINE s == Bfc(C, F, H, R, c, n, b)
           x == Updated(C, h, DeletedChunk)
           y == <<h>> \o F
           z == Without(H, h)
<1>0. s = Bfc(C, F, H, R, c, n, b)
  OBVIOUS
<1>1. s.chunks = C /\ s.free_list = F /\ s.handles = H
  BY Fields
<1> HIDE DEF s
<1>2. DeleteChunk(s, h) = WithChunks(s, x, y, z)
  BY <1>1 DEF DeleteChunk, Without, WithChunks, Updated
<1> HIDE DEF x, y, z
<1>3. WithChunks(s, x, y, z) = Bfc(x, y, z, R, c, n, b)
  BY <1>0, ChangedChunks
<1>4. QED
  BY <1>2, <1>3 DEF s, x, y, z

\* What AllocateChunk returns: a recycled chunk, or one past the last.
LEMMA ChunkAllocated ==
    ASSUME NEW C, NEW F, NEW H, NEW R, NEW c, NEW n, NEW b, NEW x
    PROVE  /\ NewHandle(Bfc(C, F, H, R, c, n, b)) = HandleOf(C, F)
           /\ AllocateChunk(Bfc(C, F, H, R, c, n, b), x)
                = Bfc(WithNew(C, F, x), LessFree(F),
                      WithHandle(H, x.ptr, HandleOf(C, F)), R, c, n, b)
<1> DEFINE s == Bfc(C, F, H, R, c, n, b)
           m == HandleOf(C, F)
           X == WithNew(C, F, x)
           y == LessFree(F)
           z == WithHandle(H, x.ptr, m)
<1>0. s = Bfc(C, F, H, R, c, n, b)
  OBVIOUS
<1>1. s.chunks = C /\ s.free_list = F /\ s.handles = H
  BY Fields
<1> HIDE DEF s
<1>2. NewHandle(s) = m
  BY <1>1 DEF NewHandle, HandleOf
<1>3. AllocateChunk(s, x) = WithChunks(s, X, y, z)
  BY <1>1, <1>2
  DEF AllocateChunk, WithChunks, Updated, WithNew, LessFree, WithHandle,
      HandleOf
<1> HIDE DEF X, y, z, m
<1>4. WithChunks(s, X, y, z) = Bfc(X, y, z, R, c, n, b)
  BY <1>0, ChangedChunks
<1>5. QED
  BY <1>2, <1>3, <1>4 DEF s, X, y, z, m

\* The step of SplitChunk that cuts the chunk that is split.
LEMMA ChunkShrunk ==
    ASSUME NEW C, NEW F, NEW H, NEW R, NEW c, NEW n, NEW b, NEW h,
           NEW k, NEW m, NEW s, s = Bfc(C, F, H, R, c, n, b)
    PROVE  Shrink(s, h, k, m)
             = Bfc(Updated(C, h, Shrunk(C[h], k, m)), F, H, R, c, n, b)
<1>1. PICK x : x = Shrunk(C[h], k, m)
  OBVIOUS
<1>2. [Bfc(C, F, H, R, c, n, b) EXCEPT !.chunks[h] = x]
        = Bfc(Updated(C, h, x), F, H, R, c, n, b)
  BY DEF Updated, Bfc
<1>3. s.chunks = C
  BY Fields
<1>4. Shrink(s, h, k, m) = [s EXCEPT !.chunks[h] = x]
  BY <1>1, <1>3 DEF Shrink, Shrunk
<1>5. QED
  BY <1>1, <1>2, <1>4

\* The step of SplitChunk that links the next chunk back to the new one.
LEMMA ChunkRelinked ==
    ASSUME NEW C, NEW F, NEW H, NEW R, NEW c, NEW n, NEW b, NEW h,
           NEW m, NEW s, s = Bfc(C, F, H, R, c, n, b)
    PROVE  Relink(s, h, m)
             = Bfc(Updated(C, h, WithPrev(C[h], m)), F, H, R, c, n, b)
BY DEF Relink, Updated, WithPrev, Bfc

\* InsertFreeChunkIntoBin changes the bin of the chunk and nothing else.
LEMMA ChunkInserted ==
    ASSUME NEW C, NEW F, NEW H, NEW R, NEW c, NEW n, NEW b, NEW h
    PROVE  InsertFreeChunkIntoBin(Bfc(C, F, H, R, c, n, b), h)
             = Bfc(Updated(C, h, InBinOfSize(C[h])), F, H, R, c, n, b)
BY DEF InsertFreeChunkIntoBin, Updated, Bfc

\* RemoveFreeChunkFromBin changes the bin of the chunk and nothing else.
LEMMA ChunkRemoved ==
    ASSUME NEW C, NEW F, NEW H, NEW R, NEW c, NEW n, NEW b, NEW h
    PROVE  RemoveFreeChunkFromBin(Bfc(C, F, H, R, c, n, b), h)
             = Bfc(Updated(C, h, OutOfBin(C[h])), F, H, R, c, n, b)
BY DEF RemoveFreeChunkFromBin, Updated, OutOfBin, Bfc

\* Marking a chunk free or in use changes that flag and nothing else.
LEMMA ChunkMarked ==
    ASSUME NEW C, NEW F, NEW H, NEW R, NEW c, NEW n, NEW b, NEW h
    PROVE  /\ MarkFree(Bfc(C, F, H, R, c, n, b), h)
                = Bfc(Updated(C, h, MarkedFree(C[h])), F, H, R, c, n, b)
           /\ MarkUsed(Bfc(C, F, H, R, c, n, b), h)
                = Bfc(Updated(C, h, MarkedUsed(C[h])), F, H, R, c, n, b)
<1> DEFINE marked(u) == [C EXCEPT ![h] = [C[h] EXCEPT !.in_use = u]]
<1>1. ASSUME NEW u
      PROVE  [Bfc(C, F, H, R, c, n, b) EXCEPT !.chunks[h].in_use = u]
               = Bfc(marked(u), F, H, R, c, n, b)
  BY DEF Bfc
<1>2. /\ marked(FALSE) = Updated(C, h, MarkedFree(C[h]))
      /\ marked(TRUE) = Updated(C, h, MarkedUsed(C[h]))
  BY DEF Updated, MarkedFree, MarkedUsed
<1> HIDE DEF marked
<1>3. QED
  BY <1>1, <1>2, Zenon DEF MarkFree, MarkUsed

\* What Merge leaves: the first chunk grown, the second one deleted.
LEMMA ChunksMerged ==
    ASSUME NEW C, NEW F, NEW H, NEW R, NEW c, NEW n, NEW b, NEW g, NEW h
    PROVE  Merge(Bfc(C, F, H, R, c, n, b), g, h)
             = Bfc(MergedAway(C, g, h), <<h>> \o F,
                   Without(H, h), R, c, n, b)
<1> DEFINE X == Merged(C, g, h)
<1>1. [Bfc(C, F, H, R, c, n, b) EXCEPT !.chunks = X]
        = Bfc(X, F, H, R, c, n, b)
  BY DEF Bfc
<1>2. Bfc(C, F, H, R, c, n, b).chunks = C
  BY Fields
<1>3. Merge(Bfc(C, F, H, R, c, n, b), g, h)
        = DeleteChunk(Bfc(X, F, H, R, c, n, b), h)
  BY <1>1, <1>2 DEF Merge
<1> HIDE DEF X
<1>4. QED
  BY <1>3, ChunkDeleted DEF X, MergedAway

-----------------------------------------------------------------------------
(* The structure of the chunks. *)

Chunk ==
    [ptr : Nat, size : 0..MaxAllocationSize, in_use : BOOLEAN,
     prev : Nat, next : Nat, bin_num : Nat]

Region == [ptr : Nat, size : Bytes]

Live(C) == {h \in 1..Len(C) : C[h].size > 0}

(* The number of the region that an address is in. *)
RegionOf(p) == p \div RegionStride

(* Chunk h is inside a region, and so are its neighbours: one begins where  *)
(* the chunk ends, or the chunk ends where its region does.                  *)
Placed(C, R, h) ==
    LET c == C[h]
        k == RegionOf(c.ptr)
    IN  /\ k \in 1..Len(R)
        /\ R[k].ptr <= c.ptr
        /\ End(c) <= End(R[k])
        /\ c.next = Invalid => End(c) = End(R[k])
        /\ c.next # Invalid => /\ c.next \in Live(C)
                               /\ C[c.next].ptr = End(c)
                               /\ C[c.next].prev = h
                               /\ RegionOf(End(c)) = k
        /\ c.prev = Invalid => c.ptr = R[k].ptr
        /\ c.prev # Invalid => /\ c.prev \in Live(C)
                               /\ C[c.prev].next = h

Disjoint(C) ==
    \A g, h \in Live(C) :
        g # h => End(C[g]) <= C[h].ptr \/ End(C[h]) <= C[g].ptr

(* The handles of the live chunks are found by address, and the list of free *)
(* handles holds deleted chunks, each of them once.                          *)
Indexed(C, H) ==
    /\ DOMAIN H = {C[h].ptr : h \in Live(C)}
    /\ \A h \in Live(C) : H[C[h].ptr] = h

Spare(C, F) ==
    /\ F \in Seq(1..Len(C))
    /\ \A i \in 1..Len(F) : C[F[i]].size = 0
    /\ \A i, j \in 1..Len(F) : F[i] = F[j] => i = j

Chunks(C) ==
    /\ C \in Seq(Chunk)
    /\ \A h \in 1..Len(C) : C[h].size = 0 => C[h] = DeletedChunk
    /\ \A h \in Live(C) : Granular(C[h].size)

Regions(R) ==
    /\ R \in Seq(Region)
    /\ \A k \in 1..Len(R) : R[k].ptr = k * RegionStride

Structure(C, F, H, R) ==
    /\ Chunks(C)
    /\ Regions(R)
    /\ \A h \in Live(C) : Placed(C, R, h)
    /\ Disjoint(C)
    /\ Indexed(C, H)
    /\ Spare(C, F)

\* The types of the fields of a chunk.
LEMMA ChunkFields ==
    ASSUME NEW C, Chunks(C), NEW h \in 1..Len(C)
    PROVE  /\ C[h].ptr \in Nat
           /\ C[h].size \in 0..MaxAllocationSize
           /\ C[h].in_use \in BOOLEAN
           /\ C[h].prev \in Nat
           /\ C[h].next \in Nat
           /\ C[h].bin_num \in Nat
           /\ Len(C) \in Nat
<1>1. C[h] \in Chunk /\ Len(C) \in Nat
  BY DEF Chunks
<1>2. QED
  BY <1>1 DEF Chunk

\* The types of the fields of a region.
LEMMA RegionFields ==
    ASSUME NEW R, Regions(R), NEW k \in 1..Len(R)
    PROVE  /\ R[k].ptr \in Nat
           /\ R[k].size \in Bytes
           /\ Len(R) \in Nat
<1>1. R[k] \in Region /\ Len(R) \in Nat
  BY DEF Regions
<1>2. QED
  BY <1>1 DEF Region

(* Chunk b, the next one of a, became part of a. *)
Merges(C, D, a, b) ==
    /\ Len(D) = Len(C)
    /\ D[b] = DeletedChunk
    /\ D[a].ptr = C[a].ptr
    /\ D[a].size = C[a].size + C[b].size
    /\ D[a].in_use <=> C[a].in_use
    /\ D[a].prev = C[a].prev
    /\ D[a].next = C[b].next
    /\ \A h \in 1..Len(C) : h # a /\ h # b =>
          /\ D[h].ptr = C[h].ptr
          /\ D[h].size = C[h].size
          /\ D[h].in_use <=> C[h].in_use
          /\ D[h].prev = IF h = C[b].next THEN a ELSE C[h].prev
          /\ D[h].next = C[h].next
          /\ D[h].bin_num = C[h].bin_num

\* The fields of every chunk after a merge, one chunk at a time.
LEMMA MergedFields ==
    ASSUME NEW C, Chunks(C), NEW a \in Live(C), NEW b \in Live(C),
           a # b, C[b].next # a, C[b].next # Invalid => C[b].next \in Live(C),
           C[a].size + C[b].size <= MaxAllocationSize
    PROVE  LET D == MergedAway(C, a, b)
           IN  Merges(C, D, a, b) /\ Chunks(D)
<1> DEFINE E == Merged(C, a, b)
           D == [E EXCEPT ![b] = DeletedChunk]
           n == C[b].next
           N == Len(C)
           x == [C[a] EXCEPT !.size = @ + C[b].size, !.next = n]
           y(h) == [C[h] EXCEPT !.prev = a]
<1>1. /\ C \in Seq(Chunk) /\ N \in Nat /\ DOMAIN C = 1..N
      /\ a \in 1..N /\ b \in 1..N
      /\ \A h \in 1..N : C[h] \in Chunk
  BY DEF Chunks, Live
<1>2. /\ x \in Chunk /\ x.ptr = C[a].ptr /\ x.size = C[a].size + C[b].size
      /\ x.in_use = C[a].in_use /\ x.prev = C[a].prev /\ x.next = n
  <2>1. C[a] \in Chunk /\ n \in Nat
    BY <1>1 DEF Chunk
  <2>2. C[a].size + C[b].size \in 0..MaxAllocationSize
    BY <1>1, ChunkFields
  <2> HIDE DEF n
  <2>3. QED
    BY <2>1, <2>2 DEF Chunk
<1>3. ASSUME NEW h \in 1..N
      PROVE  /\ y(h) \in Chunk /\ y(h).ptr = C[h].ptr /\ y(h).size = C[h].size
             /\ y(h).in_use = C[h].in_use /\ y(h).prev = a
             /\ y(h).next = C[h].next /\ y(h).bin_num = C[h].bin_num
  <2>1. C[h] \in Chunk /\ a \in Nat
    BY <1>1
  <2>2. QED
    BY <2>1 DEF Chunk
<1>4. DeletedChunk \in Chunk /\ DeletedChunk.size = 0
  BY SizesAssumption DEF Chunk, DeletedChunk, Invalid, NoBin
<1>5. E = [h \in 1..N |-> IF h = a THEN x ELSE IF h = n THEN y(h) ELSE C[h]]
  BY <1>1 DEF Merged
<1> HIDE DEF x, y
<1>6. D = [h \in 1..N |-> IF h = b THEN DeletedChunk ELSE IF h = a THEN x
                          ELSE IF h = n THEN y(h) ELSE C[h]]
  BY <1>1, <1>5
<1>7. /\ D \in Seq(Chunk) /\ Len(D) = N
      /\ D[b] = DeletedChunk /\ D[a] = x
      /\ \A h \in 1..N : h # a /\ h # b => D[h] = IF h = n THEN y(h) ELSE C[h]
  <2>1. \A h \in 1..N : (IF h = b THEN DeletedChunk ELSE IF h = a THEN x
                         ELSE IF h = n THEN y(h) ELSE C[h]) \in Chunk
    BY <1>1, <1>2, <1>3, <1>4
  <2>2. D \in Seq(Chunk) /\ Len(D) = N
    <3>1. D \in [1..N -> Chunk]
      BY <1>6, <2>1
    <3> HIDE DEF D, N
    <3>2. QED
      BY <1>1, <3>1
  <2>3. QED
    BY <1>1, <1>6, <2>2
<1> HIDE DEF D, E
<1>8. Merges(C, D, a, b)
  <2> USE <1>1, <1>7
  <2>1. /\ D[a].ptr = C[a].ptr /\ D[a].size = C[a].size + C[b].size
        /\ D[a].in_use <=> C[a].in_use
        /\ D[a].prev = C[a].prev /\ D[a].next = n
    BY <1>2
  <2>2. ASSUME NEW h \in 1..N, h # a, h # b
        PROVE  /\ D[h].ptr = C[h].ptr
               /\ D[h].size = C[h].size
               /\ D[h].in_use <=> C[h].in_use
               /\ D[h].prev = IF h = n THEN a ELSE C[h].prev
               /\ D[h].next = C[h].next
               /\ D[h].bin_num = C[h].bin_num
    <3>1. D[h] = IF h = n THEN y(h) ELSE C[h]
      BY <2>2
    <3>2. CASE h = n
      BY <1>3, <3>1, <3>2
    <3>3. CASE h # n
      BY <3>1, <3>3
    <3>4. QED
      BY <3>2, <3>3
  <2>3. QED
    BY <2>1, <2>2 DEF Merges
<1>9. Chunks(D)
  <2>1. \A h \in 1..N : C[h].size \in Nat
    BY <1>1 DEF Chunk
  <2>2. ASSUME NEW h \in 1..N, D[h].size = 0 PROVE D[h] = DeletedChunk
    <3>1. CASE h = b
      BY <1>7, <3>1
    <3>2. CASE h = a
      <4>1. C[a].size > 0
        BY DEF Live
      <4>2. QED
        BY <1>1, <1>8, <2>1, <2>2, <3>2, <4>1 DEF Merges
    <3>3. CASE h # a /\ h # b
      <4>1. C[h].size = 0
        BY <1>8, <2>2, <3>3 DEF Merges
      <4>2. C[h] = DeletedChunk
        BY <4>1 DEF Chunks
      <4>3. QED
        <5>1. CASE h = n
          BY <1>1, <4>1, <5>1 DEF Live, Invalid
        <5>2. CASE h # n
          BY <1>7, <3>3, <4>2, <5>2
        <5>3. QED
          BY <5>1, <5>2
    <3>4. QED
      BY <3>1, <3>2, <3>3
  <2>3. ASSUME NEW h \in Live(D) PROVE Granular(D[h].size)
    <3>1. h \in 1..N /\ D[h].size > 0
      BY <1>7, <2>3 DEF Live
    <3>2. CASE h = b
      BY <1>4, <1>7, <3>1, <3>2
    <3>3. CASE h = a
      <4>1. Granular(C[a].size) /\ Granular(C[b].size)
        BY DEF Chunks
      <4>2. QED
        BY <1>8, <3>3, <4>1, GranularSum DEF Merges
    <3>4. CASE h # a /\ h # b
      <4>1. h \in Live(C) /\ D[h].size = C[h].size
        BY <1>8, <3>1, <3>4 DEF Merges, Live
      <4>2. QED
        BY <4>1 DEF Chunks
    <3>5. QED
      BY <3>2, <3>3, <3>4
  <2>4. QED
    BY <1>7, <2>2, <2>3 DEF Chunks
<1>10. QED
  BY <1>8, <1>9 DEF D, E, MergedAway, Updated

(* A chunk and the next one are two, in one region. *)
LEMMA Neighbours ==
    ASSUME NEW C, NEW F, NEW H, NEW R, Structure(C, F, H, R),
           NEW a \in Live(C), C[a].next # Invalid
    PROVE  /\ C[a].next \in Live(C)
           /\ C[a].next # a
           /\ C[C[a].next].next # a
           /\ C[C[a].next].next # C[a].next
           /\ C[C[a].next].next # Invalid
                => C[C[a].next].next \in Live(C)
           /\ C[a].size + C[C[a].next].size <= MaxAllocationSize
<1> DEFINE b == C[a].next
           n == C[b].next
           k == RegionOf(C[a].ptr)
<1>0. Chunks(C) /\ Regions(R) /\ MaxAllocationSize \in Nat
  BY SizesAssumption DEF Structure
<1>1. Placed(C, R, a)
  BY DEF Structure
<1>2. /\ b \in Live(C) /\ C[b].ptr = End(C[a]) /\ RegionOf(End(C[a])) = k
      /\ k \in 1..Len(R) /\ R[k].ptr <= C[a].ptr
  BY <1>1 DEF Placed
<1>3. Placed(C, R, b)
  BY <1>2 DEF Structure
<1>4. /\ End(C[b]) <= End(R[k])
      /\ n # Invalid => n \in Live(C) /\ C[n].ptr = End(C[b])
  BY <1>2, <1>3 DEF Placed
<1>5. /\ C[a].ptr \in Nat /\ C[a].size \in Nat \ {0}
      /\ C[b].ptr \in Nat /\ C[b].size \in Nat \ {0}
      /\ R[k].ptr \in Nat /\ R[k].size \in Nat
      /\ R[k].size <= MaxAllocationSize
  <2>1. a \in 1..Len(C) /\ b \in 1..Len(C) /\ C[a].size > 0 /\ C[b].size > 0
    BY <1>2 DEF Live
  <2>2. R[k].ptr \in Nat /\ R[k].size \in Nat /\ R[k].size <= MaxAllocationSize
    BY <1>0, <1>2, RegionFields DEF Bytes
  <2>3. QED
    BY <1>0, <2>1, <2>2, ChunkFields
<1> HIDE DEF b, n, k
<1>6. b # a
  BY <1>2, <1>5 DEF End
<1>7. n # a /\ n # b
  <2>1. CASE n = Invalid
    BY <1>2, <2>1 DEF Live, Invalid
  <2>2. CASE n # Invalid
    <3>1. /\ C[b].ptr = C[a].ptr + C[a].size
          /\ C[n].ptr = C[b].ptr + C[b].size
      BY <1>2, <1>4, <2>2 DEF End
    <3>2. C[n].ptr # C[a].ptr /\ C[n].ptr # C[b].ptr
      BY <1>5, <3>1
    <3>3. QED
      BY <3>2
  <2>3. QED
    BY <2>1, <2>2
<1>8. C[a].size + C[b].size <= MaxAllocationSize
  <2>1. /\ C[b].ptr = C[a].ptr + C[a].size
        /\ C[b].ptr + C[b].size <= R[k].ptr + R[k].size
        /\ R[k].ptr <= C[a].ptr
    BY <1>2, <1>4 DEF End
  <2>2. QED
    BY <1>0, <1>5, <2>1
<1>9. QED
  BY <1>2, <1>4, <1>6, <1>7, <1>8 DEF b, n

\* Merging two neighbours keeps the structure of the regions.
LEMMA MergeKeeps ==
    ASSUME NEW C, NEW F, NEW H, NEW R, Structure(C, F, H, R),
           NEW a \in Live(C), C[a].next # Invalid,
           NEW D, Merges(C, D, a, C[a].next), Chunks(D)
    PROVE  Structure(D, <<C[a].next>> \o F, Without(H, C[a].next), R)
<1> DEFINE b == C[a].next
           n == C[b].next
           N == Len(C)
<1>0. Chunks(C) /\ Regions(R) /\ b # Invalid
  BY DEF Structure
<1>1. /\ b \in Live(C) /\ a # b /\ n # a /\ n # b
      /\ n # Invalid => n \in Live(C)
  BY Neighbours
<1>2. Merges(C, D, a, b)
  OBVIOUS
<1>n. C[a].next = b /\ C[b].next = n
  OBVIOUS
<1>3. /\ N \in Nat /\ a \in 1..N /\ b \in 1..N
      /\ C[a].size > 0 /\ C[b].size > 0
  BY <1>0, <1>1 DEF Live, Chunks
<1> HIDE DEF b, n
<1>t. ASSUME NEW h \in 1..N
      PROVE  /\ C[h].ptr \in Nat /\ C[h].size \in Nat
             /\ C[h].next \in Nat /\ C[h].prev \in Nat
  BY <1>0, ChunkFields
<1>4. /\ Len(D) = N /\ D[b].size = 0
      /\ D[a].ptr = C[a].ptr
      /\ D[a].size = C[a].size + C[b].size
      /\ D[a].prev = C[a].prev
      /\ D[a].next = n
      /\ \A h \in 1..N : h # a /\ h # b =>
            /\ D[h].ptr = C[h].ptr
            /\ D[h].size = C[h].size
            /\ D[h].prev = IF h = n THEN a ELSE C[h].prev
            /\ D[h].next = C[h].next
  BY <1>2, <1>n DEF Merges, DeletedChunk
<1>5. Live(D) = Live(C) \ {b}
  <2>1. ASSUME NEW h \in 1..N PROVE h \in Live(D) <=> h \in Live(C) \ {b}
    <3>1. CASE h = a
      BY <1>1, <1>3, <1>4, <1>t, <3>1 DEF Live
    <3>2. CASE h = b
      BY <1>4, <3>2 DEF Live
    <3>3. CASE h # a /\ h # b
      BY <1>4, <3>3 DEF Live
    <3>4. QED
      BY <3>1, <3>2, <3>3
  <2>2. Live(D) \subseteq 1..N /\ Live(C) \subseteq 1..N
    BY <1>4 DEF Live
  <2>3. QED
    BY <2>1, <2>2
<1>6. /\ C[b].ptr = End(C[a]) /\ C[b].prev = a
      /\ RegionOf(End(C[a])) = RegionOf(C[a].ptr)
      /\ End(D[a]) = End(C[b])
  <2>1. Placed(C, R, a)
    BY DEF Structure
  <2>2. /\ C[b].ptr = End(C[a]) /\ C[b].prev = a
        /\ RegionOf(End(C[a])) = RegionOf(C[a].ptr)
    BY <1>0, <1>n, <2>1 DEF Placed
  <2>3. QED
    BY <1>3, <1>4, <1>t, <2>2 DEF End
<1>e. ASSUME NEW h \in 1..N, h # a, h # b PROVE End(D[h]) = End(C[h])
  BY <1>4, <1>e DEF End
<1>7. ASSUME NEW h \in Live(D) PROVE Placed(D, R, h)
  <2>0. h \in Live(C) /\ h # b /\ h \in 1..N
    BY <1>5 DEF Live
  <2>1. Placed(C, R, h) /\ Placed(C, R, a) /\ Placed(C, R, b)
    BY <1>1, <2>0 DEF Structure
  <2>2. CASE h = a
    <3> DEFINE k == RegionOf(C[a].ptr)
    <3>1. /\ k \in 1..Len(R) /\ R[k].ptr <= C[a].ptr
          /\ End(C[b]) <= End(R[k])
          /\ n = Invalid => End(C[b]) = End(R[k])
          /\ n # Invalid => /\ C[n].ptr = End(C[b])
                            /\ RegionOf(End(C[b])) = k
          /\ C[a].prev = Invalid => C[a].ptr = R[k].ptr
          /\ C[a].prev # Invalid => C[a].prev \in Live(C)
                                    /\ C[C[a].prev].next = a
      BY <1>6, <1>n, <2>1 DEF Placed
    <3>2. n # Invalid => n \in Live(D) /\ D[n].ptr = C[n].ptr /\ D[n].prev = a
      BY <1>1, <1>4, <1>5 DEF Live
    <3>3. C[a].prev # Invalid => /\ C[a].prev \in Live(D)
                                 /\ D[C[a].prev].next = a
      <4> HAVE C[a].prev # Invalid
      <4>1. C[a].prev \in Live(C) /\ C[C[a].prev].next = a
        BY <3>1
      <4>2. C[a].prev # b /\ C[a].prev # a
        BY <1>1, <1>n, <4>1
      <4>3. C[a].prev \in 1..N
        BY <4>1 DEF Live
      <4>4. QED
        BY <1>4, <1>5, <4>1, <4>2, <4>3
    <3> HIDE DEF k
    <3>4. RegionOf(D[a].ptr) = k
      BY <1>4 DEF k
    <3>5. QED
      BY <1>4, <1>6, <2>2, <3>1, <3>2, <3>3, <3>4 DEF Placed
  <2>3. CASE h # a
    <3> DEFINE k == RegionOf(C[h].ptr)
               m == C[h].next
               p == C[h].prev
    <3>0. /\ D[h].ptr = C[h].ptr /\ End(D[h]) = End(C[h]) /\ D[h].next = m
          /\ D[h].prev = IF h = n THEN a ELSE p
      BY <1>4, <1>e, <2>0, <2>3
    <3>1. /\ k \in 1..Len(R) /\ R[k].ptr <= C[h].ptr
          /\ End(C[h]) <= End(R[k])
          /\ m = Invalid => End(C[h]) = End(R[k])
          /\ m # Invalid => /\ m \in Live(C)
                            /\ C[m].ptr = End(C[h])
                            /\ C[m].prev = h
                            /\ RegionOf(End(C[h])) = k
          /\ p = Invalid => C[h].ptr = R[k].ptr
          /\ p # Invalid => p \in Live(C) /\ C[p].next = h
      BY <2>1 DEF Placed
    <3> HIDE DEF k, m, p
    <3>2. m # Invalid => /\ m \in Live(D) /\ D[m].ptr = C[m].ptr
                         /\ D[m].prev = h
      <4> HAVE m # Invalid
      <4>1. m # b
        BY <1>6, <2>3, <3>1
      <4>2. m # n
        <5>1. n # Invalid => C[n].prev = b
          BY <1>n, <2>1 DEF Placed
        <5>2. QED
          BY <2>0, <3>1, <5>1
      <4>3. m \in 1..N /\ m \in Live(D)
        BY <1>5, <3>1, <4>1 DEF Live
      <4>4. CASE m = a
        BY <1>4, <3>1, <4>3, <4>4
      <4>5. CASE m # a
        BY <1>4, <3>1, <4>1, <4>2, <4>3, <4>5
      <4>6. QED
        BY <4>4, <4>5, <4>3
    <3>3. CASE h = n
      <4>1. D[h].prev = a /\ a \in Live(D) /\ D[a].next = h /\ a # Invalid
        BY <1>1, <1>3, <1>4, <1>5, <3>0, <3>3 DEF Invalid
      <4>2. QED
        BY <3>0, <3>1, <3>2, <4>1 DEF Placed, k
    <3>4. CASE h # n
      <4>1. p # Invalid => p \in Live(D) /\ D[p].next = h
        <5> HAVE p # Invalid
        <5>1. p \in Live(C) /\ C[p].next = h /\ p \in 1..N
          BY <3>1 DEF Live
        <5>2. p # b
          BY <1>n, <3>4, <5>1
        <5>3. p # a
          BY <1>n, <2>0, <5>1
        <5>4. QED
          BY <1>4, <1>5, <5>1, <5>2, <5>3
      <4>2. D[h].prev = p
        BY <3>0, <3>4
      <4>3. QED
        BY <3>0, <3>1, <3>2, <4>1, <4>2 DEF Placed, k
    <3>5. QED
      BY <3>3, <3>4
  <2>4. QED
    BY <2>2, <2>3
<1>8. Disjoint(D)
  <2>1. ASSUME NEW g \in Live(C), NEW h \in Live(C), g # h
        PROVE  End(C[g]) <= C[h].ptr \/ End(C[h]) <= C[g].ptr
    BY <2>1 DEF Structure, Disjoint
  <2>2. ASSUME NEW g \in Live(D), g # a
        PROVE  End(C[g]) <= C[a].ptr \/ End(C[b]) <= C[g].ptr
    <3>1. g \in Live(C) /\ g # b /\ g \in 1..N /\ C[g].size > 0
      BY <1>5 DEF Live
    <3>2. End(C[g]) <= C[a].ptr \/ End(C[a]) <= C[g].ptr
      BY <2>1, <2>2, <3>1
    <3>3. End(C[g]) <= C[b].ptr \/ End(C[b]) <= C[g].ptr
      BY <1>1, <2>1, <3>1
    <3>t. \A h \in 1..N : C[h].ptr \in Nat /\ C[h].size \in Nat
      BY <1>t
    <3>e. \A h \in 1..N : End(C[h]) \in Nat
      BY <3>t DEF End
    <3>4. /\ End(C[g]) \in Nat /\ C[g].ptr \in Nat
          /\ C[a].ptr \in Nat /\ End(C[a]) \in Nat /\ End(C[b]) \in Nat
          /\ C[b].ptr = End(C[a])
      BY <1>3, <1>6, <3>1, <3>t, <3>e
    <3>7. C[g].ptr < End(C[g])
      BY <3>1, <3>t DEF End
    <3>5. \A u, v, x, y, e \in Nat :
              u < v /\ (v <= x \/ y <= u) /\ (v <= y \/ e <= u)
                 => v <= x \/ e <= u
      OBVIOUS
    <3>6. QED
      BY <3>2, <3>3, <3>4, <3>5, <3>7
  <2>3. ASSUME NEW g \in Live(D), NEW h \in Live(D), g # h
        PROVE  End(D[g]) <= D[h].ptr \/ End(D[h]) <= D[g].ptr
    <3>1. /\ g \in Live(C) /\ g # b /\ g \in 1..N
          /\ h \in Live(C) /\ h # b /\ h \in 1..N
      BY <1>5 DEF Live
    <3>2. CASE g = a
      <4>1. End(C[h]) <= C[a].ptr \/ End(C[b]) <= C[h].ptr
        BY <2>2, <2>3, <3>2
      <4>2. D[h].ptr = C[h].ptr /\ End(D[h]) = End(C[h])
        BY <1>4, <1>e, <2>3, <3>1, <3>2
      <4>3. QED
        BY <1>4, <1>6, <3>2, <4>1, <4>2
    <3>3. CASE h = a
      <4>1. End(C[g]) <= C[a].ptr \/ End(C[b]) <= C[g].ptr
        BY <2>2, <2>3, <3>3
      <4>2. D[g].ptr = C[g].ptr /\ End(D[g]) = End(C[g])
        BY <1>4, <1>e, <2>3, <3>1, <3>3
      <4>3. QED
        BY <1>4, <1>6, <3>3, <4>1, <4>2
    <3>4. CASE g # a /\ h # a
      <4>1. /\ D[g].ptr = C[g].ptr /\ End(D[g]) = End(C[g])
            /\ D[h].ptr = C[h].ptr /\ End(D[h]) = End(C[h])
        BY <1>4, <1>e, <3>1, <3>4
      <4>2. QED
        BY <2>1, <2>3, <3>1, <4>1
    <3>5. QED
      BY <3>2, <3>3, <3>4
  <2>4. QED
    BY <2>3 DEF Disjoint
<1>9. Indexed(D, Without(H, b))
  <2>1. /\ DOMAIN H = {C[h].ptr : h \in Live(C)}
        /\ \A h \in Live(C) : H[C[h].ptr] = h
    BY DEF Structure, Indexed
  <2>2. ASSUME NEW h \in Live(D)
        PROVE  h \in Live(C) /\ h # b /\ D[h].ptr = C[h].ptr
    BY <1>4, <1>5 DEF Live
  <2>3. DOMAIN Without(H, b) = {q \in DOMAIN H : H[q] # b}
    BY DEF Without
  <2>4. {q \in DOMAIN H : H[q] # b} = {D[h].ptr : h \in Live(D)}
    <3>1. ASSUME NEW q \in DOMAIN H, H[q] # b
          PROVE  q \in {D[h].ptr : h \in Live(D)}
      <4>1. PICK h \in Live(C) : q = C[h].ptr
        BY <2>1
      <4>2. h # b
        BY <2>1, <3>1, <4>1
      <4>3. h \in Live(D)
        BY <1>5, <4>1, <4>2
      <4>4. QED
        BY <2>2, <4>1, <4>3
    <3>2. ASSUME NEW h \in Live(D)
          PROVE  D[h].ptr \in {q \in DOMAIN H : H[q] # b}
      BY <2>1, <2>2
    <3>3. QED
      BY <3>1, <3>2
  <2>5. ASSUME NEW h \in Live(D) PROVE Without(H, b)[D[h].ptr] = h
    BY <2>1, <2>2, <2>3, <2>4 DEF Without
  <2>6. QED
    BY <2>3, <2>4, <2>5 DEF Indexed
<1>10. Spare(D, <<b>> \o F)
  <2>1. /\ F \in Seq(1..N) /\ Len(F) \in Nat
        /\ \A i \in 1..Len(F) : F[i] \in 1..N /\ C[F[i]].size = 0
        /\ \A i, j \in 1..Len(F) : F[i] = F[j] => i = j
    BY DEF Structure, Spare
  <2> DEFINE G == <<b>> \o F
  <2>2. /\ G \in Seq(1..N) /\ Len(G) = Len(F) + 1 /\ G[1] = b
        /\ \A i \in 1..Len(G) : i # 1 => i - 1 \in 1..Len(F) /\ G[i] = F[i - 1]
    BY <1>3, <2>1
  <2> HIDE DEF G
  <2>3. ASSUME NEW i \in 1..Len(F) PROVE F[i] # b /\ D[F[i]].size = 0
    <3>1. F[i] \in 1..N /\ C[F[i]].size = 0
      BY <2>1
    <3>2. F[i] # a /\ F[i] # b
      BY <1>3, <3>1
    <3>3. D[F[i]].size = C[F[i]].size
      BY <1>4, <3>1, <3>2
    <3>4. QED
      BY <3>1, <3>2, <3>3
  <2>4. ASSUME NEW i \in 1..Len(G) PROVE D[G[i]].size = 0
    <3>0. D[b].size = 0
      BY <1>4
    <3>1. CASE i = 1
      BY <2>2, <3>0, <3>1
    <3>2. CASE i # 1
      <4>1. i - 1 \in 1..Len(F) /\ G[i] = F[i - 1]
        BY <2>2, <3>2
      <4>2. QED
        BY <2>3, <4>1
    <3>3. QED
      BY <3>1, <3>2
  <2>5. ASSUME NEW i \in 1..Len(G), NEW j \in 1..Len(G), G[i] = G[j]
        PROVE  i = j
    <3>1. CASE i = 1 /\ j = 1
      BY <3>1
    <3>2. CASE i = 1 /\ j # 1
      BY <2>2, <2>3, <2>5, <3>2
    <3>3. CASE i # 1 /\ j = 1
      BY <2>2, <2>3, <2>5, <3>3
    <3>4. CASE i # 1 /\ j # 1
      <4>1. F[i - 1] = F[j - 1] /\ i - 1 \in 1..Len(F) /\ j - 1 \in 1..Len(F)
        BY <2>2, <2>5, <3>4
      <4>2. i - 1 = j - 1
        BY <2>1, <4>1
      <4>3. QED
        BY <4>2
    <3>5. QED
      BY <3>1, <3>2, <3>3, <3>4
  <2>6. QED
    BY <1>4, <2>2, <2>4, <2>5 DEF Spare, G
<1>11. Structure(D, <<b>> \o F, Without(H, b), R)
  BY <1>0, <1>7, <1>8, <1>9, <1>10 DEF Structure
<1>12. QED
  BY <1>11 DEF b

(* Only the flags and bins of chunks changed. *)
SameShape(C, D) ==
    /\ Len(D) = Len(C)
    /\ \A h \in 1..Len(C) : /\ D[h].ptr = C[h].ptr
                            /\ D[h].size = C[h].size
                            /\ D[h].prev = C[h].prev
                            /\ D[h].next = C[h].next

\* The structure depends on no flag and no bin, only on the shape of chunks.
LEMMA ShapeKeeps ==
    ASSUME NEW C, NEW F, NEW H, NEW R, Structure(C, F, H, R),
           NEW D, SameShape(C, D), Chunks(D)
    PROVE  Structure(D, F, H, R) /\ Live(D) = Live(C)
<1>1. /\ Len(D) = Len(C)
      /\ \A h \in 1..Len(C) : /\ D[h].ptr = C[h].ptr
                              /\ D[h].size = C[h].size
                              /\ D[h].prev = C[h].prev
                              /\ D[h].next = C[h].next
                              /\ End(D[h]) = End(C[h])
  BY DEF SameShape, End
<1>2. Live(D) = Live(C) /\ Live(C) \subseteq 1..Len(C)
  BY <1>1 DEF Live
<1>3. ASSUME NEW h \in Live(D) PROVE Placed(D, R, h)
  <2>1. Placed(C, R, h) /\ h \in 1..Len(C)
    BY <1>2 DEF Structure
  <2> DEFINE k == RegionOf(C[h].ptr)
             m == C[h].next
             p == C[h].prev
  <2>2. /\ k \in 1..Len(R) /\ R[k].ptr <= C[h].ptr
        /\ End(C[h]) <= End(R[k])
        /\ m = Invalid => End(C[h]) = End(R[k])
        /\ m # Invalid => /\ m \in Live(C)
                          /\ C[m].ptr = End(C[h])
                          /\ C[m].prev = h
                          /\ RegionOf(End(C[h])) = k
        /\ p = Invalid => C[h].ptr = R[k].ptr
        /\ p # Invalid => p \in Live(C) /\ C[p].next = h
    BY <2>1 DEF Placed
  <2>3. /\ D[h].ptr = C[h].ptr /\ D[h].next = m /\ D[h].prev = p
        /\ End(D[h]) = End(C[h]) /\ RegionOf(D[h].ptr) = k
    BY <1>1, <2>1
  <2> HIDE DEF k, m, p
  <2>4. m # Invalid => D[m].ptr = C[m].ptr /\ D[m].prev = C[m].prev
    BY <1>1, <1>2, <2>2
  <2>5. p # Invalid => D[p].next = C[p].next
    BY <1>1, <1>2, <2>2
  <2>6. QED
    BY <1>2, <2>2, <2>3, <2>4, <2>5 DEF Placed
<1>4. Disjoint(D)
  BY <1>1, <1>2 DEF Structure, Disjoint
<1>5. Indexed(D, H)
  <2>1. \A h \in Live(C) : D[h].ptr = C[h].ptr
    BY <1>1, <1>2
  <2>2. {D[h].ptr : h \in Live(D)} = {C[h].ptr : h \in Live(C)}
    BY <1>2, <2>1
  <2>3. QED
    BY <1>2, <2>1, <2>2 DEF Structure, Indexed
<1>6. Spare(D, F)
  <2>1. /\ F \in Seq(1..Len(C))
        /\ \A i \in 1..Len(F) : F[i] \in 1..Len(C) /\ C[F[i]].size = 0
        /\ \A i, j \in 1..Len(F) : F[i] = F[j] => i = j
    BY DEF Structure, Spare
  <2>2. QED
    BY <1>1, <2>1 DEF Spare
<1>7. QED
  BY <1>2, <1>3, <1>4, <1>5, <1>6 DEF Structure

(* One chunk changed, and only its flag or its bin. *)
LEMMA ChunkUpdated ==
    ASSUME NEW C, Chunks(C), NEW h \in Live(C), NEW x \in Chunk,
           x.ptr = C[h].ptr, x.size = C[h].size, x.prev = C[h].prev,
           x.next = C[h].next, NEW D, D = Updated(C, h, x)
    PROVE  /\ Chunks(D) /\ SameShape(C, D)
           /\ D[h] = x
           /\ \A g \in 1..Len(C) : g # h => D[g] = C[g]
<1>1. C \in Seq(Chunk) /\ h \in 1..Len(C) /\ C[h].size > 0
  BY DEF Chunks, Live
<1>2. /\ D \in Seq(Chunk) /\ Len(D) = Len(C) /\ D[h] = x
      /\ \A g \in 1..Len(C) : g # h => D[g] = C[g]
  BY <1>1 DEF Updated
<1>3. SameShape(C, D)
  <2>1. ASSUME NEW g \in 1..Len(C)
        PROVE  /\ D[g].ptr = C[g].ptr /\ D[g].size = C[g].size
               /\ D[g].prev = C[g].prev /\ D[g].next = C[g].next
    <3>1. CASE g = h
      BY <1>2, <3>1
    <3>2. CASE g # h
      BY <1>2, <3>2
    <3>3. QED
      BY <3>1, <3>2
  <2>2. QED
    BY <1>2, <2>1 DEF SameShape
<1>4. Chunks(D)
  <2>1. ASSUME NEW g \in 1..Len(D), D[g].size = 0 PROVE D[g] = DeletedChunk
    <3>1. g # h /\ g \in 1..Len(C)
      BY <1>1, <1>2, <2>1
    <3>2. QED
      BY <1>2, <2>1, <3>1 DEF Chunks
  <2>2. ASSUME NEW g \in Live(D) PROVE Granular(D[g].size)
    <3>1. g \in Live(C) /\ D[g].size = C[g].size
      BY <1>2, <1>3 DEF Live, SameShape
    <3>2. QED
      BY <3>1 DEF Chunks
  <2>3. QED
    BY <1>2, <2>1, <2>2 DEF Chunks
<1>5. QED
  BY <1>2, <1>3, <1>4

\* Putting a chunk into its bin leaves its shape alone.
LEMMA InBin ==
    ASSUME NEW C, Chunks(C), NEW h \in Live(C), NEW x, x = InBinOfSize(C[h])
    PROVE  /\ x \in Chunk /\ x.ptr = C[h].ptr /\ x.size = C[h].size
           /\ x.prev = C[h].prev /\ x.next = C[h].next
           /\ x.in_use = C[h].in_use /\ x.bin_num = BinNumForSize[C[h].size]
<1>1. C[h] \in Chunk /\ C[h].size > 0
  BY DEF Chunks, Live
<1>2. C[h].size \in Bytes
  BY <1>1, SizesAssumption DEF Chunk, Bytes
<1>3. BinNumForSize[C[h].size] \in Nat
  BY <1>2, Bins, SizesAssumption
<1>4. QED
  BY <1>1, <1>3 DEF InBinOfSize, Chunk

\* Taking a chunk out of its bin leaves its shape alone.
LEMMA NotInBin ==
    ASSUME NEW C, Chunks(C), NEW h \in Live(C), NEW x,
           x = OutOfBin(C[h])
    PROVE  /\ x \in Chunk /\ x.ptr = C[h].ptr /\ x.size = C[h].size
           /\ x.prev = C[h].prev /\ x.next = C[h].next
           /\ x.in_use = C[h].in_use /\ x.bin_num = NoBin
<1>1. C[h] \in Chunk
  BY DEF Chunks, Live
<1>2. NoBin \in Nat
  BY SizesAssumption DEF NoBin
<1>3. QED
  BY <1>1, <1>2 DEF Chunk, OutOfBin

\* Marking a chunk free leaves its shape alone.
LEMMA FreeMark ==
    ASSUME NEW C, Chunks(C), NEW h \in Live(C), NEW x, x = MarkedFree(C[h])
    PROVE  /\ x \in Chunk /\ x.ptr = C[h].ptr /\ x.size = C[h].size
           /\ x.prev = C[h].prev /\ x.next = C[h].next
           /\ ~x.in_use /\ x.bin_num = C[h].bin_num
<1>1. C[h] \in Chunk
  BY DEF Chunks, Live
<1>2. QED
  BY <1>1 DEF Chunk, MarkedFree

\* Marking a chunk used leaves its shape alone.
LEMMA UseMark ==
    ASSUME NEW C, Chunks(C), NEW h \in Live(C), NEW x, x = MarkedUsed(C[h])
    PROVE  /\ x \in Chunk /\ x.ptr = C[h].ptr /\ x.size = C[h].size
           /\ x.prev = C[h].prev /\ x.next = C[h].next
           /\ x.in_use /\ x.bin_num = C[h].bin_num
<1>1. C[h] \in Chunk
  BY DEF Chunks, Live
<1>2. QED
  BY <1>1 DEF Chunk, MarkedUsed

-----------------------------------------------------------------------------
(* Flags and bins. *)

BinOf(c) == IF c.in_use THEN NoBin ELSE BinNumForSize[c.size]

NextIsFree(C, g) == C[g].next # Invalid /\ ~C[C[g].next].in_use

(* No two free chunks are neighbours, and all are in the right bins, but for *)
(* chunk h: it may be in a wrong bin (Ready), and have free neighbours.      *)
BinsRight(C) ==
    \A g \in Live(C) : /\ C[g].bin_num = BinOf(C[g])
                       /\ ~C[g].in_use => ~NextIsFree(C, g)

Ready(C, h) ==
    \A g \in Live(C) : /\ g # h => C[g].bin_num = BinOf(C[g])
                       /\ ~C[g].in_use => ~NextIsFree(C, g)

Tidy(C, h) ==
    \A g \in Live(C) : g # h =>
        /\ C[g].bin_num = BinOf(C[g])
        /\ ~C[g].in_use /\ C[g].next # h => ~NextIsFree(C, g)

UsedRanges(C) ==
    {[ptr |-> C[h].ptr, size |-> C[h].size] :
        h \in {g \in Live(C) : C[g].in_use}}

\* Putting a chunk with no free neighbour into its bin makes all bins right.
LEMMA InsertReady ==
    ASSUME NEW C, NEW F, NEW H, NEW R, Structure(C, F, H, R),
           NEW h \in Live(C), ~C[h].in_use, Ready(C, h),
           NEW D, D = Updated(C, h, InBinOfSize(C[h]))
    PROVE  /\ Structure(D, F, H, R)
           /\ BinsRight(D)
           /\ UsedRanges(D) = UsedRanges(C)
           /\ Live(D) = Live(C)
           /\ SameShape(C, D)
           /\ ~D[h].in_use
<1>0. Chunks(C)
  BY DEF Structure
<1>1. PICK x : x = InBinOfSize(C[h])
  OBVIOUS
<1>2. /\ x \in Chunk /\ x.ptr = C[h].ptr /\ x.size = C[h].size
      /\ x.prev = C[h].prev /\ x.next = C[h].next
      /\ x.in_use = C[h].in_use /\ x.bin_num = BinNumForSize[C[h].size]
  BY <1>0, <1>1, InBin
<1>3. D = Updated(C, h, x)
  BY <1>1
<1>4. /\ Chunks(D) /\ SameShape(C, D) /\ D[h] = x
      /\ \A g \in 1..Len(C) : g # h => D[g] = C[g]
  BY <1>0, <1>2, <1>3, ChunkUpdated
<1>5. Structure(D, F, H, R) /\ Live(D) = Live(C)
  BY <1>4, ShapeKeeps
<1>6. Live(C) \subseteq 1..Len(C)
  BY DEF Live
<1>h. C[h].in_use \in BOOLEAN
  BY <1>0, <1>6, ChunkFields
<1>7. \A g \in Live(C) : /\ D[g].in_use = C[g].in_use
                         /\ D[g].ptr = C[g].ptr /\ D[g].size = C[g].size
                         /\ D[g].next = C[g].next
  <2> TAKE g \in Live(C)
  <2>1. CASE g = h
    BY <1>2, <1>4, <2>1
  <2>2. CASE g # h
    BY <1>4, <1>6, <2>2
  <2>3. QED
    BY <2>1, <2>2
<1>8. UsedRanges(D) = UsedRanges(C)
  BY <1>5, <1>7 DEF UsedRanges
<1>9. ASSUME NEW g \in Live(D)
      PROVE  /\ D[g].bin_num = BinOf(D[g])
             /\ ~D[g].in_use => ~NextIsFree(D, g)
  <2>1. g \in Live(C) /\ D[g].in_use = C[g].in_use /\ D[g].next = C[g].next
    BY <1>5, <1>7
  <2>2. D[g].bin_num = BinOf(D[g])
    <3>1. CASE g = h
      BY <1>2, <1>4, <3>1 DEF BinOf
    <3>2. CASE g # h
      <4>1. D[g] = C[g]
        BY <1>4, <1>6, <2>1, <3>2
      <4>2. QED
        BY <2>1, <3>2, <4>1 DEF Ready
    <3>3. QED
      BY <3>1, <3>2
  <2>3. ASSUME ~D[g].in_use, D[g].next # Invalid PROVE D[D[g].next].in_use
    <3> DEFINE m == C[g].next
    <3>1. ~NextIsFree(C, g)
      BY <2>1, <2>3 DEF Ready
    <3>2. m \in Live(C)
      <4>1. Placed(C, R, g)
        BY <2>1 DEF Structure
      <4>2. QED
        BY <2>1, <2>3, <4>1 DEF Placed
    <3>3. C[m].in_use
      BY <2>1, <2>3, <3>1 DEF NextIsFree
    <3>4. QED
      BY <1>7, <2>1, <3>2, <3>3
  <2>4. QED
    BY <2>2, <2>3 DEF NextIsFree
<1>10. QED
  BY <1>2, <1>4, <1>5, <1>8, <1>9, <1>h DEF BinsRight

(* What a merge does to the allocator, whichever of the two free chunks was  *)
(* taken out of its bin before.                                              *)
LEMMA MergeStep ==
    ASSUME NEW C, NEW F, NEW H, NEW R, NEW c, NEW n, NEW b,
           Structure(C, F, H, R), NEW g \in Live(C),
           NEW h, C[g].next = h, h # Invalid, NEW x, x = g \/ x = h
    PROVE  /\ Merge(RemoveFreeChunkFromBin(Bfc(C, F, H, R, c, n, b), x), g, h)
                = Bfc(MergedOut(C, x, g, h), <<h>> \o F, Without(H, h),
                      R, c, n, b)
           /\ Merges(C, MergedOut(C, x, g, h), g, h)
           /\ Structure(MergedOut(C, x, g, h), <<h>> \o F, Without(H, h), R)
<1>0. Chunks(C) /\ h \in Live(C) /\ x \in Live(C) /\ h # g
  BY Neighbours DEF Structure
<1>1. PICK y : y = OutOfBin(C[x])
  OBVIOUS
<1>2. /\ y \in Chunk /\ y.ptr = C[x].ptr /\ y.size = C[x].size
      /\ y.prev = C[x].prev /\ y.next = C[x].next
      /\ y.in_use = C[x].in_use
  BY <1>0, <1>1, NotInBin
<1>3. PICK E : E = Updated(C, x, y)
  OBVIOUS
<1>4. /\ Chunks(E) /\ SameShape(C, E) /\ E[x] = y
      /\ \A i \in 1..Len(C) : i # x => E[i] = C[i]
  BY <1>0, <1>2, <1>3, ChunkUpdated
<1>5. Structure(E, F, H, R) /\ Live(E) = Live(C)
  BY <1>4, ShapeKeeps
<1>6. Live(C) \subseteq 1..Len(C)
  BY DEF Live
<1>7. /\ Len(E) = Len(C)
      /\ \A i \in 1..Len(C) : /\ E[i].ptr = C[i].ptr
                              /\ E[i].size = C[i].size
                              /\ E[i].prev = C[i].prev
                              /\ E[i].next = C[i].next
                              /\ E[i].in_use = C[i].in_use
                              /\ i # g /\ i # h => E[i].bin_num = C[i].bin_num
  <2>1. ASSUME NEW i \in 1..Len(C)
        PROVE  /\ E[i].in_use = C[i].in_use
               /\ i # g /\ i # h => E[i].bin_num = C[i].bin_num
    <3>1. CASE i = x
      BY <1>2, <1>4, <3>1
    <3>2. CASE i # x
      BY <1>4, <3>2
    <3>3. QED
      BY <3>1, <3>2
  <2>2. QED
    BY <1>4, <2>1 DEF SameShape
<1>8. E[g].next = h /\ g \in Live(E)
  BY <1>5, <1>6, <1>7
<1>9. PICK D : D = MergedAway(E, g, h)
  OBVIOUS
<1>10. Merges(E, D, g, h) /\ Chunks(D)
  <2>1. /\ h \in Live(E) /\ h # g /\ E[h].next # g
        /\ E[h].next # Invalid => E[h].next \in Live(E)
        /\ E[g].size + E[h].size <= MaxAllocationSize
    BY <1>5, <1>8, Neighbours
  <2>2. QED
    BY <1>4, <1>8, <1>9, <2>1, MergedFields
<1>11. Structure(D, <<h>> \o F, Without(H, h), R)
  BY <1>5, <1>8, <1>10, MergeKeeps
<1>h. g \in 1..Len(C) /\ h \in 1..Len(C)
  BY <1>0, <1>6
<1>12. Merges(C, D, g, h)
  BY <1>7, <1>10, <1>h DEF Merges
<1>13. Merge(RemoveFreeChunkFromBin(Bfc(C, F, H, R, c, n, b), x), g, h)
         = Bfc(D, <<h>> \o F, Without(H, h), R, c, n, b)
  <2>1. RemoveFreeChunkFromBin(Bfc(C, F, H, R, c, n, b), x)
          = Bfc(E, F, H, R, c, n, b)
    BY <1>1, <1>3, ChunkRemoved
  <2>2. QED
    BY <1>9, <2>1, ChunksMerged
<1>14. QED
  BY <1>1, <1>3, <1>9, <1>11, <1>12, <1>13 DEF MergedOut

(* Two free chunks were merged: which chunks are in use stays the same. *)
LEMMA MergeFlags ==
    ASSUME NEW C, NEW F, NEW H, NEW R, Structure(C, F, H, R),
           NEW g \in Live(C), NEW h, C[g].next = h, h # Invalid,
           ~C[g].in_use, ~C[h].in_use, NEW D, Merges(C, D, g, h)
    PROVE  /\ Live(D) = Live(C) \ {h}
           /\ UsedRanges(D) = UsedRanges(C)
           /\ g \in Live(D) /\ ~D[g].in_use
           /\ Tidy(C, g) => Tidy(D, g) /\ ~NextIsFree(D, g)
           /\ Tidy(C, h) /\ ~NextIsFree(C, h) => Ready(D, g)
<1> DEFINE m == C[h].next
           N == Len(C)
<1>0. Chunks(C)
  BY DEF Structure
<1>1. /\ h \in Live(C) /\ h # g /\ m # g /\ m # h
      /\ m # Invalid => m \in Live(C)
  BY Neighbours
<1>2. h \in 1..N /\ g \in 1..N /\ Live(C) \subseteq 1..N /\ C[g].size > 0
  BY <1>1 DEF Live
<1>3. /\ C[g].size \in Nat /\ C[h].size \in Nat
  BY <1>0, <1>2, ChunkFields
<1>n. C[g].next = h /\ C[h].next = m
  OBVIOUS
<1>4. Merges(C, D, g, h) /\ ~C[g].in_use /\ ~C[h].in_use
  OBVIOUS
<1>p. C[h].prev = g
  <2>1. Placed(C, R, g)
    BY DEF Structure
  <2>2. QED
    BY <2>1 DEF Placed
<1>i. h # Invalid
  OBVIOUS
<1> HIDE DEF m
<1>5. /\ Len(D) = N /\ D[h].size = 0 /\ ~D[h].in_use
      /\ D[g].size = C[g].size + C[h].size
      /\ ~D[g].in_use /\ D[g].next = m
      /\ \A i \in 1..N : i # g /\ i # h =>
            /\ D[i].ptr = C[i].ptr
            /\ D[i].size = C[i].size
            /\ D[i].in_use <=> C[i].in_use
            /\ D[i].next = C[i].next
            /\ D[i].bin_num = C[i].bin_num
  BY <1>4, <1>n DEF Merges, DeletedChunk
<1>6. Live(D) = Live(C) \ {h}
  <2>1. ASSUME NEW i \in 1..N PROVE i \in Live(D) <=> i \in Live(C) \ {h}
    <3>1. CASE i = g
      BY <1>1, <1>2, <1>3, <1>5, <3>1 DEF Live
    <3>2. CASE i = h
      BY <1>5, <3>2 DEF Live
    <3>3. CASE i # g /\ i # h
      BY <1>5, <3>3 DEF Live
    <3>4. QED
      BY <3>1, <3>2, <3>3
  <2>2. Live(D) \subseteq 1..N
    BY <1>5 DEF Live
  <2>3. QED
    BY <1>2, <2>1, <2>2
<1>7. UsedRanges(D) = UsedRanges(C)
  <2> DEFINE U == {i \in Live(C) : C[i].in_use}
             V == {i \in Live(D) : D[i].in_use}
  <2>1. U = V
    BY <1>2, <1>4, <1>5, <1>6
  <2>2. \A i \in U : D[i].ptr = C[i].ptr /\ D[i].size = C[i].size
    BY <1>2, <1>4, <1>5
  <2>3. UsedRanges(C) = {[ptr |-> C[i].ptr, size |-> C[i].size] : i \in U}
    BY DEF UsedRanges
  <2>4. UsedRanges(D) = {[ptr |-> D[i].ptr, size |-> D[i].size] : i \in V}
    BY DEF UsedRanges
  <2> HIDE DEF U, V
  <2>5. QED
    BY <2>1, <2>2, <2>3, <2>4
<1>8. ASSUME NEW i \in Live(D), i # g
      PROVE  /\ i \in Live(C) /\ i # h
             /\ C[i].bin_num = BinOf(C[i]) => D[i].bin_num = BinOf(D[i])
             /\ D[i].in_use <=> C[i].in_use
             /\ ~NextIsFree(C, i) => ~NextIsFree(D, i)
  <2>1. i \in Live(C) /\ i # h /\ i \in 1..N
    BY <1>2, <1>6
  <2>2. /\ D[i].in_use <=> C[i].in_use
        /\ D[i].bin_num = C[i].bin_num /\ D[i].size = C[i].size
        /\ D[i].next = C[i].next
    BY <1>5, <1>8, <2>1
  <2>3. C[i].bin_num = BinOf(C[i]) => D[i].bin_num = BinOf(D[i])
    BY <2>2 DEF BinOf
  <2>4. ASSUME ~NextIsFree(C, i) PROVE ~NextIsFree(D, i)
    <3> SUFFICES ASSUME C[i].next # Invalid PROVE D[C[i].next].in_use
      BY <2>2 DEF NextIsFree
    <3>1. C[C[i].next].in_use
      BY <2>4 DEF NextIsFree
    <3>2. C[i].next \in Live(C)
      <4>1. Placed(C, R, i)
        BY <2>1 DEF Structure
      <4>2. QED
        BY <4>1 DEF Placed
    <3>3. C[i].next # g /\ C[i].next # h
      BY <1>4, <3>1
    <3>4. QED
      BY <1>2, <1>5, <3>1, <3>2, <3>3
  <2>5. QED
    BY <2>1, <2>2, <2>3, <2>4
<1>9. ~NextIsFree(C, h) => ~NextIsFree(D, g)
  BY <1>1, <1>2, <1>5, <1>n DEF NextIsFree
<1>10. ASSUME Tidy(C, g) PROVE Tidy(D, g) /\ ~NextIsFree(D, g)
  <2>1. ~NextIsFree(C, h)
    BY <1>1, <1>4, <1>10, <1>n DEF Tidy
  <2>2. ASSUME NEW i \in Live(D), i # g
        PROVE  /\ D[i].bin_num = BinOf(D[i])
               /\ ~D[i].in_use /\ D[i].next # g => ~NextIsFree(D, i)
    <3>1. D[i].next = C[i].next
      BY <1>2, <1>5, <1>8, <2>2
    <3>2. QED
      BY <1>8, <1>10, <2>2, <3>1 DEF Tidy
  <2>3. QED
    BY <1>9, <2>1, <2>2 DEF Tidy
<1>11. ASSUME Tidy(C, h), ~NextIsFree(C, h) PROVE Ready(D, g)
  <2>1. ASSUME NEW i \in Live(D), i # g
        PROVE  /\ D[i].bin_num = BinOf(D[i])
               /\ ~D[i].in_use => ~NextIsFree(D, i)
    <3>1. C[i].next # h
      <4>1. Placed(C, R, i)
        BY <1>8, <2>1 DEF Structure
      <4>2. QED
        BY <1>p, <1>i, <2>1, <4>1 DEF Placed
    <3>2. QED
      BY <1>8, <1>11, <2>1, <3>1 DEF Tidy
  <2>2. QED
    BY <1>9, <1>11, <2>1 DEF Ready
<1>12. g \in Live(D)
  BY <1>1, <1>6
<1>13. QED
  BY <1>5, <1>6, <1>7, <1>10, <1>11, <1>12

(* A chunk that has just become free: its free neighbours are merged with    *)
(* it, and the result goes to the right bin.                                 *)
LEMMA Coalescing ==
    ASSUME NEW C, NEW F, NEW H, NEW R, NEW c, NEW n, NEW b,
           Structure(C, F, H, R), NEW h \in Live(C), ~C[h].in_use, Tidy(C, h)
    PROVE  \E D, G, I :
             /\ CoalesceAndInsert(Bfc(C, F, H, R, c, n, b), h)
                  = Bfc(D, G, I, R, c, n, b)
             /\ Structure(D, G, I, R)
             /\ BinsRight(D)
             /\ UsedRanges(D) = UsedRanges(C)
<1> DEFINE s == Bfc(C, F, H, R, c, n, b)
           next == C[h].next
           prev == C[h].prev
           s1 == IF IsFree(s, next)
                 THEN Merge(RemoveFreeChunkFromBin(s, next), h, next) ELSE s
           s2 == Merge(RemoveFreeChunkFromBin(s1, prev), prev, h)
<1>0. s.chunks = C
  BY Fields
<1>1. CoalesceAndInsert(s, h) = IF IsFree(s, prev)
                                THEN InsertFreeChunkIntoBin(s2, prev)
                                ELSE InsertFreeChunkIntoBin(s1, h)
  <2> HIDE DEF s
  <2>1. QED
    BY <1>0 DEF CoalesceAndInsert
<1>2. Placed(C, R, h)
  BY DEF Structure
<1>3. /\ prev # Invalid => prev \in Live(C) /\ C[prev].next = h /\ prev # h
      /\ h # Invalid /\ Live(C) \subseteq 1..Len(C)
  <2>1. prev # Invalid => prev \in Live(C) /\ C[prev].next = h
    BY <1>2 DEF Placed
  <2>2. h # Invalid /\ Live(C) \subseteq 1..Len(C)
    BY DEF Live, Invalid
  <2>3. prev # Invalid => prev # h
    BY <2>1, <2>2, Neighbours
  <2>4. QED
    BY <2>1, <2>2, <2>3
<1>4. \E C1, F1, H1 : /\ s1 = Bfc(C1, F1, H1, R, c, n, b)
                      /\ Structure(C1, F1, H1, R)
                      /\ h \in Live(C1) /\ ~C1[h].in_use
                      /\ C1[h].prev = prev
                      /\ UsedRanges(C1) = UsedRanges(C)
                      /\ Tidy(C1, h) /\ ~NextIsFree(C1, h)
                      /\ prev # Invalid =>
                            (C1[prev].in_use <=> C[prev].in_use)
  <2>1. CASE IsFree(s, next)
    <3>0. next # Invalid /\ ~C[next].in_use
      BY <1>0, <2>1 DEF IsFree
    <3>1. PICK C1 : /\ Merge(RemoveFreeChunkFromBin(s, next), h, next)
                         = Bfc(C1, <<next>> \o F, Without(H, next), R, c, n, b)
                    /\ Merges(C, C1, h, next)
                    /\ Structure(C1, <<next>> \o F, Without(H, next), R)
      <4>1. C[h].next = next
        OBVIOUS
      <4>2. PICK C1 : C1 = MergedOut(C, next, h, next)
        OBVIOUS
      <4> HIDE DEF next
      <4>3. /\ Merge(RemoveFreeChunkFromBin(s, next), h, next)
                 = Bfc(C1, <<next>> \o F, Without(H, next), R, c, n, b)
            /\ Merges(C, C1, h, next)
            /\ Structure(C1, <<next>> \o F, Without(H, next), R)
        BY <3>0, <4>1, <4>2, MergeStep
      <4>4. QED
        BY <4>3
    <3>2. /\ UsedRanges(C1) = UsedRanges(C)
          /\ h \in Live(C1) /\ ~C1[h].in_use
          /\ Tidy(C1, h) /\ ~NextIsFree(C1, h)
      BY <3>0, <3>1, MergeFlags
    <3>3. C1[h].prev = prev
      BY <3>1 DEF Merges
    <3>4. prev # Invalid => (C1[prev].in_use <=> C[prev].in_use)
      <4> HAVE prev # Invalid
      <4>1. C[next].next # h
        BY <3>0, Neighbours
      <4>2. prev \in 1..Len(C) /\ prev # h /\ prev # next
        BY <1>3, <4>1
      <4> HIDE DEF prev, next
      <4>3. QED
        BY <3>1, <4>2 DEF Merges
    <3>5. s1 = Bfc(C1, <<next>> \o F, Without(H, next), R, c, n, b)
      BY <2>1, <3>1
    <3>6. QED
      BY <3>1, <3>2, <3>3, <3>4, <3>5
  <2>2. CASE ~IsFree(s, next)
    <3>1. ~NextIsFree(C, h)
      BY <1>0, <2>2 DEF IsFree, NextIsFree
    <3>2. s1 = Bfc(C, F, H, R, c, n, b)
      BY <2>2
    <3> HIDE DEF s1
    <3>3. QED
      BY <3>1, <3>2
  <2>3. QED
    BY <2>1, <2>2
<1> HIDE DEF s1
<1>5. PICK C1, F1, H1 : /\ s1 = Bfc(C1, F1, H1, R, c, n, b)
                        /\ Structure(C1, F1, H1, R)
                        /\ h \in Live(C1) /\ ~C1[h].in_use
                        /\ C1[h].prev = prev
                        /\ UsedRanges(C1) = UsedRanges(C)
                        /\ Tidy(C1, h) /\ ~NextIsFree(C1, h)
                        /\ prev # Invalid =>
                              (C1[prev].in_use <=> C[prev].in_use)
  BY <1>4
<1>6. Placed(C1, R, h)
  BY <1>5 DEF Structure
<1>7. prev # Invalid => prev \in Live(C1) /\ C1[prev].next = h
  BY <1>5, <1>6 DEF Placed
<1>8. CASE IsFree(s, prev)
  <2>1. prev # Invalid /\ ~C1[prev].in_use
    BY <1>0, <1>5, <1>8 DEF IsFree
  <2>2. prev \in Live(C1) /\ C1[prev].next = h
    BY <1>7, <2>1
  <2> HIDE DEF prev
  <2>3. PICK C2, F2, H2 : /\ s2 = Bfc(C2, F2, H2, R, c, n, b)
                          /\ Merges(C1, C2, prev, h)
                          /\ Structure(C2, F2, H2, R)
    <3>1. PICK D : D = MergedOut(C1, prev, prev, h)
      OBVIOUS
    <3>2. /\ Merge(RemoveFreeChunkFromBin(Bfc(C1, F1, H1, R, c, n, b), prev),
                   prev, h)
               = Bfc(D, <<h>> \o F1, Without(H1, h), R, c, n, b)
          /\ Merges(C1, D, prev, h)
          /\ Structure(D, <<h>> \o F1, Without(H1, h), R)
      BY <1>3, <1>5, <2>2, <3>1, MergeStep
    <3>3. QED
      BY <1>5, <3>2
  <2>4. /\ UsedRanges(C2) = UsedRanges(C1)
        /\ prev \in Live(C2) /\ ~C2[prev].in_use
        /\ Ready(C2, prev)
    BY <1>3, <1>5, <2>1, <2>2, <2>3, MergeFlags
  <2>5. PICK D : D = Updated(C2, prev, InBinOfSize(C2[prev]))
    OBVIOUS
  <2>6. /\ Structure(D, F2, H2, R) /\ BinsRight(D)
        /\ UsedRanges(D) = UsedRanges(C2)
    BY <2>3, <2>4, <2>5, InsertReady
  <2>7. CoalesceAndInsert(s, h) = Bfc(D, F2, H2, R, c, n, b)
    <3> HIDE DEF s, s2
    <3>1. QED
      BY <1>1, <1>8, <2>3, <2>5, ChunkInserted DEF prev
  <2>8. QED
    BY <1>5, <2>4, <2>6, <2>7
<1>9. CASE ~IsFree(s, prev)
  <2>1. prev # Invalid => C1[prev].in_use
    BY <1>0, <1>5, <1>9 DEF IsFree
  <2>2. Ready(C1, h)
    <3>1. ASSUME NEW g \in Live(C1), ~C1[g].in_use PROVE ~NextIsFree(C1, g)
      <4>1. CASE g = h
        BY <1>5, <4>1
      <4>2. CASE g # h
        <5>1. C1[g].next # h
          <6> SUFFICES ASSUME C1[g].next = h PROVE FALSE
            OBVIOUS
          <6>1. Placed(C1, R, g)
            BY <1>5 DEF Structure
          <6>2. C1[h].prev = g
            BY <1>3, <6>1 DEF Placed
          <6>3. g # Invalid
            BY DEF Live, Invalid
          <6>4. QED
            BY <1>5, <2>1, <3>1, <6>2, <6>3
        <5>2. QED
          BY <1>5, <3>1, <4>2, <5>1 DEF Tidy
      <4>3. QED
        BY <4>1, <4>2
    <3>2. QED
      BY <1>5, <3>1 DEF Ready, Tidy
  <2>3. PICK D : D = Updated(C1, h, InBinOfSize(C1[h]))
    OBVIOUS
  <2>4. /\ Structure(D, F1, H1, R) /\ BinsRight(D)
        /\ UsedRanges(D) = UsedRanges(C1)
    BY <1>5, <2>2, <2>3, InsertReady
  <2>5. CoalesceAndInsert(s, h) = Bfc(D, F1, H1, R, c, n, b)
    <3> HIDE DEF s, s2
    <3>1. QED
      BY <1>1, <1>5, <1>9, <2>3, ChunkInserted
  <2>6. QED
    BY <1>5, <2>4, <2>5
<1>10. QED
  BY <1>8, <1>9

(* DeallocateRawInternal: the range of one handle is no longer in use. *)
LEMMA Freeing ==
    ASSUME NEW C, NEW F, NEW H, NEW R, NEW c, NEW n, NEW b,
           Structure(C, F, H, R), BinsRight(C),
           NEW h \in Live(C), C[h].in_use
    PROVE  \E D, G, I :
             /\ FreeChunk(Bfc(C, F, H, R, c, n, b), C[h].ptr)
                  = Bfc(D, G, I, R, c, n, b)
             /\ Structure(D, G, I, R)
             /\ BinsRight(D)
             /\ UsedRanges(D) = {r \in UsedRanges(C) : r.ptr # C[h].ptr}
<1> DEFINE s == Bfc(C, F, H, R, c, n, b)
           p == C[h].ptr
<1>0. Chunks(C) /\ H[p] = h /\ s.chunks = C /\ s.handles = H
  BY Fields DEF Structure, Indexed
<1>1. PICK x : x = MarkedFree(C[h])
  OBVIOUS
<1>2. /\ x \in Chunk /\ x.ptr = C[h].ptr /\ x.size = C[h].size
      /\ x.prev = C[h].prev /\ x.next = C[h].next
      /\ ~x.in_use /\ x.bin_num = C[h].bin_num
  BY <1>0, <1>1, FreeMark
<1>3. PICK E : E = Updated(C, h, x)
  OBVIOUS
<1>4. /\ Chunks(E) /\ SameShape(C, E) /\ E[h] = x
      /\ \A g \in 1..Len(C) : g # h => E[g] = C[g]
  BY <1>0, <1>2, <1>3, ChunkUpdated
<1>5. Structure(E, F, H, R) /\ Live(E) = Live(C)
  BY <1>4, ShapeKeeps
<1>6. Live(C) \subseteq 1..Len(C)
  BY DEF Live
<1>7. Tidy(E, h)
  <2>1. ASSUME NEW g \in Live(E), g # h
        PROVE  /\ E[g].bin_num = BinOf(E[g])
               /\ ~E[g].in_use /\ E[g].next # h => ~NextIsFree(E, g)
    <3>1. E[g] = C[g] /\ g \in Live(C)
      BY <1>4, <1>5, <1>6, <2>1
    <3>2. /\ C[g].bin_num = BinOf(C[g])
          /\ ~C[g].in_use => ~NextIsFree(C, g)
      BY <3>1 DEF BinsRight
    <3>3. ASSUME ~C[g].in_use, C[g].next # h PROVE ~NextIsFree(E, g)
      <4> SUFFICES ASSUME C[g].next # Invalid PROVE E[C[g].next].in_use
        BY <3>1 DEF NextIsFree
      <4>1. C[C[g].next].in_use
        BY <3>2, <3>3 DEF NextIsFree
      <4>2. C[g].next \in Live(C)
        <5>1. Placed(C, R, g)
          BY <3>1 DEF Structure
        <5>2. QED
          BY <5>1 DEF Placed
      <4>3. QED
        BY <1>4, <1>6, <3>3, <4>1, <4>2
    <3>4. QED
      BY <3>1, <3>2, <3>3
  <2>2. QED
    BY <2>1 DEF Tidy
<1>8. UsedRanges(E) = {r \in UsedRanges(C) : r.ptr # p}
  <2> DEFINE U == {i \in Live(C) : C[i].in_use}
             V == {i \in Live(E) : E[i].in_use}
  <2>1. V = U \ {h}
    BY <1>2, <1>4, <1>5, <1>6
  <2>2. ASSUME NEW i \in U PROVE C[i].ptr # p <=> i # h
    BY DEF Structure, Indexed
  <2>3. \A i \in V : E[i] = C[i]
    BY <1>4, <1>6, <2>1
  <2>4. UsedRanges(C) = {[ptr |-> C[i].ptr, size |-> C[i].size] : i \in U}
    BY DEF UsedRanges
  <2>5. UsedRanges(E) = {[ptr |-> E[i].ptr, size |-> E[i].size] : i \in V}
    BY DEF UsedRanges
  <2> HIDE DEF U, V, p
  <2>6. QED
    BY <2>1, <2>2, <2>3, <2>4, <2>5
<1>9. FreeChunk(s, p) = CoalesceAndInsert(Bfc(E, F, H, R, c, n, b), h)
  <2>1. MarkFree(s, h) = Bfc(E, F, H, R, c, n, b)
    BY <1>1, <1>3, ChunkMarked
  <2> HIDE DEF s, p
  <2>2. QED
    BY <1>0, <2>1 DEF FreeChunk, MarkFree
<1>10. \E D, G, I :
          /\ CoalesceAndInsert(Bfc(E, F, H, R, c, n, b), h)
               = Bfc(D, G, I, R, c, n, b)
          /\ Structure(D, G, I, R) /\ BinsRight(D)
          /\ UsedRanges(D) = UsedRanges(E)
  <2>1. h \in Live(E) /\ ~E[h].in_use
    BY <1>2, <1>4, <1>5
  <2>2. QED
    BY <1>5, <1>7, <2>1, Coalescing
<1>11. QED
  BY <1>8, <1>9, <1>10

-----------------------------------------------------------------------------
(* New chunks. *)

(* An address belongs to the region that it is within. *)
LEMMA RegionOfWithin ==
    ASSUME NEW k \in Nat, NEW p \in Nat,
           k * RegionStride <= p, p < k * RegionStride + RegionStride
    PROVE  RegionOf(p) = k
<1> DEFINE S == RegionStride
           q == p \div S
<1>1. S \in Nat \ {0}
  BY SizesAssumption
<1>a. k * S <= p /\ p < k * S + S
  OBVIOUS
<1> HIDE DEF S
<1>2. /\ q \in Nat /\ S * q <= p /\ p < S * q + S
      /\ S * q \in Nat /\ S * k \in Nat /\ S * k = k * S
  BY <1>1
<1> HIDE DEF q
<1>3. ~(q >= k + 1)
  <2> SUFFICES ASSUME q >= k + 1 PROVE FALSE
    OBVIOUS
  <2>1. S * q >= S * (k + 1) /\ S * (k + 1) = S * k + S
    BY <1>1, <1>2
  <2>2. QED
    BY <1>1, <1>2, <1>a, <2>1
<1>4. ~(k >= q + 1)
  <2> SUFFICES ASSUME k >= q + 1 PROVE FALSE
    OBVIOUS
  <2>1. S * k >= S * (q + 1) /\ S * (q + 1) = S * q + S
    BY <1>1, <1>2
  <2>2. QED
    BY <1>1, <1>2, <1>a, <2>1
<1>5. QED
  BY <1>2, <1>3, <1>4 DEF RegionOf, q, S

(* Chunk x became part of the chunks, at handle m. *)
Adds(C, D, m, x) ==
    /\ D \in Seq(Chunk)
    /\ 1..Len(D) = 1..Len(C) \cup {m}
    /\ m \in Nat \ {0} /\ m \notin Live(C)
    /\ D[m] = x
    /\ \A g \in 1..Len(C) : g # m => D[g] = C[g]

SpareBut(C, D, G, m) ==
    /\ G \in Seq(1..Len(D))
    /\ \A i \in 1..Len(G) : /\ G[i] \in 1..Len(C) /\ G[i] # m
                            /\ C[G[i]].size = 0
    /\ \A i, j \in 1..Len(G) : G[i] = G[j] => i = j

\* AllocateChunk adds one chunk and takes its handle off the free list.
LEMMA NewChunk ==
    ASSUME NEW C, NEW F, C \in Seq(Chunk), Spare(C, F), NEW x, x \in Chunk
    PROVE  /\ Adds(C, WithNew(C, F, x), HandleOf(C, F), x)
           /\ SpareBut(C, WithNew(C, F, x), LessFree(F), HandleOf(C, F))
<1> DEFINE D == WithNew(C, F, x)
           m == HandleOf(C, F)
<1>0. D = WithNew(C, F, x) /\ m = HandleOf(C, F)
  OBVIOUS
<1> HIDE DEF D, m
<1>1. /\ F \in Seq(1..Len(C)) /\ Len(C) \in Nat /\ Len(F) \in Nat
      /\ \A i \in 1..Len(F) : F[i] \in 1..Len(C) /\ C[F[i]].size = 0
      /\ \A i, j \in 1..Len(F) : F[i] = F[j] => i = j
  <2>1. Len(C) \in Nat
    OBVIOUS
  <2>2. F \in Seq(1..Len(C))
    BY DEF Spare
  <2>3. \A i \in 1..Len(F) : F[i] \in 1..Len(C)
    BY <2>2
  <2>4. QED
    BY <2>1, <2>2, <2>3 DEF Spare
<1>2. CASE F # << >>
  <2>1. /\ m = F[1] /\ 1 \in 1..Len(F) /\ m \in 1..Len(C)
    BY <1>0, <1>1, <1>2 DEF HandleOf
  <2>2. D = Updated(C, m, x)
    BY <1>0, <1>2 DEF WithNew
  <2>3. /\ D \in Seq(Chunk) /\ Len(D) = Len(C) /\ D[m] = x
        /\ \A g \in 1..Len(C) : g # m => D[g] = C[g]
    BY <2>1, <2>2 DEF Updated
  <2>4. m \in Nat \ {0} /\ m \notin Live(C)
    BY <1>1, <2>1 DEF Live
  <2> DEFINE G == Tail(F)
  <2>5. /\ G \in Seq(1..Len(C)) /\ Len(G) = Len(F) - 1
        /\ \A i \in 1..Len(G) : i + 1 \in 1..Len(F) /\ G[i] = F[i + 1]
    BY <1>1, <1>2
  <2>6. LessFree(F) = G
    BY <1>2 DEF LessFree
  <2> HIDE DEF G
  <2>7. ASSUME NEW i \in 1..Len(G)
        PROVE  G[i] \in 1..Len(C) /\ G[i] # m /\ C[G[i]].size = 0
    <3>1. i + 1 \in 1..Len(F) /\ G[i] = F[i + 1] /\ i + 1 # 1
      BY <2>5
    <3>2. QED
      BY <1>1, <2>1, <3>1
  <2>8. ASSUME NEW i \in 1..Len(G), NEW j \in 1..Len(G), G[i] = G[j]
        PROVE  i = j
    <3>1. i + 1 \in 1..Len(F) /\ j + 1 \in 1..Len(F) /\ F[i + 1] = F[j + 1]
      BY <2>5, <2>8
    <3>2. i + 1 = j + 1
      BY <1>1, <3>1
    <3>3. QED
      BY <3>2
  <2>9. 1..Len(D) = 1..Len(C) \cup {m}
    BY <2>1, <2>3
  <2>10. QED
    BY <1>0, <2>3, <2>4, <2>5, <2>6, <2>7, <2>8, <2>9 DEF Adds, SpareBut
<1>3. CASE F = << >>
  <2>1. m = Len(C) + 1 /\ D = Append(C, x) /\ LessFree(F) = << >>
    BY <1>0, <1>3 DEF HandleOf, WithNew, LessFree
  <2>2. /\ D \in Seq(Chunk) /\ Len(D) = Len(C) + 1 /\ D[m] = x
        /\ \A g \in 1..Len(C) : g # m => D[g] = C[g]
    BY <1>1, <2>1
  <2>3. m \in Nat \ {0} /\ m \notin Live(C) /\ 1..Len(D) = 1..Len(C) \cup {m}
    BY <1>1, <2>1, <2>2 DEF Live
  <2>4. QED
    BY <1>0, <2>1, <2>2, <2>3 DEF Adds, SpareBut
<1>4. QED
  BY <1>2, <1>3

\* Setting the handle of a new chunk keeps the index of handles right.
LEMMA NewIndex ==
    ASSUME NEW C, NEW H, Indexed(C, H), NEW D, NEW m, NEW p,
           m \notin Live(C), Live(D) = Live(C) \cup {m}, D[m].ptr = p,
           \A g \in Live(C) : D[g].ptr = C[g].ptr,
           \A g \in Live(C) : C[g].ptr # p
    PROVE  Indexed(D, WithHandle(H, p, m))
<1>1. /\ DOMAIN H = {C[h].ptr : h \in Live(C)}
      /\ \A h \in Live(C) : H[C[h].ptr] = h
  BY DEF Indexed
<1>2. DOMAIN WithHandle(H, p, m) = {D[h].ptr : h \in Live(D)}
  <2>1. DOMAIN WithHandle(H, p, m) = DOMAIN H \cup {p}
    BY DEF WithHandle
  <2>2. QED
    BY <1>1, <2>1
<1>3. ASSUME NEW h \in Live(D) PROVE WithHandle(H, p, m)[D[h].ptr] = h
  <2>1. CASE h = m
    BY <2>1 DEF WithHandle
  <2>2. CASE h # m
    <3>1. h \in Live(C) /\ D[h].ptr = C[h].ptr /\ C[h].ptr # p
      BY <2>2
    <3>2. C[h].ptr \in DOMAIN H
      BY <1>1, <3>1
    <3>3. QED
      BY <1>1, <3>1, <3>2 DEF WithHandle
  <2>3. QED
    BY <2>1, <2>2
<1>4. QED
  BY <1>2, <1>3 DEF Indexed

(* Chunks with a new one that is not deleted. *)
LEMMA NewChunks ==
    ASSUME NEW C, NEW F, Chunks(C), Spare(C, F),
           NEW x, x \in Chunk, Granular(x.size), x.size > 0,
           NEW D, D = WithNew(C, F, x), NEW m, m = HandleOf(C, F)
    PROVE  Chunks(D) /\ Live(D) = Live(C) \cup {m} /\ Spare(D, LessFree(F))
<1>0. C \in Seq(Chunk)
  BY DEF Chunks
<1>1. /\ D \in Seq(Chunk)
      /\ 1..Len(D) = 1..Len(C) \cup {m}
      /\ m \in Nat \ {0} /\ m \notin Live(C)
      /\ D[m] = x
      /\ \A g \in 1..Len(C) : g # m => D[g] = C[g]
  <2>1. Adds(C, D, m, x)
    BY <1>0, NewChunk
  <2>2. QED
    BY <2>1 DEF Adds
<1>2. Live(D) = Live(C) \cup {m}
  BY <1>1 DEF Live
<1>3. Chunks(D)
  <2>1. ASSUME NEW g \in 1..Len(D), D[g].size = 0 PROVE D[g] = DeletedChunk
    <3>1. x.size # 0
      BY DEF Chunk
    <3>2. g # m /\ g \in 1..Len(C)
      BY <1>1, <2>1, <3>1
    <3>3. QED
      BY <1>1, <2>1, <3>2 DEF Chunks
  <2>2. ASSUME NEW g \in Live(D) PROVE Granular(D[g].size)
    <3>1. CASE g = m
      BY <1>1, <3>1
    <3>2. CASE g # m
      <4>1. g \in Live(C) /\ D[g] = C[g]
        BY <1>1, <1>2, <3>2 DEF Live
      <4>2. QED
        BY <4>1 DEF Chunks
    <3>3. QED
      BY <3>1, <3>2
  <2>3. QED
    BY <1>1, <2>1, <2>2 DEF Chunks
<1>4. Spare(D, LessFree(F))
  <2> DEFINE G == LessFree(F)
  <2>1. /\ G \in Seq(1..Len(D))
        /\ \A i \in 1..Len(G) : G[i] \in 1..Len(C) /\ G[i] # m
                                /\ C[G[i]].size = 0
        /\ \A i, j \in 1..Len(G) : G[i] = G[j] => i = j
    <3>1. SpareBut(C, D, G, m)
      BY <1>0, NewChunk
    <3>2. QED
      BY <3>1 DEF SpareBut
  <2> HIDE DEF G
  <2>2. \A i \in 1..Len(G) : D[G[i]].size = 0
    BY <1>1, <2>1
  <2>3. QED
    BY <2>1, <2>2 DEF Spare, G
<1>5. QED
  BY <1>2, <1>3, <1>4

RegionPtr(R) == (Len(R) + 1) * RegionStride
WithRegion(R, p, n) == Append(R, [ptr |-> p, size |-> n])
RegionChunk(p, n) ==
    [ptr |-> p, size |-> n, in_use |-> FALSE, prev |-> Invalid,
     next |-> Invalid, bin_num |-> NoBin]

(* A region more, which is one free chunk. *)
LEMMA RegionKeeps ==
    ASSUME NEW C, NEW F, NEW H, NEW R, Structure(C, F, H, R),
           NEW n \in Bytes, Granular(n),
           NEW p, p = RegionPtr(R), NEW x, x = RegionChunk(p, n),
           NEW D, D = WithNew(C, F, x), NEW m, m = HandleOf(C, F),
           NEW Q, Q = WithRegion(R, p, n)
    PROVE  /\ Structure(D, LessFree(F), WithHandle(H, p, m), Q)
           /\ Live(D) = Live(C) \cup {m} /\ m \notin Live(C)
           /\ D[m] = x
           /\ \A g \in Live(C) : D[g] = C[g]
<1> USE DEF RegionPtr, WithRegion, RegionChunk
<1>0. /\ Chunks(C) /\ Spare(C, F) /\ Regions(R) /\ Len(R) \in Nat
      /\ RegionStride \in Nat /\ MaxAllocationSize \in Nat
      /\ RegionStride >= MaxAllocationSize /\ C \in Seq(Chunk)
      /\ RegionStride > 0
  BY SizesAssumption DEF Structure, Regions, Chunks
<1>1. /\ x \in Chunk /\ x.ptr = p /\ x.size = n /\ ~x.in_use
      /\ x.prev = Invalid /\ x.next = Invalid
  <2>1. p \in Nat /\ n \in 0..MaxAllocationSize /\ NoBin \in Nat
    BY <1>0, SizesAssumption DEF Bytes, NoBin
  <2>2. QED
    BY <2>1 DEF Chunk, Invalid
<1>2. /\ 1..Len(D) = 1..Len(C) \cup {m}
      /\ m \in Nat \ {0} /\ m \notin Live(C) /\ D[m] = x
      /\ \A g \in 1..Len(C) : g # m => D[g] = C[g]
  <2>1. Adds(C, D, m, x)
    <3>1. D = WithNew(C, F, x) /\ m = HandleOf(C, F)
      OBVIOUS
    <3>2. QED
      BY <1>0, <1>1, <3>1, NewChunk
  <2>2. QED
    BY <2>1 DEF Adds
<1>3. Chunks(D) /\ Live(D) = Live(C) \cup {m} /\ Spare(D, LessFree(F))
  <2>1. Granular(x.size) /\ x.size > 0
    BY <1>1 DEF Bytes
  <2>2. D = WithNew(C, F, x) /\ m = HandleOf(C, F)
    OBVIOUS
  <2>3. QED
    BY <1>0, <1>1, <2>1, <2>2, NewChunks
<1>4. \A g \in Live(C) : D[g] = C[g]
  BY <1>2 DEF Live
<1>p. p \in Nat
  BY <1>0
<1>5. /\ Regions(Q) /\ Len(Q) = Len(R) + 1
      /\ \A k \in 1..Len(R) : Q[k] = R[k]
      /\ Q[Len(R) + 1].ptr = p /\ Q[Len(R) + 1].size = n
  <2> DEFINE r == [ptr |-> p, size |-> n]
  <2>1. r \in Region /\ r.ptr = p /\ r.size = n
    BY <1>p DEF Region
  <2> HIDE DEF r
  <2>2. R \in Seq(Region) /\ \A k \in 1..Len(R) : R[k].ptr = k * RegionStride
    BY <1>0 DEF Regions
  <2>3. /\ Q \in Seq(Region) /\ Len(Q) = Len(R) + 1 /\ Q[Len(R) + 1] = r
        /\ \A k \in 1..Len(R) : Q[k] = R[k]
    BY <1>0, <2>1, <2>2 DEF r
  <2>4. ASSUME NEW k \in 1..Len(Q) PROVE Q[k].ptr = k * RegionStride
    <3>1. CASE k = Len(R) + 1
      BY <2>1, <2>3, <3>1
    <3>2. CASE k # Len(R) + 1
      <4>1. k \in 1..Len(R)
        BY <1>0, <2>3, <3>2
      <4>2. QED
        BY <2>2, <2>3, <4>1
    <3>3. QED
      BY <3>1, <3>2
  <2>5. QED
    BY <2>1, <2>3, <2>4 DEF Regions
<1>6. ASSUME NEW g \in Live(C)
      PROVE  End(C[g]) <= p /\ C[g].ptr < p /\ End(C[g]) \in Nat
  <2> DEFINE k == RegionOf(C[g].ptr)
  <2>1. Placed(C, R, g) /\ g \in 1..Len(C) /\ C[g].size > 0
    BY DEF Structure, Live
  <2>2. k \in 1..Len(R) /\ End(C[g]) <= End(R[k])
    BY <2>1 DEF Placed
  <2> HIDE DEF k
  <2>3. /\ R[k].ptr = k * RegionStride /\ R[k].size \in Nat
        /\ R[k].size <= RegionStride /\ k * RegionStride \in Nat
    <3>1. R[k].size \in Bytes /\ R[k].ptr = k * RegionStride
      BY <1>0, <2>2, RegionFields DEF Regions
    <3>2. QED
      BY <1>0, <2>2, <3>1 DEF Bytes
  <2>4. k * RegionStride + RegionStride <= p
    <3>1. (k + 1) * RegionStride = k * RegionStride + RegionStride
      BY <1>0, <2>2
    <3>2. (k + 1) * RegionStride <= (Len(R) + 1) * RegionStride
      <4>1. PICK j \in Nat : j = Len(R) + 1
        BY <1>0
      <4>2. PICK i \in Nat : i = k + 1
        BY <2>2
      <4>3. i <= j
        BY <1>0, <2>2, <4>1, <4>2
      <4>4. PICK S \in Nat : S = RegionStride
        BY <1>0
      <4>5. i * S <= j * S
        BY <4>3
      <4>6. QED
        BY <4>1, <4>2, <4>4, <4>5
    <3>3. QED
      BY <3>1, <3>2
  <2>5. C[g].ptr \in Nat /\ C[g].size \in Nat
    BY <1>0, <2>1, ChunkFields
  <2>6. QED
    <3>1. PICK a \in Nat : a = k * RegionStride
      BY <2>3
    <3>2. C[g].ptr + C[g].size <= a + R[k].size /\ a + RegionStride <= p
      BY <2>2, <2>3, <2>4, <3>1 DEF End
    <3>3. C[g].ptr + C[g].size <= p
      <4>1. \A u, v, w, i, j, l \in Nat :
               u + v <= i + w /\ w <= j /\ i + j <= l => u + v <= l
        OBVIOUS
      <4>2. /\ R[k].size \in Nat /\ R[k].size <= RegionStride
            /\ RegionStride \in Nat
        BY <1>0, <2>3
      <4>3. QED
        BY <1>p, <2>5, <3>2, <4>1, <4>2
    <3>4. QED
      BY <1>p, <2>1, <2>5, <3>3 DEF End
<1>7. ASSUME NEW h \in Live(D) PROVE Placed(D, Q, h)
  <2>1. CASE h = m
    <3>1. RegionOf(p) = Len(R) + 1
      <4>1. PICK k \in Nat : k = Len(R) + 1
        BY <1>0
      <4>2. k * RegionStride <= p /\ p < k * RegionStride + RegionStride
        BY <1>0, <1>p, <4>1
      <4>3. QED
        BY <1>p, <4>1, <4>2, RegionOfWithin
    <3>2. Len(R) + 1 \in 1..Len(Q)
      BY <1>0, <1>5
    <3>3. End(x) = p + n /\ End(Q[Len(R) + 1]) = p + n /\ p + n \in Nat
      BY <1>1, <1>5, <1>p DEF End, Bytes
    <3>4. QED
      BY <1>1, <1>2, <1>5, <1>p, <2>1, <3>1, <3>2, <3>3 DEF Placed
  <2>2. CASE h # m
    <3>1. h \in Live(C) /\ D[h] = C[h]
      BY <1>3, <1>4, <2>2
    <3>2. Placed(C, R, h)
      BY <3>1 DEF Structure
    <3> DEFINE k == RegionOf(C[h].ptr)
    <3>3. k \in 1..Len(R)
      BY <3>2 DEF Placed
    <3>4. k \in 1..Len(Q) /\ Q[k] = R[k]
      BY <1>0, <1>5, <3>3
    <3>5. C[h].next # Invalid => C[h].next \in Live(C)
      BY <3>2 DEF Placed
    <3>6. C[h].prev # Invalid => C[h].prev \in Live(C)
      BY <3>2 DEF Placed
    <3>7. /\ C[h].next # Invalid => C[h].next \in Live(D)
                                    /\ D[C[h].next] = C[C[h].next]
          /\ C[h].prev # Invalid => C[h].prev \in Live(D)
                                    /\ D[C[h].prev] = C[C[h].prev]
      BY <1>3, <1>4, <3>5, <3>6
    <3>8. QED
      BY <3>1, <3>2, <3>4, <3>7 DEF Placed
  <2>3. QED
    BY <2>1, <2>2
<1>8. Disjoint(D)
  <2>1. ASSUME NEW g \in Live(D), NEW h \in Live(D), g # h
        PROVE  End(D[g]) <= D[h].ptr \/ End(D[h]) <= D[g].ptr
    <3>1. CASE g = m
      <4>1. h \in Live(C) /\ D[h] = C[h]
        BY <1>3, <1>4, <2>1, <3>1
      <4>2. QED
        BY <1>1, <1>2, <1>6, <3>1, <4>1
    <3>2. CASE h = m
      <4>1. g \in Live(C) /\ D[g] = C[g]
        BY <1>3, <1>4, <2>1, <3>2
      <4>2. QED
        BY <1>1, <1>2, <1>6, <3>2, <4>1
    <3>3. CASE g # m /\ h # m
      <4>1. g \in Live(C) /\ h \in Live(C) /\ D[g] = C[g] /\ D[h] = C[h]
        BY <1>3, <1>4, <3>3
      <4>2. QED
        BY <2>1, <4>1 DEF Structure, Disjoint
    <3>4. QED
      BY <3>1, <3>2, <3>3
  <2>2. QED
    BY <2>1 DEF Disjoint
<1>9. Indexed(D, WithHandle(H, p, m))
  <2>1. Indexed(C, H)
    BY DEF Structure
  <2>2. /\ \A g \in Live(C) : D[g].ptr = C[g].ptr
        /\ \A g \in Live(C) : C[g].ptr # p
    <3>1. ASSUME NEW g \in Live(C)
          PROVE  D[g].ptr = C[g].ptr /\ C[g].ptr # p
      <4>1. g \in 1..Len(C)
        BY DEF Live
      <4>2. C[g].ptr \in Nat
        BY <1>0, <4>1, ChunkFields
      <4>3. C[g].ptr < p
        BY <1>6
      <4>4. C[g].ptr # p
        BY <1>p, <4>2, <4>3
      <4>5. QED
        BY <1>4, <4>4
    <3>2. QED
      BY <3>1
  <2>3. D[m].ptr = p
    BY <1>1, <1>2
  <2>4. m \notin Live(C) /\ Live(D) = Live(C) \cup {m}
    BY <1>2, <1>3
  <2>5. QED
    BY <2>1, <2>2, <2>3, <2>4, NewIndex
<1>10. QED
  BY <1>2, <1>3, <1>4, <1>5, <1>7, <1>8, <1>9 DEF Structure

(* The size that curr_region has once a region was added. *)
NextRegion(s, rounded_bytes) ==
    IF rounded_bytes > s.curr_region THEN ExtendedRegion(s, rounded_bytes)
    ELSE MinOf(ExtendedRegion(s, rounded_bytes) * 2, MaxAllocationSize)

(* Extend: the new region is a free chunk in its bin. *)
LEMMA AddingRegion ==
    ASSUME NEW C, NEW F, NEW H, NEW R, NEW c, NEW n, NEW b,
           Structure(C, F, H, R), BinsRight(C),
           NEW rounded, NEW k \in Bytes, Granular(k),
           NEW s, s = Bfc(C, F, H, R, c, n, b)
    PROVE  \E D, G, I, p :
             /\ AddRegion(s, rounded, k)
                  = Bfc(D, G, I, WithRegion(R, p, k), NextRegion(s, rounded),
                        n + k, b)
             /\ p \in Nat
             /\ Structure(D, G, I, WithRegion(R, p, k))
             /\ BinsRight(D)
             /\ UsedRanges(D) = UsedRanges(C)
             /\ \E h \in Live(D) : ~D[h].in_use /\ D[h].size = k
<1> DEFINE p == RegionPtr(R)
           Q == WithRegion(R, p, k)
           e == NextRegion(s, rounded)
           s1 == WithRegions(s, Q, n + k, e)
           x == RegionChunk(p, k)
           E == WithNew(C, F, x)
           m == HandleOf(C, F)
           s2 == AllocateChunk(s1, x)
<1>0. /\ s.chunks = C /\ s.free_list = F /\ s.regions = R
      /\ s.curr_region = c /\ s.total = n
  BY Fields
<1>r. RegionStride \in Nat /\ Len(R) \in Nat /\ p \in Nat
  BY SizesAssumption DEF Structure, Regions, RegionPtr
<1>1. AddRegion(s, rounded, k) = CoalesceAndInsert(s2, NewHandle(s1))
  BY <1>0 DEF AddRegion, NextRegion, WithRegions, RegionPtr, WithRegion,
              RegionChunk
<1>2. s1 = Bfc(C, F, H, Q, e, n + k, b)
  <2> HIDE DEF Q, e
  <2>1. QED
    BY ChangedRegions
<1>x. x.ptr = p
  BY DEF RegionChunk
<1> HIDE DEF s1
<1>3. /\ NewHandle(s1) = m
      /\ s2 = Bfc(E, LessFree(F), WithHandle(H, p, m), Q, e, n + k, b)
  <2> HIDE DEF Q, e, x, m, p, E
  <2>1. QED
    BY <1>2, <1>x, ChunkAllocated DEF m, E
<1>4. /\ Structure(E, LessFree(F), WithHandle(H, p, m), Q)
      /\ Live(E) = Live(C) \cup {m} /\ m \notin Live(C) /\ E[m] = x
      /\ \A g \in Live(C) : E[g] = C[g]
  <2> HIDE DEF x, p, Q, E, m
  <2>1. QED
    BY RegionKeeps DEF x, p, Q, E, m
<1>5. /\ E[m].in_use = FALSE /\ E[m].next = Invalid /\ E[m].prev = Invalid
      /\ E[m].size = k
  BY <1>4 DEF RegionChunk
<1> HIDE DEF x, E, m, Q, e
<1>6. Ready(E, m)
  <2>1. ASSUME NEW g \in Live(E)
        PROVE  /\ g # m => E[g].bin_num = BinOf(E[g])
               /\ ~E[g].in_use => ~NextIsFree(E, g)
    <3>1. CASE g = m
      BY <1>5, <3>1 DEF NextIsFree
    <3>2. CASE g # m
      <4>1. g \in Live(C) /\ E[g] = C[g]
        BY <1>4, <3>2
      <4>2. C[g].next # Invalid => C[g].next \in Live(C)
        <5>1. Placed(C, R, g)
          BY <4>1 DEF Structure
        <5>2. QED
          BY <5>1 DEF Placed
      <4>3. /\ C[g].bin_num = BinOf(C[g])
            /\ ~C[g].in_use => ~NextIsFree(C, g)
        BY <4>1 DEF BinsRight
      <4>4. NextIsFree(E, g) => NextIsFree(C, g)
        BY <1>4, <4>1, <4>2 DEF NextIsFree
      <4>5. QED
        BY <4>1, <4>3, <4>4
    <3>3. QED
      BY <3>1, <3>2
  <2>2. QED
    BY <2>1 DEF Ready
<1>7. UsedRanges(E) = UsedRanges(C)
  <2> DEFINE U == {i \in Live(C) : C[i].in_use}
             V == {i \in Live(E) : E[i].in_use}
  <2>1. U = V
    BY <1>4, <1>5
  <2>2. \A i \in U : E[i] = C[i]
    BY <1>4
  <2>3. UsedRanges(C) = {[ptr |-> C[i].ptr, size |-> C[i].size] : i \in U}
    BY DEF UsedRanges
  <2>4. UsedRanges(E) = {[ptr |-> E[i].ptr, size |-> E[i].size] : i \in V}
    BY DEF UsedRanges
  <2> HIDE DEF U, V
  <2>5. QED
    BY <2>1, <2>2, <2>3, <2>4
<1>8. PICK D : D = Updated(E, m, InBinOfSize(E[m]))
  OBVIOUS
<1>m. m \in Live(E) /\ ~E[m].in_use
  BY <1>4, <1>5
<1>9. /\ Structure(D, LessFree(F), WithHandle(H, p, m), Q)
      /\ BinsRight(D) /\ UsedRanges(D) = UsedRanges(E)
      /\ Live(D) = Live(E) /\ SameShape(E, D) /\ ~D[m].in_use
  <2> HIDE DEF p
  <2>1. QED
    BY <1>4, <1>6, <1>8, <1>m, InsertReady
<1> HIDE DEF s2
<1>10. CoalesceAndInsert(s2, m) = InsertFreeChunkIntoBin(s2, m)
  <2>1. s2.chunks = E
    BY <1>3, Fields
  <2>2. ~IsFree(s2, E[m].next) /\ ~IsFree(s2, E[m].prev)
    BY <1>5 DEF IsFree
  <2>3. QED
    BY <2>1, <2>2 DEF CoalesceAndInsert
<1>11. InsertFreeChunkIntoBin(s2, m)
         = Bfc(D, LessFree(F), WithHandle(H, p, m), Q, e, n + k, b)
  <2> HIDE DEF p
  <2>1. QED
    BY <1>3, <1>8, ChunkInserted
<1>12. m \in Live(D) /\ ~D[m].in_use /\ D[m].size = k
  BY <1>5, <1>9, <1>m DEF SameShape, Live
<1>13. AddRegion(s, rounded, k)
         = Bfc(D, LessFree(F), WithHandle(H, p, m), Q, e, n + k, b)
  BY <1>1, <1>3, <1>10, <1>11
<1>14. QED
  <2> HIDE DEF p
  <2>1. QED
    BY <1>r, <1>7, <1>9, <1>12, <1>13 DEF Q, e

-----------------------------------------------------------------------------
(* Taking a chunk. *)

TakenWhole(C, h) ==
    LET C1 == Updated(C, h, OutOfBin(C[h]))
    IN  Updated(C1, h, MarkedUsed(C1[h]))

Remainder(c, h, n) ==
    [ptr |-> c.ptr + n, size |-> c.size - n, in_use |-> FALSE, prev |-> h,
     next |-> c.next, bin_num |-> NoBin]

Linked(C, h, m) == IF h = Invalid THEN C ELSE Updated(C, h, WithPrev(C[h], m))
Binned(C, h) == Updated(C, h, InBinOfSize(C[h]))
Cut(C, h, n, m) == Updated(C, h, Shrunk(C[h], n, m))

TakenSplit(C, F, h, n) ==
    LET C1 == Updated(C, h, OutOfBin(C[h]))
        m == HandleOf(C1, F)
        C2 == WithNew(C1, F, Remainder(C1[h], h, n))
        C3 == Cut(C2, h, n, m)
        C4 == Linked(C3, C1[h].next, m)
        C5 == Binned(C4, m)
    IN  Updated(C5, h, MarkedUsed(C5[h]))

TooLarge(k, n) == k >= n * 2 \/ k - n >= MaxFragmentation

\* What a successful search leaves: a whole chunk taken, or a chunk split.
LEMMA ChunkTaken ==
    ASSUME NEW C, NEW F, NEW H, NEW R, NEW c, NEW k, NEW b, NEW h, NEW n,
           C \in Seq(Chunk), h \in 1..Len(C), NEW s,
           s = Bfc(C, F, H, R, c, k, b)
    PROVE  TakeChunk(s, h, n)
             = IF TooLarge(C[h].size, n)
               THEN Bfc(TakenSplit(C, F, h, n), LessFree(F),
                        WithHandle(H, C[h].ptr + n, HandleOf(C, F)),
                        R, c, k, b)
               ELSE Bfc(TakenWhole(C, h), F, H, R, c, k, b)
<1> DEFINE C1 == Updated(C, h, OutOfBin(C[h]))
           s1 == RemoveFreeChunkFromBin(s, h)
           m == HandleOf(C1, F)
           x == Remainder(C1[h], h, n)
           p == x.ptr
           nx == C1[h].next
           C2 == WithNew(C1, F, x)
           s2 == AllocateChunk(s1, x)
           C3 == Cut(C2, h, n, m)
           s3 == Shrink(s2, h, n, m)
           C4 == Linked(C3, nx, m)
           s4 == IF nx = Invalid THEN s3 ELSE Relink(s3, nx, m)
           C5 == Binned(C4, m)
           s5 == InsertFreeChunkIntoBin(s4, m)
           G == LessFree(F)
           I == WithHandle(H, p, m)
<1>0. s.chunks = C
  BY Fields
<1>1. s1 = Bfc(C1, F, H, R, c, k, b)
  BY ChunkRemoved
<1> HIDE DEF s1
<1>2. s1.chunks = C1
  <2> HIDE DEF C1
  <2>1. QED
    BY <1>1, Fields
<1>3. /\ Len(C1) = Len(C) /\ C1[h].ptr = C[h].ptr
  <2>1. C[h] \in Chunk
    OBVIOUS
  <2>2. OutOfBin(C[h]).ptr = C[h].ptr
    BY <2>1 DEF OutOfBin, Chunk
  <2>3. Len(C1) = Len(C) /\ C1[h] = OutOfBin(C[h])
    BY DEF Updated
  <2>4. QED
    BY <2>2, <2>3
<1> HIDE DEF C1
<1>4. NewHandle(s1) = m /\ s2 = Bfc(C2, G, I, R, c, k, b)
  <2> HIDE DEF x
  <2>1. QED
    BY <1>1, ChunkAllocated
<1>p. p = C[h].ptr + n
  BY <1>3 DEF Remainder
<1>m. m = HandleOf(C, F)
  BY <1>3 DEF HandleOf
<1> HIDE DEF s2, x, m, I, G, nx, p
<1>5. s3 = Bfc(C3, G, I, R, c, k, b)
  <2> HIDE DEF C2
  <2>1. QED
    BY <1>4, ChunkShrunk DEF Cut
<1> HIDE DEF s3, C3
<1>6. s4 = Bfc(C4, G, I, R, c, k, b)
  <2>1. CASE nx = Invalid
    BY <1>5, <2>1 DEF Linked
  <2>2. CASE nx # Invalid
    BY <1>5, <2>2, ChunkRelinked DEF Linked
  <2>3. QED
    BY <2>1, <2>2
<1> HIDE DEF s4, C4
<1>7. s5 = Bfc(C5, G, I, R, c, k, b)
  BY <1>6, ChunkInserted DEF Binned
<1>8. SplitChunk(s1, h, n) = s5
  BY <1>2, <1>4 DEF SplitChunk, s5, s4, s3, s2, x, Remainder,
                            nx, Shrink, Relink
<1> HIDE DEF s5, C5
<1>9. CASE TooLarge(C[h].size, n)
  <2>1. TakeChunk(s, h, n) = MarkUsed(s5, h)
    BY <1>0, <1>8, <1>9 DEF TakeChunk, TooLarge, MarkUsed, s1
  <2>2. MarkUsed(s5, h)
          = Bfc(Updated(C5, h, MarkedUsed(C5[h])), G, I, R, c, k, b)
    BY <1>7, ChunkMarked
  <2>3. Updated(C5, h, MarkedUsed(C5[h])) = TakenSplit(C, F, h, n)
    BY DEF TakenSplit, C5, C4, C3, C2, C1, m, x, nx
  <2>4. I = WithHandle(H, C[h].ptr + n, HandleOf(C, F))
    BY <1>p, <1>m DEF I
  <2>5. QED
    BY <1>9, <2>1, <2>2, <2>3, <2>4 DEF G
<1>10. CASE ~TooLarge(C[h].size, n)
  <2>1. TakeChunk(s, h, n) = MarkUsed(s1, h)
    BY <1>0, <1>10 DEF TakeChunk, TooLarge, MarkUsed, s1
  <2>2. MarkUsed(s1, h)
          = Bfc(Updated(C1, h, MarkedUsed(C1[h])), F, H, R, c, k, b)
    BY <1>1, ChunkMarked
  <2>3. Updated(C1, h, MarkedUsed(C1[h])) = TakenWhole(C, h)
    BY DEF TakenWhole, C1
  <2>4. QED
    BY <1>10, <2>1, <2>2, <2>3
<1>11. QED
  BY <1>9, <1>10

(* The first n bytes of chunk h are in use, and the others are chunk m. *)
Splits(C, D, h, m, n) ==
    /\ D \in Seq(Chunk)
    /\ 1..Len(D) = 1..Len(C) \cup {m}
    /\ m \notin Live(C) /\ m \in Nat \ {0}
    /\ D[h].ptr = C[h].ptr
    /\ D[h].size = n
    /\ D[h].in_use
    /\ D[h].prev = C[h].prev
    /\ D[h].next = m
    /\ D[h].bin_num = NoBin
    /\ D[m].ptr = C[h].ptr + n
    /\ D[m].size = C[h].size - n
    /\ ~D[m].in_use
    /\ D[m].prev = h
    /\ D[m].next = C[h].next
    /\ D[m].bin_num = BinNumForSize[C[h].size - n]
    /\ \A g \in 1..Len(C) : g # h /\ g # m =>
          /\ g # C[h].next => D[g] = C[g]
          /\ D[g].ptr = C[g].ptr
          /\ D[g].size = C[g].size
          /\ D[g].in_use <=> C[g].in_use
          /\ D[g].prev = IF g = C[h].next THEN m ELSE C[g].prev
          /\ D[g].next = C[g].next
          /\ D[g].bin_num = C[g].bin_num

\* The fields of every chunk after a split, one chunk at a time.
LEMMA SplitFields ==
    ASSUME NEW C, NEW F, Chunks(C), Spare(C, F), NEW h \in Live(C),
           NEW n \in Nat, 0 < n, n < C[h].size,
           C[h].next # Invalid => C[h].next \in Live(C) /\ C[h].next # h,
           NEW D, D = TakenSplit(C, F, h, n), NEW m, m = HandleOf(C, F)
    PROVE  Splits(C, D, h, m, n) /\ SpareBut(C, D, LessFree(F), m)
<1> DEFINE y == OutOfBin(C[h])
           nx == C[h].next
           N == Len(C)
<1>0. /\ C \in Seq(Chunk) /\ N \in Nat /\ h \in 1..N /\ C[h] \in Chunk
      /\ C[h].ptr \in Nat /\ C[h].size \in Nat
      /\ C[h].size <= MaxAllocationSize /\ nx \in Nat
      /\ C[h].prev \in Nat /\ h \in Nat /\ MaxAllocationSize \in Nat
  <2>1. C \in Seq(Chunk) /\ N \in Nat /\ h \in 1..N /\ C[h] \in Chunk
    BY DEF Chunks, Live
  <2>2. QED
    <3>1. /\ C[h].ptr \in Nat /\ C[h].size \in 0..MaxAllocationSize
          /\ nx \in Nat /\ C[h].prev \in Nat
      BY <2>1 DEF Chunk
    <3>2. MaxAllocationSize \in Nat
      BY SizesAssumption
    <3>3. QED
      BY <2>1, <3>1, <3>2
<1>1. /\ y \in Chunk /\ y.ptr = C[h].ptr /\ y.size = C[h].size
      /\ y.prev = C[h].prev /\ y.next = nx
      /\ y.in_use = C[h].in_use /\ y.bin_num = NoBin
  BY NotInBin
<1>2. PICK C1 : C1 = Updated(C, h, y)
  OBVIOUS
<1> HIDE DEF y, nx
<1>3. /\ C1 \in Seq(Chunk) /\ Len(C1) = N /\ C1[h] = y
      /\ \A g \in 1..N : g # h => C1[g] = C[g]
  BY <1>0, <1>1, <1>2 DEF Updated
<1>4. Spare(C1, F)
  <2>1. /\ F \in Seq(1..N)
        /\ \A i \in 1..Len(F) : F[i] \in 1..N /\ C[F[i]].size = 0
        /\ \A i, j \in 1..Len(F) : F[i] = F[j] => i = j
    BY DEF Spare
  <2>2. C[h].size # 0
    BY <1>0
  <2>3. QED
    BY <1>3, <2>1, <2>2 DEF Spare
<1>5. PICK x : x = Remainder(C1[h], h, n)
  OBVIOUS
<1>6. /\ x \in Chunk /\ x.ptr = C[h].ptr + n /\ x.size = C[h].size - n
      /\ ~x.in_use /\ x.prev = h /\ x.next = nx
  <2>1. /\ C[h].ptr + n \in Nat /\ C[h].size - n \in 0..MaxAllocationSize
        /\ NoBin \in Nat
    BY <1>0, SizesAssumption DEF NoBin
  <2>2. x = [ptr |-> C[h].ptr + n, size |-> C[h].size - n, in_use |-> FALSE,
             prev |-> h, next |-> nx, bin_num |-> NoBin]
    BY <1>1, <1>3, <1>5 DEF Remainder
  <2>3. QED
    BY <1>0, <2>1, <2>2 DEF Chunk
<1>7. m = HandleOf(C1, F)
  BY <1>3 DEF HandleOf
<1>8. PICK C2 : C2 = WithNew(C1, F, x)
  OBVIOUS
<1>9. Adds(C1, C2, m, x) /\ SpareBut(C1, C2, LessFree(F), m)
  BY <1>3, <1>4, <1>6, <1>7, <1>8, NewChunk
<1>10. Live(C1) = Live(C)
  <2>1. \A g \in 1..N : C1[g].size = C[g].size
    BY <1>1, <1>3
  <2>2. QED
    BY <1>3, <2>1 DEF Live
<1>11. /\ C2 \in Seq(Chunk) /\ 1..Len(C2) = 1..N \cup {m}
       /\ m \in Nat \ {0} /\ m \notin Live(C) /\ m # h
       /\ C2[m] = x /\ C2[h] = y
       /\ \A g \in 1..N : g # h /\ g # m => C2[g] = C[g]
  <2>1. /\ C2 \in Seq(Chunk) /\ 1..Len(C2) = 1..N \cup {m}
        /\ m \in Nat \ {0} /\ m \notin Live(C)
        /\ C2[m] = x
        /\ \A g \in 1..N : g # m => C2[g] = C1[g]
    BY <1>3, <1>9, <1>10 DEF Adds
  <2>2. QED
    BY <1>0, <1>3, <2>1
<1>12. PICK z : z = Shrunk(C2[h], n, m)
  OBVIOUS
<1>13. /\ z \in Chunk /\ z.ptr = C[h].ptr /\ z.size = n
       /\ z.prev = C[h].prev /\ z.next = m /\ z.bin_num = NoBin
  <2>1. n \in 0..MaxAllocationSize /\ m \in Nat
    BY <1>0, <1>11
  <2>2. z = [y EXCEPT !.size = n, !.next = m]
    BY <1>11, <1>12 DEF Shrunk
  <2>3. QED
    BY <1>1, <2>1, <2>2 DEF Chunk
<1>14. PICK C3 : C3 = Updated(C2, h, z)
  OBVIOUS
<1>15. /\ C3 \in Seq(Chunk) /\ Len(C3) = Len(C2) /\ C3[h] = z
       /\ \A g \in 1..Len(C2) : g # h => C3[g] = C2[g]
  <2>1. h \in 1..Len(C2)
    BY <1>0, <1>11
  <2>2. QED
    BY <1>11, <1>13, <1>14, <2>1 DEF Updated
<1>16. PICK C4 : C4 = Linked(C3, nx, m)
  OBVIOUS
<1>17. /\ C4 \in Seq(Chunk) /\ Len(C4) = Len(C2) /\ C4[h] = z /\ C4[m] = x
       /\ \A g \in 1..N : g # h /\ g # m =>
             /\ g # nx => C4[g] = C[g]
             /\ C4[g].ptr = C[g].ptr
             /\ C4[g].size = C[g].size
             /\ C4[g].in_use = C[g].in_use
             /\ C4[g].prev = IF g = nx THEN m ELSE C[g].prev
             /\ C4[g].next = C[g].next
             /\ C4[g].bin_num = C[g].bin_num
  <2>1. m \in 1..Len(C2) /\ 1..N \subseteq 1..Len(C2) /\ h \in 1..Len(C2)
    BY <1>0, <1>11
  <2>2. CASE nx = Invalid
    <3>1. C4 = C3
      BY <1>16, <2>2 DEF Linked
    <3>2. \A g \in 1..N : g # nx
      BY <2>2 DEF Invalid
    <3>3. QED
      BY <1>11, <1>15, <2>1, <3>1, <3>2
  <2>3. CASE nx # Invalid
    <3>1. nx \in Live(C) /\ nx # h
      BY <2>3 DEF nx
    <3>2. nx \in 1..N /\ nx # m /\ nx \in 1..Len(C3)
      BY <1>11, <1>15, <2>1, <3>1 DEF Live
    <3>3. PICK u : u = WithPrev(C3[nx], m)
      OBVIOUS
    <3>4. /\ u \in Chunk /\ u.ptr = C[nx].ptr /\ u.size = C[nx].size
          /\ u.in_use = C[nx].in_use /\ u.prev = m /\ u.next = C[nx].next
          /\ u.bin_num = C[nx].bin_num
      <4>1. C3[nx] = C[nx] /\ C[nx] \in Chunk /\ m \in Nat
        BY <1>0, <1>11, <1>15, <2>1, <3>1, <3>2
      <4>2. QED
        BY <3>3, <4>1 DEF WithPrev, Chunk
    <3>5. C4 = Updated(C3, nx, u)
      BY <1>16, <2>3, <3>3 DEF Linked
    <3>6. /\ C4 \in Seq(Chunk) /\ Len(C4) = Len(C3) /\ C4[nx] = u
          /\ \A g \in 1..Len(C3) : g # nx => C4[g] = C3[g]
      BY <1>15, <3>2, <3>4, <3>5 DEF Updated
    <3>7. C4[h] = z /\ C4[m] = x /\ Len(C4) = Len(C2)
      BY <1>11, <1>15, <2>1, <3>1, <3>2, <3>6
    <3>8. ASSUME NEW g \in 1..N, g # h, g # m
          PROVE  /\ g # nx => C4[g] = C[g]
                 /\ C4[g].ptr = C[g].ptr
                 /\ C4[g].size = C[g].size
                 /\ C4[g].in_use = C[g].in_use
                 /\ C4[g].prev = IF g = nx THEN m ELSE C[g].prev
                 /\ C4[g].next = C[g].next
                 /\ C4[g].bin_num = C[g].bin_num
      <4>1. CASE g = nx
        BY <3>4, <3>6, <4>1
      <4>2. CASE g # nx
        <5>1. C4[g] = C[g]
          BY <1>11, <1>15, <2>1, <3>6, <3>8, <4>2
        <5>2. QED
          BY <4>2, <5>1
      <4>3. QED
        BY <4>1, <4>2
    <3>9. QED
      BY <3>6, <3>7, <3>8
  <2>4. QED
    BY <2>2, <2>3
<1>18. PICK v : v = InBinOfSize(C4[m])
  OBVIOUS
<1>19. /\ v \in Chunk /\ v.ptr = C[h].ptr + n /\ v.size = C[h].size - n
       /\ ~v.in_use /\ v.prev = h /\ v.next = nx
       /\ v.bin_num = BinNumForSize[C[h].size - n]
  <2>1. C[h].size - n \in Bytes
    BY <1>0 DEF Bytes
  <2>2. BinNumForSize[C[h].size - n] \in Nat
    BY <2>1, Bins, SizesAssumption
  <2>3. v = [x EXCEPT !.bin_num = BinNumForSize[C[h].size - n]]
    BY <1>6, <1>17, <1>18 DEF InBinOfSize
  <2>4. QED
    BY <1>6, <2>2, <2>3 DEF Chunk
<1>20. PICK C5 : C5 = Updated(C4, m, v)
  OBVIOUS
<1>21. /\ C5 \in Seq(Chunk) /\ Len(C5) = Len(C4) /\ C5[m] = v
       /\ \A g \in 1..Len(C4) : g # m => C5[g] = C4[g]
  <2>1. m \in 1..Len(C4)
    BY <1>11, <1>17
  <2>2. QED
    BY <1>17, <1>19, <1>20, <2>1 DEF Updated
<1>22. PICK w : w = MarkedUsed(C5[h])
  OBVIOUS
<1>23. h \in 1..Len(C4) /\ m \in 1..Len(C4) /\ 1..N \subseteq 1..Len(C4)
  BY <1>0, <1>11, <1>17
<1>24. /\ w \in Chunk /\ w.ptr = C[h].ptr /\ w.size = n
       /\ w.prev = C[h].prev /\ w.next = m /\ w.bin_num = NoBin /\ w.in_use
  <2>1. C5[h] = z
    BY <1>11, <1>17, <1>21, <1>23
  <2>2. w = MarkedUsed(z)
    BY <1>22, <2>1
  <2>3. QED
    BY <1>13, <2>2 DEF MarkedUsed, Chunk
<1>25. D = Updated(C5, h, w)
  BY <1>2, <1>5, <1>7, <1>8, <1>12, <1>14, <1>16, <1>18, <1>20, <1>22, <1>1,
     <1>3
  DEF TakenSplit, Cut, Binned, y, nx
<1>26. /\ D \in Seq(Chunk) /\ Len(D) = Len(C5) /\ D[h] = w
       /\ \A g \in 1..Len(C5) : g # h => D[g] = C5[g]
  BY <1>21, <1>23, <1>24, <1>25 DEF Updated
<1>27. /\ 1..Len(D) = 1..N \cup {m} /\ D[m] = v
       /\ \A g \in 1..N : g # h /\ g # m => D[g] = C4[g]
  BY <1>11, <1>17, <1>21, <1>23, <1>26
<1>28. Splits(C, D, h, m, n)
  <2>1. /\ D[h].ptr = C[h].ptr /\ D[h].size = n /\ D[h].in_use
        /\ D[h].prev = C[h].prev /\ D[h].next = m /\ D[h].bin_num = NoBin
    BY <1>24, <1>26
  <2>2. /\ D[m].ptr = C[h].ptr + n /\ D[m].size = C[h].size - n
        /\ ~D[m].in_use /\ D[m].prev = h /\ D[m].next = nx
        /\ D[m].bin_num = BinNumForSize[C[h].size - n]
    BY <1>19, <1>27
  <2>3. ASSUME NEW g \in 1..N, g # h, g # m
        PROVE  /\ g # nx => D[g] = C[g]
               /\ D[g].ptr = C[g].ptr
               /\ D[g].size = C[g].size
               /\ D[g].in_use <=> C[g].in_use
               /\ D[g].prev = IF g = nx THEN m ELSE C[g].prev
               /\ D[g].next = C[g].next
               /\ D[g].bin_num = C[g].bin_num
    <3>1. D[g] = C4[g]
      BY <1>27, <2>3
    <3>2. QED
      BY <1>17, <2>3, <3>1
  <2>4. QED
    BY <1>11, <1>26, <1>27, <2>1, <2>2, <2>3 DEF Splits, nx
<1>29. SpareBut(C, D, LessFree(F), m)
  <2> DEFINE G == LessFree(F)
  <2>1. /\ G \in Seq(1..Len(C2))
        /\ \A i \in 1..Len(G) : /\ G[i] \in 1..Len(C1) /\ G[i] # m
                                /\ C1[G[i]].size = 0
        /\ \A i, j \in 1..Len(G) : G[i] = G[j] => i = j
    BY <1>9 DEF SpareBut
  <2>2. \A g \in 1..N : C1[g].size = C[g].size
    BY <1>1, <1>3
  <2> HIDE DEF G
  <2>3. Len(D) = Len(C2)
    BY <1>17, <1>21, <1>26
  <2>4. QED
    BY <1>3, <2>1, <2>2, <2>3 DEF SpareBut, G
<1>30. QED
  BY <1>28, <1>29

\* Splitting a chunk keeps the structure of the regions.
LEMMA SplitKeeps ==
    ASSUME NEW C, NEW F, NEW H, NEW R, Structure(C, F, H, R),
           NEW h \in Live(C), NEW n, n \in Nat, 0 < n, n < C[h].size,
           Granular(n), NEW D, NEW m, Splits(C, D, h, m, n),
           NEW G, SpareBut(C, D, G, m)
    PROVE  /\ Structure(D, G, WithHandle(H, C[h].ptr + n, m), R)
           /\ Live(D) = Live(C) \cup {m}
<1> DEFINE nx == C[h].next
           p == C[h].ptr + n
           N == Len(C)
           k == RegionOf(C[h].ptr)
<1>0. Chunks(C) /\ Regions(R) /\ Placed(C, R, h)
  BY DEF Structure
<1>1. /\ N \in Nat /\ h \in 1..N
      /\ C[h].ptr \in Nat /\ C[h].size \in Nat
      /\ C[h].size <= MaxAllocationSize /\ nx \in Nat
      /\ h # Invalid
  <2>1. h \in 1..N
    BY DEF Live
  <2>2. QED
    BY <1>0, <2>1, SizesAssumption, ChunkFields DEF Invalid
<1>2. /\ k \in 1..Len(R) /\ R[k].ptr <= C[h].ptr /\ End(C[h]) <= End(R[k])
      /\ nx = Invalid => End(C[h]) = End(R[k])
      /\ nx # Invalid => /\ nx \in Live(C) /\ C[nx].ptr = End(C[h])
                         /\ C[nx].prev = h /\ RegionOf(End(C[h])) = k
      /\ C[h].prev = Invalid => C[h].ptr = R[k].ptr
      /\ C[h].prev # Invalid => C[h].prev \in Live(C)
                                /\ C[C[h].prev].next = h
  BY <1>0 DEF Placed
<1>3. nx # Invalid => nx # h
  BY Neighbours
<1>n. C[h].next = nx
  OBVIOUS
<1>p. p = C[h].ptr + n /\ p \in Nat
  BY <1>1
<1>4. /\ D \in Seq(Chunk) /\ 1..Len(D) = 1..N \cup {m}
      /\ m \notin Live(C) /\ m \in Nat \ {0} /\ m # h
      /\ D[h].ptr = C[h].ptr /\ D[h].size = n
      /\ D[h].prev = C[h].prev /\ D[h].next = m
      /\ D[m].ptr = p /\ D[m].size = C[h].size - n
      /\ D[m].prev = h /\ D[m].next = nx
      /\ \A g \in 1..N : g # h /\ g # m =>
            /\ g # nx => D[g] = C[g]
            /\ D[g].ptr = C[g].ptr
            /\ D[g].size = C[g].size
            /\ D[g].prev = IF g = nx THEN m ELSE C[g].prev
            /\ D[g].next = C[g].next
  BY DEF Splits
<1> HIDE DEF nx, p, k
<1>l. \A g \in Live(C) : g \in 1..N /\ g # m /\ C[g].size > 0
  BY <1>4 DEF Live
<1>5. Live(D) = Live(C) \cup {m}
  <2>1. ASSUME NEW g \in 1..Len(D)
        PROVE  g \in Live(D) <=> g \in Live(C) \cup {m}
    <3>1. CASE g = h
      BY <1>4, <3>1 DEF Live
    <3>2. CASE g = m
      BY <1>1, <1>4, <3>2 DEF Live
    <3>3. CASE g # h /\ g # m
      BY <1>4, <3>3 DEF Live
    <3>4. QED
      BY <3>1, <3>2, <3>3
  <2>2. Live(D) \subseteq 1..Len(D) /\ Live(C) \cup {m} \subseteq 1..Len(D)
    BY <1>4, <1>l DEF Live
  <2>3. QED
    BY <2>1, <2>2
<1>6. /\ End(D[h]) = p /\ End(D[m]) = End(C[h])
      /\ C[h].ptr < p /\ p < End(C[h]) /\ End(C[h]) \in Nat
  <2>1. \A u, v \in Nat : n < v => /\ (u + n) + (v - n) = u + v
                                   /\ u < u + n /\ u + n < u + v
    OBVIOUS
  <2>2. /\ D[h].ptr = C[h].ptr /\ D[h].size = n
        /\ D[m].ptr = p /\ D[m].size = C[h].size - n
    BY <1>4
  <2>3. /\ p + (C[h].size - n) = C[h].ptr + C[h].size
        /\ C[h].ptr < p /\ p < C[h].ptr + C[h].size
        /\ C[h].ptr + C[h].size \in Nat
    <3>1. C[h].ptr \in Nat /\ C[h].size \in Nat /\ n < C[h].size
      BY <1>1
    <3>2. p = C[h].ptr + n
      BY <1>p
    <3>3. QED
      BY <2>1, <3>1, <3>2
  <2>4. QED
    BY <1>p, <2>2, <2>3 DEF End
<1>e. ASSUME NEW g \in Live(C), g # h
      PROVE  End(D[g]) = End(C[g]) /\ D[g].ptr = C[g].ptr
  BY <1>4, <1>l, <1>e DEF End
<1>7. RegionOf(p) = k
  <2>1. /\ R[k].ptr = k * RegionStride /\ R[k].size \in Nat
        /\ R[k].size <= MaxAllocationSize /\ k \in Nat
    <3>1. R[k].size \in Bytes /\ R[k].ptr = k * RegionStride
      BY <1>0, <1>2, RegionFields DEF Regions
    <3>2. MaxAllocationSize \in Nat
      BY SizesAssumption
    <3>3. QED
      BY <1>2, <3>1, <3>2 DEF Bytes
  <2>2. RegionStride \in Nat /\ MaxAllocationSize <= RegionStride
        /\ MaxAllocationSize \in Nat
    BY SizesAssumption
  <2>3. PICK a \in Nat : a = k * RegionStride
    BY <2>1, <2>2
  <2>4. a <= C[h].ptr /\ End(C[h]) <= a + R[k].size
    BY <1>2, <2>1, <2>3 DEF End
  <2>5. a <= p /\ p < a + RegionStride
    <3>1. \A q, e, u, v, x, w \in Nat :
              a <= u /\ e <= a + x /\ u < q /\ q < e /\ x <= v /\ v <= w
                 => a <= q /\ q < a + w
      OBVIOUS
    <3>2. R[k].size \in Nat /\ R[k].size <= MaxAllocationSize
      BY <2>1
    <3>3. QED
      BY <1>1, <1>6, <1>p, <2>2, <2>4, <3>1, <3>2
  <2>6. QED
    BY <1>p, <2>1, <2>3, <2>5, RegionOfWithin
<1>8. ASSUME NEW g \in Live(D) PROVE Placed(D, R, g)
  <2>1. CASE g = h
    <3>1. m # Invalid /\ m \in Live(D)
      BY <1>4, <1>5 DEF Invalid
    <3>2. C[h].prev # Invalid => /\ C[h].prev \in Live(D)
                                 /\ D[C[h].prev].next = h
      <4> HAVE C[h].prev # Invalid
      <4>1. C[h].prev \in Live(C) /\ C[C[h].prev].next = h
        BY <1>2
      <4>2. C[h].prev # h
        BY <1>3, <1>n, <4>1, <1>1
      <4>3. QED
        BY <1>4, <1>5, <1>l, <4>1, <4>2
    <3>3. p <= End(R[k])
      <4>1. R[k].ptr \in Nat /\ R[k].size \in Nat
        BY <1>0, <1>2, RegionFields DEF Bytes
      <4>2. QED
        BY <1>2, <1>6, <1>p, <4>1 DEF End
    <3>4. RegionOf(D[h].ptr) = k
      BY <1>4 DEF k
    <3>5. QED
      BY <1>2, <1>4, <1>6, <1>7, <2>1, <3>1, <3>2, <3>3, <3>4 DEF Placed
  <2>2. CASE g = m
    <3>1. h \in Live(D)
      BY <1>5
    <3>2. nx # Invalid => /\ nx \in Live(D) /\ D[nx].ptr = End(C[h])
                          /\ D[nx].prev = m
      BY <1>2, <1>3, <1>4, <1>5, <1>l
    <3>3. R[k].ptr <= p
      <4>1. R[k].ptr \in Nat
        BY <1>0, <1>2, RegionFields
      <4>2. R[k].ptr <= C[h].ptr
        BY <1>2
      <4>3. QED
        BY <1>1, <1>6, <1>p, <4>1, <4>2
    <3>4. QED
      BY <1>1, <1>2, <1>4, <1>6, <1>7, <2>2, <3>1, <3>2, <3>3 DEF Placed
  <2>3. CASE g # h /\ g # m
    <3>0. g \in Live(C) /\ g \in 1..N
      BY <1>5, <1>l, <2>3
    <3> DEFINE i == RegionOf(C[g].ptr)
               a == C[g].next
               b == C[g].prev
    <3>1. Placed(C, R, g)
      BY <3>0 DEF Structure
    <3>2. /\ i \in 1..Len(R) /\ R[i].ptr <= C[g].ptr
          /\ End(C[g]) <= End(R[i])
          /\ a = Invalid => End(C[g]) = End(R[i])
          /\ a # Invalid => /\ a \in Live(C)
                            /\ C[a].ptr = End(C[g])
                            /\ C[a].prev = g
                            /\ RegionOf(End(C[g])) = i
          /\ b = Invalid => C[g].ptr = R[i].ptr
          /\ b # Invalid => b \in Live(C) /\ C[b].next = g
      BY <3>1 DEF Placed
    <3>3. /\ D[g].ptr = C[g].ptr /\ D[g].next = a /\ End(D[g]) = End(C[g])
          /\ D[g].prev = IF g = nx THEN m ELSE b
      BY <1>4, <1>e, <2>3, <3>0
    <3> HIDE DEF i, a, b
    <3>4. a # Invalid => a \in Live(D) /\ D[a].ptr = C[a].ptr /\ D[a].prev = g
      <4> HAVE a # Invalid
      <4>1. a # nx
        BY <1>2, <2>3, <3>2
      <4>2. a \in Live(C) /\ a \in 1..N /\ a # m
        BY <1>l, <3>2
      <4>3. CASE a = h
        BY <1>4, <1>5, <3>2, <4>3
      <4>4. CASE a # h
        BY <1>4, <1>5, <3>2, <4>1, <4>2, <4>4
      <4>5. QED
        BY <4>3, <4>4
    <3>5. CASE g = nx
      <4>1. D[g].prev = m /\ m \in Live(D) /\ D[m].next = g /\ m # Invalid
        BY <1>4, <1>5, <3>3, <3>5 DEF Invalid
      <4>2. QED
        BY <3>2, <3>3, <3>4, <4>1 DEF Placed, i
    <3>6. CASE g # nx
      <4>1. b # Invalid => b \in Live(D) /\ D[b].next = g
        <5> HAVE b # Invalid
        <5>1. b \in Live(C) /\ C[b].next = g /\ b \in 1..N /\ b # m
          BY <1>l, <3>2
        <5>2. b # h
          BY <1>n, <3>6, <5>1
        <5>3. QED
          BY <1>4, <1>5, <5>1, <5>2
      <4>2. D[g].prev = b
        BY <3>3, <3>6
      <4>3. QED
        BY <3>2, <3>3, <3>4, <4>1, <4>2 DEF Placed, i
    <3>7. QED
      BY <3>5, <3>6
  <2>4. QED
    BY <2>1, <2>2, <2>3
<1>9. ASSUME NEW g \in Live(C), g # h
      PROVE  /\ End(C[g]) <= C[h].ptr \/ End(C[h]) <= C[g].ptr
             /\ C[g].ptr \in Nat /\ End(C[g]) \in Nat
             /\ C[g].ptr < End(C[g])
  <2>1. C[g].ptr \in Nat /\ C[g].size \in Nat
    BY <1>0, <1>l, ChunkFields
  <2>2. C[g].size > 0
    BY <1>l
  <2>3. QED
    BY <1>9, <2>1, <2>2 DEF Structure, Disjoint, End
<1>10. Disjoint(D)
  <2>1. ASSUME NEW g \in Live(D), NEW i \in Live(D), g # i,
               g \in {h, m}
        PROVE  End(D[g]) <= D[i].ptr \/ End(D[i]) <= D[g].ptr
    <3>1. CASE i \in {h, m}
      <4>1. End(D[h]) <= D[m].ptr
        BY <1>4, <1>6, <1>p
      <4>2. (g = h /\ i = m) \/ (g = m /\ i = h)
        BY <2>1, <3>1, Zenon
      <4>3. QED
        BY <4>1, <4>2
    <3>2. CASE i \notin {h, m}
      <4>1. i \in Live(C) /\ i # h
        BY <1>5, <3>2
      <4>2. End(D[i]) = End(C[i]) /\ D[i].ptr = C[i].ptr
        BY <1>e, <4>1
      <4>3. /\ End(C[i]) <= C[h].ptr \/ End(C[h]) <= C[i].ptr
            /\ C[i].ptr \in Nat /\ End(C[i]) \in Nat
        BY <1>9, <4>1
      <4>a. \A u, v, w, x, y \in Nat :
                u < v /\ v < w /\ (x <= u \/ w <= y)
                   => (v <= y \/ x <= u) /\ (w <= y \/ x <= v)
        OBVIOUS
      <4>b. /\ p <= C[i].ptr \/ End(C[i]) <= C[h].ptr
            /\ End(C[h]) <= C[i].ptr \/ End(C[i]) <= p
        BY <1>1, <1>6, <1>p, <4>3, <4>a
      <4>4. CASE g = h
        BY <1>4, <1>6, <4>2, <4>4, <4>b
      <4>5. CASE g = m
        BY <1>4, <1>6, <4>2, <4>5, <4>b
      <4>6. QED
        BY <2>1, <4>4, <4>5
    <3>3. QED
      BY <3>1, <3>2
  <2>2. ASSUME NEW g \in Live(D), NEW i \in Live(D), g # i,
               g \notin {h, m}, i \notin {h, m}
        PROVE  End(D[g]) <= D[i].ptr \/ End(D[i]) <= D[g].ptr
    <3>1. g \in Live(C) /\ g # h /\ i \in Live(C) /\ i # h
      BY <1>5, <2>2
    <3>2. /\ End(D[g]) = End(C[g]) /\ D[g].ptr = C[g].ptr
          /\ End(D[i]) = End(C[i]) /\ D[i].ptr = C[i].ptr
      BY <1>e, <3>1
    <3>3. QED
      BY <2>2, <3>1, <3>2 DEF Structure, Disjoint
  <2>3. QED
    BY <2>1, <2>2 DEF Disjoint
<1>11. Indexed(D, WithHandle(H, p, m))
  <2>1. ASSUME NEW g \in Live(C) PROVE D[g].ptr = C[g].ptr /\ C[g].ptr # p
    <3>1. CASE g = h
      BY <1>1, <1>4, <1>6, <1>p, <3>1
    <3>2. CASE g # h
      <4>1. C[g].ptr # p
        BY <1>1, <1>6, <1>9, <1>p, <3>2
      <4>2. QED
        BY <1>e, <3>2, <4>1
    <3>3. QED
      BY <3>1, <3>2
  <2>2. Indexed(C, H)
    BY DEF Structure
  <2>3. QED
    BY <1>4, <1>5, <2>1, <2>2, NewIndex
<1>12. Spare(D, G)
  <2>1. /\ G \in Seq(1..Len(D))
        /\ \A i \in 1..Len(G) : /\ G[i] \in 1..N /\ G[i] # m
                                /\ C[G[i]].size = 0
        /\ \A i, j \in 1..Len(G) : G[i] = G[j] => i = j
    BY DEF SpareBut
  <2>2. \A i \in 1..Len(G) : D[G[i]].size = 0
    <3> TAKE i \in 1..Len(G)
    <3>0. C[G[i]].size = 0 /\ C[h].size > 0
      BY <1>l, <2>1
    <3>1. G[i] # h
      BY <3>0
    <3>2. QED
      BY <1>4, <2>1, <3>1
  <2>3. QED
    BY <2>1, <2>2 DEF Spare
<1>13. Chunks(D)
  <2>1. ASSUME NEW g \in 1..Len(D), D[g].size = 0 PROVE D[g] = DeletedChunk
    <3>1. g # h /\ g # m
      BY <1>1, <1>4, <2>1
    <3>2. g \in 1..N /\ C[g].size = 0
      BY <1>4, <2>1, <3>1
    <3>3. g # nx
      <4>1. nx # Invalid => C[nx].size > 0
        BY <1>2, <1>l
      <4>2. CASE nx = Invalid
        BY <3>2, <4>2 DEF Invalid
      <4>3. CASE nx # Invalid
        BY <3>2, <4>1, <4>3
      <4>4. QED
        BY <4>2, <4>3
    <3>4. D[g] = C[g]
      BY <1>4, <3>1, <3>2, <3>3
    <3>5. QED
      BY <1>0, <3>2, <3>4 DEF Chunks
  <2>2. ASSUME NEW g \in Live(D) PROVE Granular(D[g].size)
    <3>0. Granular(C[h].size)
      BY <1>0 DEF Chunks
    <3>1. CASE g = h
      BY <1>4, <3>1
    <3>2. CASE g = m
      <4>1. C[h].size >= n
        BY <1>1
      <4>2. QED
        BY <1>4, <3>0, <3>2, <4>1, GranularSum
    <3>3. CASE g # h /\ g # m
      <4>1. g \in Live(C) /\ D[g].size = C[g].size
        BY <1>4, <1>5, <1>l, <3>3
      <4>2. QED
        BY <1>0, <4>1 DEF Chunks
    <3>4. QED
      BY <3>1, <3>2, <3>3
  <2>3. QED
    BY <1>4, <2>1, <2>2 DEF Chunks
<1>14. QED
  BY <1>0, <1>5, <1>8, <1>10, <1>11, <1>12, <1>13 DEF Structure, p

RangeOf(p, n) == [ptr |-> p, size |-> n]

(* What a split does to flags, bins and the ranges in use. *)
LEMMA SplitFlags ==
    ASSUME NEW C, NEW F, NEW H, NEW R, Structure(C, F, H, R), BinsRight(C),
           NEW h \in Live(C), ~C[h].in_use, NEW n, NEW D, NEW m,
           Splits(C, D, h, m, n), Live(D) = Live(C) \cup {m}
    PROVE  /\ BinsRight(D)
           /\ UsedRanges(D) = UsedRanges(C) \cup {RangeOf(C[h].ptr, n)}
<1> DEFINE N == Len(C)
           nx == C[h].next
<1>1. /\ m \notin Live(C) /\ m # h
      /\ D[h].ptr = C[h].ptr /\ D[h].size = n /\ D[h].in_use
      /\ D[h].bin_num = NoBin
      /\ D[m].size = C[h].size - n /\ ~D[m].in_use /\ D[m].next = nx
      /\ D[m].bin_num = BinNumForSize[C[h].size - n]
      /\ \A g \in 1..N : g # h /\ g # m =>
            /\ D[g].ptr = C[g].ptr
            /\ D[g].size = C[g].size
            /\ D[g].in_use <=> C[g].in_use
            /\ D[g].next = C[g].next
            /\ D[g].bin_num = C[g].bin_num
  BY DEF Splits
<1>2. \A g \in Live(C) : g \in 1..N /\ g # m
  BY <1>1 DEF Live
<1>3. /\ ~C[h].in_use /\ Live(D) = Live(C) \cup {m} /\ h \in Live(C)
      /\ BinsRight(C) /\ C[h].next = nx
  OBVIOUS
<1>4. \A g \in Live(C) : C[g].next # Invalid => C[g].next \in Live(C)
  BY DEF Structure, Placed
<1>5. ASSUME NEW a \in Live(C), C[a].in_use PROVE D[a].in_use
  BY <1>1, <1>2, <1>3, <1>5
<1> HIDE DEF nx, N
<1>6. ASSUME NEW g \in Live(D)
      PROVE  /\ D[g].bin_num = BinOf(D[g])
             /\ ~D[g].in_use => ~NextIsFree(D, g)
  <2>1. CASE g = h
    BY <1>1, <2>1 DEF BinOf
  <2>2. CASE g = m
    <3>1. nx # Invalid => C[nx].in_use /\ nx \in Live(C)
      BY <1>3, <1>4 DEF BinsRight, NextIsFree
    <3>2. nx # Invalid => D[nx].in_use
      BY <1>5, <3>1
    <3>3. QED
      BY <1>1, <2>2, <3>2 DEF BinOf, NextIsFree
  <2>3. CASE g # h /\ g # m
    <3>1. g \in Live(C) /\ g \in 1..N
      BY <1>2, <1>3, <2>3
    <3>2. /\ D[g].size = C[g].size /\ (D[g].in_use <=> C[g].in_use)
          /\ D[g].next = C[g].next /\ D[g].bin_num = C[g].bin_num
      BY <1>1, <2>3, <3>1
    <3>3. C[g].bin_num = BinOf(C[g])
      BY <1>3, <3>1 DEF BinsRight
    <3>4. ~C[g].in_use /\ C[g].next # Invalid
            => C[C[g].next].in_use /\ C[g].next \in Live(C)
      BY <1>3, <1>4, <3>1 DEF BinsRight, NextIsFree
    <3>5. ~C[g].in_use /\ C[g].next # Invalid => D[C[g].next].in_use
      BY <1>5, <3>4
    <3>6. QED
      BY <3>2, <3>3, <3>5 DEF BinOf, NextIsFree
  <2>4. QED
    BY <2>1, <2>2, <2>3
<1>7. UsedRanges(D) = UsedRanges(C) \cup {RangeOf(C[h].ptr, n)}
  <2> DEFINE U == {g \in Live(C) : C[g].in_use}
             V == {g \in Live(D) : D[g].in_use}
  <2>1. V = U \cup {h} /\ h \notin U
    BY <1>1, <1>2, <1>3
  <2>2. \A g \in U : D[g].ptr = C[g].ptr /\ D[g].size = C[g].size
    BY <1>1, <1>2, <1>3
  <2>3. UsedRanges(C) = {[ptr |-> C[g].ptr, size |-> C[g].size] : g \in U}
    BY DEF UsedRanges
  <2>4. UsedRanges(D) = {[ptr |-> D[g].ptr, size |-> D[g].size] : g \in V}
    BY DEF UsedRanges
  <2> HIDE DEF U, V
  <2>5. QED
    BY <1>1, <2>1, <2>2, <2>3, <2>4 DEF RangeOf
<1>8. QED
  BY <1>6, <1>7 DEF BinsRight

(* A chunk that is taken whole. *)
LEMMA WholeTaken ==
    ASSUME NEW C, NEW F, NEW H, NEW R, Structure(C, F, H, R), BinsRight(C),
           NEW h \in Live(C), ~C[h].in_use, NEW D, D = TakenWhole(C, h)
    PROVE  /\ Structure(D, F, H, R)
           /\ BinsRight(D)
           /\ D[h].ptr = C[h].ptr /\ D[h].size = C[h].size
           /\ UsedRanges(D)
                = UsedRanges(C) \cup {RangeOf(C[h].ptr, C[h].size)}
<1> DEFINE N == Len(C)
<1>0. Chunks(C) /\ h \in 1..N
  BY DEF Structure, Live
<1>1. PICK y : y = OutOfBin(C[h])
  OBVIOUS
<1>2. /\ y \in Chunk /\ y.ptr = C[h].ptr /\ y.size = C[h].size
      /\ y.prev = C[h].prev /\ y.next = C[h].next
      /\ y.bin_num = NoBin
  BY <1>0, <1>1, NotInBin
<1>3. PICK E : E = Updated(C, h, y)
  OBVIOUS
<1>4. /\ Chunks(E) /\ SameShape(C, E) /\ E[h] = y
      /\ \A g \in 1..N : g # h => E[g] = C[g]
  BY <1>2, <1>0, <1>3, ChunkUpdated
<1>5. Structure(E, F, H, R) /\ Live(E) = Live(C) /\ h \in Live(E)
  BY <1>4, ShapeKeeps
<1>6. PICK z : z = MarkedUsed(E[h])
  OBVIOUS
<1>7. /\ z \in Chunk /\ z.ptr = E[h].ptr /\ z.size = E[h].size
      /\ z.prev = E[h].prev /\ z.next = E[h].next
      /\ z.bin_num = E[h].bin_num /\ z.in_use
  BY <1>4, <1>5, <1>6, UseMark
<1>8. D = Updated(E, h, z)
  BY <1>1, <1>3, <1>6 DEF TakenWhole
<1>9. /\ Chunks(D) /\ SameShape(E, D) /\ D[h] = z
      /\ \A g \in 1..Len(E) : g # h => D[g] = E[g]
  BY <1>4, <1>5, <1>7, <1>8, ChunkUpdated
<1>10. Structure(D, F, H, R) /\ Live(D) = Live(C)
  BY <1>5, <1>9, ShapeKeeps
<1>11. Len(E) = N
  BY <1>4 DEF SameShape
<1>12. /\ D[h].ptr = C[h].ptr /\ D[h].size = C[h].size
       /\ D[h].next = C[h].next
       /\ D[h].bin_num = NoBin /\ D[h].in_use
       /\ \A g \in 1..N : g # h => D[g] = C[g]
  BY <1>2, <1>4, <1>7, <1>9, <1>11
<1>13. /\ Live(C) \subseteq 1..N /\ BinsRight(C) /\ ~C[h].in_use
       /\ h \in Live(C)
  BY DEF Live
<1>14. \A g \in Live(C) : C[g].next # Invalid => C[g].next \in Live(C)
  BY DEF Structure, Placed
<1> HIDE DEF N
<1>15. ASSUME NEW g \in Live(D)
       PROVE  /\ D[g].bin_num = BinOf(D[g])
              /\ ~D[g].in_use => ~NextIsFree(D, g)
  <2>1. CASE g = h
    BY <1>12, <2>1 DEF BinOf
  <2>2. CASE g # h
    <3>1. g \in Live(C) /\ D[g] = C[g]
      BY <1>10, <1>12, <1>13, <2>2
    <3>2. C[g].bin_num = BinOf(C[g])
      BY <1>13, <3>1 DEF BinsRight
    <3>3. ~C[g].in_use /\ C[g].next # Invalid
            => C[C[g].next].in_use /\ C[g].next \in Live(C)
      BY <1>13, <1>14, <3>1 DEF BinsRight, NextIsFree
    <3>4. ~C[g].in_use /\ C[g].next # Invalid => D[C[g].next].in_use
      BY <1>12, <1>13, <3>3
    <3>5. QED
      BY <3>1, <3>2, <3>4 DEF NextIsFree
  <2>3. QED
    BY <2>1, <2>2
<1>16. UsedRanges(D) = UsedRanges(C) \cup {RangeOf(C[h].ptr, C[h].size)}
  <2> DEFINE U == {g \in Live(C) : C[g].in_use}
             V == {g \in Live(D) : D[g].in_use}
  <2>1. V = U \cup {h} /\ h \notin U
    BY <1>10, <1>12, <1>13
  <2>2. \A g \in U : D[g] = C[g]
    BY <1>12, <1>13
  <2>3. UsedRanges(C) = {[ptr |-> C[g].ptr, size |-> C[g].size] : g \in U}
    BY DEF UsedRanges
  <2>4. UsedRanges(D) = {[ptr |-> D[g].ptr, size |-> D[g].size] : g \in V}
    BY DEF UsedRanges
  <2> HIDE DEF U, V
  <2>5. QED
    BY <1>12, <2>1, <2>2, <2>3, <2>4 DEF RangeOf
<1>17. QED
  BY <1>10, <1>12, <1>15, <1>16 DEF BinsRight

-----------------------------------------------------------------------------
(* Finding a chunk. *)

(* The chunk found first is one that fits: by least bin, size and address. *)
LEMMA BestFits ==
    ASSUME NEW C, Chunks(C), NEW s, s.chunks = C, NEW n,
           FittingChunks(s, n) # {}
    PROVE  BestFit(s, n) \in FittingChunks(s, n)
<1> DEFINE T == FittingChunks(s, n)
           bins == {C[h].bin_num : h \in T}
<1>1. T \subseteq 1..Len(C)
  BY DEF FittingChunks, InBins
<1>2. \A h \in T : /\ C[h].bin_num \in Nat /\ C[h].size \in Nat
                   /\ C[h].ptr \in Nat
  BY <1>1, SizesAssumption, ChunkFields
<1>t. T # {}
  OBVIOUS
<1> HIDE DEF T
<1>3. PICK b \in bins : \A i \in bins : b <= i
  <2>1. bins \in SUBSET Nat /\ bins # {}
    BY <1>2, <1>t
  <2>2. QED
    BY <2>1, LeastElement
<1> DEFINE sizes == {C[h].size : h \in {g \in T : C[g].bin_num = b}}
<1>4. PICK z \in sizes : \A i \in sizes : z <= i
  <2>1. sizes \in SUBSET Nat /\ sizes # {}
    BY <1>2, <1>3
  <2>2. QED
    BY <2>1, LeastElement
<1> DEFINE ptrs == {C[h].ptr : h \in {g \in T : C[g].bin_num = b
                                                /\ C[g].size = z}}
<1>5. PICK p \in ptrs : \A i \in ptrs : p <= i
  <2>1. ptrs \in SUBSET Nat /\ ptrs # {}
    BY <1>2, <1>4
  <2>2. QED
    BY <2>1, LeastElement
<1>6. PICK h \in T : C[h].bin_num = b /\ C[h].size = z /\ C[h].ptr = p
  BY <1>5
<1>7. ASSUME NEW g \in T PROVE Before(s, h, g)
  <2>1. /\ b <= C[g].bin_num
        /\ C[g].bin_num = b => z <= C[g].size
        /\ C[g].bin_num = b /\ C[g].size = z => p <= C[g].ptr
    BY <1>3, <1>4, <1>5
  <2>2. b \in Nat /\ z \in Nat /\ p \in Nat
    BY <1>2, <1>6
  <2>3. C[g].bin_num \in Nat /\ C[g].size \in Nat /\ C[g].ptr \in Nat
    BY <1>2
  <2>4. QED
    BY <1>6, <2>1, <2>2, <2>3 DEF Before
<1>8. QED
  BY <1>6, <1>7 DEF BestFit, T

(* Which chunks fit: the free ones that are large enough. *)
LEMMA FitsAreFree ==
    ASSUME NEW C, Chunks(C), BinsRight(C), NEW s, s.chunks = C,
           NEW n \in Bytes
    PROVE  FittingChunks(s, n)
             = {h \in Live(C) : ~C[h].in_use /\ C[h].size >= n}
<1>0. MaxAllocationSize \in Nat /\ NumBins \in Nat \ {0}
  BY SizesAssumption
<1>1. BinNumForSize[n] \in 0..(NumBins - 1)
  BY Bins
<1>n. n \in Nat /\ n > 0
  BY <1>0 DEF Bytes
<1>2. ASSUME NEW h \in 1..Len(C)
      PROVE  h \in FittingChunks(s, n)
               <=> h \in Live(C) /\ ~C[h].in_use /\ C[h].size >= n
  <2>1. C[h].size \in Nat /\ C[h].size <= MaxAllocationSize
        /\ C[h].in_use \in BOOLEAN
    BY <1>0, ChunkFields
  <2>2. h \in FittingChunks(s, n)
          <=> /\ C[h].bin_num \in BinNumForSize[n]..(NumBins - 1)
              /\ C[h].size >= n
    BY DEF FittingChunks, InBins
  <2>3. CASE C[h].size < n
    BY <1>n, <2>1, <2>2, <2>3
  <2>4. CASE C[h].size >= n
    <3>1. h \in Live(C)
      BY <1>n, <2>1, <2>4 DEF Live
    <3>2. C[h].bin_num = BinOf(C[h])
      BY <3>1 DEF BinsRight
    <3>3. CASE C[h].in_use
      <4>1. C[h].bin_num = NumBins
        BY <3>2, <3>3 DEF BinOf, NoBin
      <4>2. QED
        BY <1>0, <1>1, <2>2, <3>3, <4>1
    <3>4. CASE ~C[h].in_use
      <4>1. C[h].size \in Bytes
        BY <1>n, <2>1, <2>4 DEF Bytes
      <4>2. /\ BinNumForSize[n] <= BinNumForSize[C[h].size]
            /\ BinNumForSize[C[h].size] \in 0..(NumBins - 1)
        BY <2>4, <4>1, Bins
      <4>3. C[h].bin_num = BinNumForSize[C[h].size]
        BY <3>2, <3>4 DEF BinOf
      <4>4. C[h].bin_num \in BinNumForSize[n]..(NumBins - 1)
        BY <1>0, <1>1, <4>2, <4>3
      <4>5. QED
        BY <2>2, <2>4, <3>1, <3>4, <4>4
    <3>5. QED
      BY <3>3, <3>4
  <2>5. QED
    BY <1>n, <2>1, <2>3, <2>4
<1>3. FittingChunks(s, n) \subseteq 1..Len(C) /\ Live(C) \subseteq 1..Len(C)
  BY DEF FittingChunks, InBins, Live
<1>4. QED
  BY <1>2, <1>3

(* A free chunk that is large enough is taken, whole or split. *)
LEMMA Taking ==
    ASSUME NEW C, NEW F, NEW H, NEW R, NEW c, NEW k, NEW b,
           Structure(C, F, H, R), BinsRight(C),
           NEW s, s = Bfc(C, F, H, R, c, k, b),
           NEW n \in Bytes, Granular(n),
           NEW h \in Live(C), ~C[h].in_use, C[h].size >= n
    PROVE  \E D, G, I, z :
             /\ TakeChunk(s, h, n) = Bfc(D, G, I, R, c, k, b)
             /\ Structure(D, G, I, R)
             /\ BinsRight(D)
             /\ D[h].ptr = C[h].ptr
             /\ D[h].size = z
             /\ UsedRanges(D) = UsedRanges(C) \cup {RangeOf(C[h].ptr, z)}
<1>0. /\ Chunks(C) /\ Spare(C, F) /\ h \in 1..Len(C) /\ C \in Seq(Chunk)
  BY DEF Structure, Chunks, Live
<1>1. /\ n \in Nat /\ n > 0 /\ C[h].size \in Nat
      /\ MaxFragmentation \in Nat \ {0}
  BY <1>0, SizesAssumption, ChunkFields DEF Bytes
<1>2. CASE TooLarge(C[h].size, n)
  <2> DEFINE D == TakenSplit(C, F, h, n)
             m == HandleOf(C, F)
             G == LessFree(F)
             I == WithHandle(H, C[h].ptr + n, m)
  <2>1. n < C[h].size
    BY <1>1, <1>2 DEF TooLarge
  <2>2. C[h].next # Invalid => C[h].next \in Live(C) /\ C[h].next # h
    BY Neighbours
  <2>3. Splits(C, D, h, m, n) /\ SpareBut(C, D, G, m)
    BY <1>0, <1>1, <2>1, <2>2, SplitFields
  <2>4. TakeChunk(s, h, n) = Bfc(D, G, I, R, c, k, b)
    BY <1>0, <1>2, ChunkTaken
  <2> HIDE DEF D, m, G
  <2>5. Structure(D, G, I, R) /\ Live(D) = Live(C) \cup {m}
    BY <1>1, <2>1, <2>3, SplitKeeps
  <2>6. /\ BinsRight(D)
        /\ UsedRanges(D) = UsedRanges(C) \cup {RangeOf(C[h].ptr, n)}
    BY <2>3, <2>5, SplitFlags
  <2>7. D[h].ptr = C[h].ptr /\ D[h].size = n
    BY <2>3 DEF Splits
  <2> HIDE DEF I
  <2>8. QED
    BY <2>4, <2>5, <2>6, <2>7
<1>3. CASE ~TooLarge(C[h].size, n)
  <2> DEFINE D == TakenWhole(C, h)
  <2>1. TakeChunk(s, h, n) = Bfc(D, F, H, R, c, k, b)
    BY <1>0, <1>3, ChunkTaken
  <2>2. /\ Structure(D, F, H, R) /\ BinsRight(D)
        /\ D[h].ptr = C[h].ptr /\ D[h].size = C[h].size
        /\ UsedRanges(D)
             = UsedRanges(C) \cup {RangeOf(C[h].ptr, C[h].size)}
    BY WholeTaken
  <2> HIDE DEF D
  <2>3. QED
    BY <2>1, <2>2
<1>4. QED
  BY <1>2, <1>3

-----------------------------------------------------------------------------
(* The sizes of regions and requests. *)

(* A size that a region or a chunk may have. *)
Good(n) == n \in Bytes /\ Granular(n)

\* The largest allocation is a good region size.
LEMMA GoodMax == Good(MaxAllocationSize) /\ MaxAllocationSize \in Nat \ {0}
BY SizesAssumption DEF Good, Bytes, Granular

\* A granular request, capped at the largest allocation, is a good size.
LEMMA GoodMin ==
    ASSUME NEW n, Granular(n), n # 0
    PROVE  /\ Good(MinOf(n, MaxAllocationSize))
           /\ \A k \in Bytes : k <= n => k <= MinOf(n, MaxAllocationSize)
<1>1. n \in Nat
  BY DEF Granular
<1>2. CASE n < MaxAllocationSize
  BY <1>1, <1>2, GoodMax DEF MinOf, Good, Bytes
<1>3. CASE ~(n < MaxAllocationSize)
  BY <1>1, <1>3, GoodMax DEF MinOf, Good, Bytes
<1>4. QED
  BY <1>2, <1>3

(* A request is rounded to a size that a chunk may have. *)
LEMMA RoundedGood ==
    ASSUME NEW n \in Nat, n # 0, n <= MaxAllocationSize
    PROVE  Good(RoundedBytes(n)) /\ RoundedBytes(n) >= n
<1>1. /\ RoundedBytes(n) \in Nat /\ RoundedBytes(n) >= n
      /\ RoundedBytes(n) % MinAllocationSize = 0
      /\ \A k \in Nat : k % MinAllocationSize = 0 /\ n <= k
                           => RoundedBytes(n) <= k
  BY Rounding
<1>2. RoundedBytes(n) <= MaxAllocationSize
  BY <1>1, GoodMax, SizesAssumption
<1>3. QED
  BY <1>1, <1>2, GoodMax DEF Good, Granular, Bytes

\* Doubling the region size, capped at the largest, keeps it good.
LEMMA GoodExtended ==
    ASSUME NEW s, NEW c, s.curr_region = c, Good(c), NEW n, Good(n)
    PROVE  /\ Good(ExtendedRegion(s, n))
           /\ ExtendedRegion(s, n) >= n
           /\ Good(NextRegion(s, n))
<1>1. c \in Nat \ {0} /\ n \in Nat /\ n \in Bytes
  BY GoodMax DEF Good, Bytes
<1>2. PICK d : d = Doubled(c, n)
  OBVIOUS
<1>3. d \in Nat \ {0} /\ d >= n /\ Granular(d)
  BY <1>1, <1>2, Doubling DEF Good
<1>4. PICK e : e = MinOf(d, MaxAllocationSize)
  OBVIOUS
<1>5. Good(e) /\ e >= n
  <2>1. e \in Nat /\ Good(e) /\ n <= e
    BY <1>1, <1>3, <1>4, GoodMin, GoodMax DEF Good, Bytes
  <2>2. QED
    BY <1>1, <2>1
<1>6. ExtendedRegion(s, n) = e
  BY <1>2, <1>4 DEF ExtendedRegion
<1>7. Granular(e * 2) /\ e * 2 # 0
  <2>1. e \in Nat \ {0}
    BY <1>5, GoodMax DEF Good, Bytes
  <2>2. Granular(e) /\ 2 \in Nat
    BY <1>5 DEF Good
  <2>3. Granular(e * 2)
    BY <2>2, GranularTimes
  <2>4. QED
    BY <2>1, <2>3
<1>8. Good(MinOf(e * 2, MaxAllocationSize))
  BY <1>7, GoodMin
<1>9. QED
  BY <1>5, <1>6, <1>8 DEF NextRegion

(* No request is limited by memory_limit_. *)
LEMMA Available ==
    ASSUME NEW s, NEW n, s.total = n, n \in Nat, n <= DescriptorMemory
    PROVE  /\ AvailableBytes(s) \in Nat
           /\ AvailableBytes(s) >= MaxAllocationSize
<1> DEFINE M == MinAllocationSize
           L == MaxAllocationSize
           a == MemoryLimit - n
           q == a \div M
           r == a % M
           j == L \div M
<1>1. M \in Nat \ {0} /\ L \in Nat /\ a \in Nat /\ a >= L /\ L % M = 0
  BY SizesAssumption, DescriptorsAssumption
<1>2. AvailableBytes(s) = q * M
  BY DEF AvailableBytes
<1> HIDE DEF M, L, a
<1>3. q \in Nat /\ r \in 0..(M - 1) /\ a = M * q + r /\ M * q \in Nat
  BY <1>1
<1>4. j \in Nat /\ L = M * j
  BY <1>1
<1> HIDE DEF q, r, j
<1>5. q * M = M * q
  BY <1>1, <1>3
<1>6. M * q >= L
  <2> SUFFICES ASSUME j >= q + 1 PROVE FALSE
    BY <1>1, <1>3, <1>4
  <2>1. M * j >= M * (q + 1) /\ M * (q + 1) = M * q + M
    BY <1>1, <1>3, <1>4
  <2>2. QED
    BY <1>1, <1>3, <1>4, <2>1
<1>7. QED
  BY <1>2, <1>3, <1>5, <1>6 DEF L

\* Within the memory limit the new region is as large as Extend asks for.
LEMMA GoodBytes ==
    ASSUME NEW s, NEW c, s.curr_region = c, Good(c), NEW n, Good(n),
           NEW k, s.total = k, k \in Nat, k <= DescriptorMemory
    PROVE  /\ BytesToExtend(s, n) = ExtendedRegion(s, n)
           /\ Good(BytesToExtend(s, n))
           /\ BytesToExtend(s, n) >= n
<1>1. /\ Good(ExtendedRegion(s, n)) /\ ExtendedRegion(s, n) >= n
  BY GoodExtended
<1>2. /\ AvailableBytes(s) \in Nat
      /\ AvailableBytes(s) >= MaxAllocationSize
  BY Available
<1>3. PICK e : e = ExtendedRegion(s, n)
  OBVIOUS
<1>4. e \in Nat /\ e <= MaxAllocationSize
  BY <1>1, <1>3, GoodMax DEF Good, Bytes
<1>5. BytesToExtend(s, n) = e
  <2>1. MinOf(e, AvailableBytes(s)) = e
    BY <1>2, <1>4, GoodMax DEF MinOf
  <2>2. QED
    BY <1>3, <2>1 DEF BytesToExtend
<1>6. QED
  BY <1>1, <1>3, <1>5

\* The sizes tried after a failed extension are good.
LEMMA GoodBackpedal ==
    ASSUME NEW k, Good(k)
    PROVE  /\ Backpedal(k) \in Nat /\ Backpedal(k) <= k
           /\ Granular(Backpedal(k))
           /\ \A n \in Bytes : Backpedal(k) >= n => Good(Backpedal(k))
<1>1. k \in Nat \ {0} /\ k <= MaxAllocationSize /\ k % MinAllocationSize = 0
  BY GoodMax DEF Good, Bytes, Granular
<1>2. PICK m \in Nat : m = (k * 9) \div 10 /\ m <= k
  BY <1>1
<1>3. /\ RoundedBytes(m) \in Nat /\ RoundedBytes(m) <= k
      /\ RoundedBytes(m) % MinAllocationSize = 0
  BY <1>1, <1>2, Rounding
<1>4. Backpedal(k) = RoundedBytes(m)
  BY <1>2 DEF Backpedal
<1>5. QED
  BY <1>1, <1>3, <1>4, GoodMax DEF Good, Bytes, Granular

\* The region size the allocator starts from is good.
LEMMA GoodInitial == Good(EmptyAllocator.curr_region)
<1> DEFINE m == MinOf(MemoryLimit, InitialRegionSize)
           r == RoundedBytes(m)
<1>1. m \in Nat \ {0}
  BY SizesAssumption DEF MinOf
<1> HIDE DEF m
<1>2. r \in Nat /\ r >= m /\ r % MinAllocationSize = 0
  BY <1>1, Rounding
<1> HIDE DEF r
<1>3. Granular(r) /\ r # 0
  BY <1>1, <1>2 DEF Granular
<1>4. EmptyAllocator.curr_region = MinOf(r, MaxAllocationSize)
  BY DEF EmptyAllocator, r, m
<1>5. QED
  BY <1>3, <1>4, GoodMin

-----------------------------------------------------------------------------
(* The allocator as a whole. *)

AsBfc(s) ==
    Bfc(s.chunks, s.free_list, s.handles, s.regions, s.curr_region, s.total,
        s.started_backpedal)

(* The state of the allocator between two critical sections. *)
Sound(s) ==
    /\ s = AsBfc(s)
    /\ Structure(s.chunks, s.free_list, s.handles, s.regions)
    /\ BinsRight(s.chunks)
    /\ Good(s.curr_region)
    /\ s.total \in Nat
    /\ s.total <= DescriptorMemory
    /\ s.total = TotalSize(s.regions)

Used(s) == UsedRanges(s.chunks)

(* What the fields of a sound allocator are, by name. *)
LEMMA SoundFields ==
    ASSUME NEW C, NEW F, NEW H, NEW R, NEW c, NEW n, NEW b, NEW s,
           s = Bfc(C, F, H, R, c, n, b)
    PROVE  /\ Sound(s) <=> /\ Structure(C, F, H, R)
                           /\ BinsRight(C)
                           /\ Good(c)
                           /\ n \in Nat /\ n <= DescriptorMemory
                           /\ n = TotalSize(R)
           /\ Used(s) = UsedRanges(C)
           /\ s.total = n
           /\ s.chunks = C
<1>1. /\ s.chunks = C /\ s.free_list = F /\ s.handles = H
      /\ s.regions = R /\ s.curr_region = c /\ s.total = n
      /\ s.started_backpedal = b
  BY Fields
<1>2. s = AsBfc(s)
  BY <1>1 DEF AsBfc
<1>3. QED
  BY <1>1, <1>2 DEF Sound, Used

(* The ranges in use are known by their addresses, and do not overlap. *)
LEMMA UsedApart ==
    ASSUME NEW s, Sound(s)
    PROVE  /\ \A r \in Used(s) : r.ptr \in Nat \ {0} /\ r.size \in Nat \ {0}
           /\ \A r, q \in Used(s) : \/ r = q
                                    \/ r.ptr + r.size <= q.ptr
                                    \/ q.ptr + q.size <= r.ptr
<1> DEFINE C == s.chunks
           R == s.regions
<1>1. /\ Structure(C, s.free_list, s.handles, R) /\ Chunks(C) /\ Disjoint(C)
      /\ Regions(R)
  BY DEF Sound, Structure
<1>2. ASSUME NEW h \in Live(C)
      PROVE  C[h].ptr \in Nat \ {0} /\ C[h].size \in Nat \ {0}
  <2>1. h \in 1..Len(C) /\ C[h].size > 0
    BY DEF Live
  <2>2. C[h].ptr \in Nat /\ C[h].size \in Nat \ {0}
    BY <1>1, <2>1, SizesAssumption, ChunkFields
  <2>3. Placed(C, R, h)
    BY <1>1 DEF Structure
  <2>4. PICK k : k = RegionOf(C[h].ptr)
    OBVIOUS
  <2>5. k \in 1..Len(R) /\ R[k].ptr <= C[h].ptr
    BY <2>3, <2>4 DEF Placed
  <2>6. R[k].ptr = k * RegionStride /\ k \in Nat \ {0}
    BY <1>1, <2>5, RegionFields DEF Regions
  <2>7. RegionStride \in Nat \ {0}
    BY SizesAssumption
  <2>8. k * RegionStride \in Nat \ {0}
    BY <2>6, <2>7
  <2>9. QED
    BY <2>2, <2>5, <2>6, <2>8
<1>3. ASSUME NEW r \in Used(s)
      PROVE  \E h \in Live(C) : r = [ptr |-> C[h].ptr, size |-> C[h].size]
  BY DEF Used, UsedRanges
<1> HIDE DEF C, R
<1>4. \A r \in Used(s) : r.ptr \in Nat \ {0} /\ r.size \in Nat \ {0}
  BY <1>2, <1>3
<1>5. ASSUME NEW r \in Used(s), NEW q \in Used(s)
      PROVE  \/ r = q
             \/ r.ptr + r.size <= q.ptr
             \/ q.ptr + q.size <= r.ptr
  <2>1. PICK g \in Live(C) : r = [ptr |-> C[g].ptr, size |-> C[g].size]
    BY <1>3
  <2>2. PICK h \in Live(C) : q = [ptr |-> C[h].ptr, size |-> C[h].size]
    BY <1>3
  <2>3. g = h \/ End(C[g]) <= C[h].ptr \/ End(C[h]) <= C[g].ptr
    BY <1>1 DEF Disjoint
  <2>4. QED
    BY <2>1, <2>2, <2>3 DEF End
<1>6. QED
  BY <1>4, <1>5

(* Only the size of the next region, or the flag of the backpedal, changed. *)
Resized(s, e) == [s EXCEPT !.curr_region = e]
Backpedaling(s, e) ==
    [s EXCEPT !.started_backpedal = TRUE, !.curr_region = e]

\* Changing only the next region size keeps the allocator sound.
LEMMA SoundResized ==
    ASSUME NEW s, Sound(s), NEW e, Good(e),
           NEW t, t = Resized(s, e) \/ t = Backpedaling(s, e)
    PROVE  /\ Sound(t) /\ t.chunks = s.chunks /\ t.total = s.total
<1> DEFINE C == s.chunks
           F == s.free_list
           H == s.handles
           R == s.regions
           c == s.curr_region
           n == s.total
           b == s.started_backpedal
<1>1. s = Bfc(C, F, H, R, c, n, b)
  BY DEF Sound, AsBfc
<1>2. /\ Structure(C, F, H, R) /\ BinsRight(C) /\ n \in Nat
      /\ n <= DescriptorMemory /\ n = TotalSize(R)
  BY DEF Sound
<1>3. s.chunks = C /\ s.total = n
  OBVIOUS
<1> HIDE DEF C, F, H, R, c, n, b
<1>4. Resized(s, e) = Bfc(C, F, H, R, e, n, b)
  BY <1>1 DEF Bfc, Resized
<1>5. PICK d : d = TRUE
  OBVIOUS
<1>6. [s EXCEPT !.started_backpedal = d] = Bfc(C, F, H, R, c, n, d)
  BY <1>1 DEF Bfc
<1>7. [Bfc(C, F, H, R, c, n, d) EXCEPT !.curr_region = e]
        = Bfc(C, F, H, R, e, n, d)
  BY DEF Bfc
<1>8. Backpedaling(s, e) = Bfc(C, F, H, R, e, n, d)
  BY <1>5, <1>6, <1>7, Zenon DEF Backpedaling
<1>9. PICK f : t = Bfc(C, F, H, R, e, n, f)
  BY <1>4, <1>8
<1>10. Sound(t) /\ t.chunks = C /\ t.total = n
  BY <1>2, <1>9, SoundFields
<1>11. QED
  BY <1>3, <1>10

(* A request takes a chunk h of allocator s, and is given what is in c. *)
Takes(s, n, h, t, c) ==
    /\ h = BestFit(s, n)
    /\ t = TakeChunk(s, h, n)
    /\ c = t.chunks[h]

\* Taking a chunk keeps the allocator sound and adds one used range.
LEMMA SoundTakes ==
    ASSUME NEW s, Sound(s), NEW n, Good(n), FittingChunks(s, n) # {},
           NEW h, NEW t, NEW c, Takes(s, n, h, t, c)
    PROVE  /\ Sound(t) /\ t.total = s.total
           /\ Used(t) = Used(s) \cup {RangeOf(c.ptr, c.size)}
           /\ \A r \in Used(s) : r.ptr # c.ptr
<1> DEFINE C == s.chunks
           F == s.free_list
           H == s.handles
           R == s.regions
           e == s.curr_region
           k == s.total
           b == s.started_backpedal
<1>1. s = Bfc(C, F, H, R, e, k, b)
  BY DEF Sound, AsBfc
<1>2. /\ Structure(C, F, H, R) /\ BinsRight(C) /\ Good(e) /\ k \in Nat
      /\ k <= DescriptorMemory /\ k = TotalSize(R)
  BY DEF Sound
<1>3. Chunks(C) /\ Indexed(C, H)
  BY <1>2 DEF Structure
<1>4. n \in Bytes /\ Granular(n)
  BY DEF Good
<1>5. h \in FittingChunks(s, n)
  BY <1>3, BestFits DEF Takes
<1>6. h \in Live(C) /\ ~C[h].in_use /\ C[h].size >= n
  BY <1>2, <1>3, <1>4, <1>5, FitsAreFree
<1>s. s.total = k /\ Used(s) = UsedRanges(C)
  BY DEF Used
<1> HIDE DEF C, F, H, R, e, k, b
<1>7. PICK D, G, I, z :
             /\ TakeChunk(s, h, n) = Bfc(D, G, I, R, e, k, b)
             /\ Structure(D, G, I, R)
             /\ BinsRight(D)
             /\ D[h].ptr = C[h].ptr
             /\ D[h].size = z
             /\ UsedRanges(D) = UsedRanges(C) \cup {RangeOf(C[h].ptr, z)}
  BY <1>1, <1>2, <1>4, <1>6, Taking
<1>8. t = Bfc(D, G, I, R, e, k, b)
  BY <1>7 DEF Takes
<1>9. Sound(t) /\ t.total = k /\ t.chunks = D /\ Used(t) = UsedRanges(D)
  BY <1>2, <1>7, <1>8, SoundFields
<1>10. c.ptr = C[h].ptr /\ c.size = z
  BY <1>7, <1>9 DEF Takes
<1>11. ASSUME NEW r \in UsedRanges(C) PROVE r.ptr # C[h].ptr
  <2>1. PICK g \in Live(C) : C[g].in_use /\ r.ptr = C[g].ptr
    BY DEF UsedRanges
  <2>2. C[g].ptr = C[h].ptr => g = h
    BY <1>3, <1>6 DEF Indexed
  <2>3. QED
    BY <1>6, <2>1, <2>2
<1>12. QED
  BY <1>7, <1>9, <1>10, <1>11, <1>s

(* A region is added for a request, which then finds a chunk. *)
LEMMA SoundExtends ==
    ASSUME NEW s, Sound(s), NEW n, Good(n), NEW k, Good(k), n <= k,
           s.total + k <= DescriptorMemory, NEW t, t = AddRegion(s, n, k)
    PROVE  /\ Sound(t)
           /\ Used(t) = Used(s)
           /\ FittingChunks(t, n) # {}
<1> DEFINE C == s.chunks
           F == s.free_list
           H == s.handles
           R == s.regions
           e == s.curr_region
           m == s.total
           b == s.started_backpedal
<1>1. s = Bfc(C, F, H, R, e, m, b)
  BY DEF Sound, AsBfc
<1>2. /\ Structure(C, F, H, R) /\ BinsRight(C) /\ Good(e) /\ m \in Nat
      /\ m + k <= DescriptorMemory /\ m = TotalSize(R)
  BY DEF Sound
<1>s. s.curr_region = e /\ Used(s) = UsedRanges(C)
  BY DEF Used
<1>3. k \in Bytes /\ Granular(k) /\ n \in Bytes /\ k \in Nat /\ k # 0
      /\ n \in Nat
  BY GoodMax DEF Good, Bytes
<1>4. Good(NextRegion(s, n))
  BY <1>2, <1>s, GoodExtended
<1>5. R \in Seq(Region) /\ \A x \in Region : x.size \in Nat
  BY <1>2, GoodMax DEF Structure, Regions, Region, Bytes
<1> HIDE DEF C, F, H, R, e, m, b
<1>6. PICK D, G, I, p :
             /\ AddRegion(s, n, k)
                  = Bfc(D, G, I, WithRegion(R, p, k), NextRegion(s, n),
                        m + k, b)
             /\ p \in Nat
             /\ Structure(D, G, I, WithRegion(R, p, k))
             /\ BinsRight(D)
             /\ UsedRanges(D) = UsedRanges(C)
             /\ \E h \in Live(D) : ~D[h].in_use /\ D[h].size = k
  BY <1>1, <1>2, <1>3, AddingRegion
<1>7. TotalSize(WithRegion(R, p, k)) = m + k
  <2> DEFINE r == [ptr |-> p, size |-> k]
  <2>1. r \in Region /\ r.size = k
    BY <1>3, <1>6 DEF Region
  <2> HIDE DEF r
  <2>2. TotalSize(Append(R, r)) = TotalSize(R) + r.size
    BY <1>5, <2>1, TotalSizeGrows
  <2>3. QED
    BY <1>2, <2>1, <2>2 DEF WithRegion, r
<1>8. PICK Q, f : /\ t = Bfc(D, G, I, Q, f, m + k, b)
                  /\ Structure(D, G, I, Q) /\ Good(f)
                  /\ TotalSize(Q) = m + k
  BY <1>4, <1>6, <1>7
<1>9. m + k \in Nat
  BY <1>2, <1>3
<1>10. Sound(t) /\ t.chunks = D /\ Used(t) = UsedRanges(D)
  BY <1>2, <1>6, <1>8, <1>9, SoundFields
<1>11. FittingChunks(t, n) = {h \in Live(D) : ~D[h].in_use /\ D[h].size >= n}
  <2>1. Chunks(D)
    BY <1>8 DEF Structure
  <2>2. QED
    BY <1>3, <1>6, <1>10, <2>1, FitsAreFree
<1>12. FittingChunks(t, n) # {}
  <2>1. PICK h \in Live(D) : ~D[h].in_use /\ D[h].size = k
    BY <1>6
  <2>2. D[h].size >= n
    BY <1>3, <2>1
  <2>3. QED
    BY <1>11, <2>1, <2>2
<1>13. QED
  BY <1>6, <1>10, <1>12, <1>s

(* A range in use is released. *)
LEMMA SoundFrees ==
    ASSUME NEW s, Sound(s), NEW r \in Used(s), NEW p, p = r.ptr,
           NEW t, t = FreeChunk(s, p)
    PROVE  /\ Sound(t) /\ t.total = s.total
           /\ Used(t) = {q \in Used(s) : q.ptr # p}
<1> DEFINE C == s.chunks
           F == s.free_list
           H == s.handles
           R == s.regions
           e == s.curr_region
           m == s.total
           b == s.started_backpedal
<1>1. s = Bfc(C, F, H, R, e, m, b)
  BY DEF Sound, AsBfc
<1>2. /\ Structure(C, F, H, R) /\ BinsRight(C) /\ Good(e) /\ m \in Nat
      /\ m <= DescriptorMemory /\ m = TotalSize(R)
  BY DEF Sound
<1>s. s.total = m /\ Used(s) = UsedRanges(C)
  BY DEF Used
<1> HIDE DEF C, F, H, R, e, m, b
<1>3. PICK h \in Live(C) : C[h].in_use /\ p = C[h].ptr
  BY <1>s DEF UsedRanges
<1>4. PICK D, G, I :
             /\ FreeChunk(Bfc(C, F, H, R, e, m, b), C[h].ptr)
                  = Bfc(D, G, I, R, e, m, b)
             /\ Structure(D, G, I, R)
             /\ BinsRight(D)
             /\ UsedRanges(D) = {q \in UsedRanges(C) : q.ptr # C[h].ptr}
  BY <1>2, <1>3, Freeing
<1>5. t = Bfc(D, G, I, R, e, m, b)
  BY <1>1, <1>3, <1>4
<1>6. Sound(t) /\ t.total = m /\ Used(t) = UsedRanges(D)
  BY <1>2, <1>4, <1>5, SoundFields
<1>7. QED
  BY <1>3, <1>4, <1>6, <1>s

-----------------------------------------------------------------------------
(* The invariant of DescriptorAllocator. *)

HeldRange(r) == [ptr |-> r.ptr, size |-> r.size, memory |-> r.ptr]

(* The ranges held are the ones in use. *)
HeldInv == held = {HeldRange(r) : r \in Used(bfc)}

InUse(p) == \E r \in Used(bfc) : r.ptr = p

Owns(t) == pc[t] \in {"bind", "enqueue", "release"}

(* Every address that will be released is in use, and has one owner: a      *)
(* thread, a queued callback or a callback that runs.  The GPU works only   *)
(* with those of queued callbacks, or of threads about to queue them.       *)
OwnersInv ==
    /\ \A t \in Threads : Owns(t) => /\ InUse(block[t])
                                     /\ block[t] \notin callbacks
                                     /\ block[t] \notin batch
    /\ \A t, u \in Threads : Owns(t) /\ Owns(u) /\ block[t] = block[u]
                                => t = u
    /\ \A p \in callbacks : InUse(p) /\ p \notin batch
    /\ \A p \in batch : InUse(p)
    /\ \A i \in 1..Len(gpu) :
          \/ gpu[i] \in callbacks
          \/ \E t \in Threads : pc[t] = "enqueue" /\ block[t] = gpu[i]

Requesting(t) == pc[t] \in {"attempt", "backpedal", "failed", "waiting"}

NoMemory == bfc.total + MaxAllocationSize > DescriptorMemory

(* What a thread that allocates has found out so far. *)
RequestInv(t) ==
    /\ Requesting(t) => size[t] \in Sizes
    /\ attempt[t] = "last" => deadline[t] = "passed"
    /\ pc[t] = "backpedal" =>
          /\ lock = t
          /\ size[t] <= MaxAllocationSize
          /\ Good(bytes[t])
          /\ NothingFits(t)
          /\ NoMemory

RequestsInv == \A t \in Threads : RequestInv(t)

CallTypes ==
    /\ size \in [Threads -> Nat]
    /\ bytes \in [Threads -> Nat]
    /\ block \in [Threads -> Nat]
    /\ gpu \in Seq(Nat)

IInv ==
    /\ TypeOK
    /\ CallTypes
    /\ Sound(bfc)
    /\ HeldInv
    /\ OwnersInv
    /\ RequestsInv

(* A step that leaves the ranges and their owners alone. *)
LEMMA OwnersKept ==
    ASSUME OwnersInv, Used(bfc') = Used(bfc),
           UNCHANGED <<block, callbacks, batch, gpu>>,
           \A u \in Threads : /\ Owns(u)' => Owns(u)
                              /\ pc[u] = "enqueue" => pc'[u] = "enqueue"
    PROVE  OwnersInv'
<1>1. \A p : InUse(p)' <=> InUse(p)
  BY DEF InUse
<1>2. QED
  BY <1>1 DEF OwnersInv

(* Only one thread is in the backpedal loop, and no other one allocates. *)
LEMMA BackpedalAlone ==
    ASSUME RequestsInv, NEW t \in Threads, NEW u \in Threads,
           lock = NoOne \/ pc[t] = "backpedal", pc[u] = "backpedal"
    PROVE  u = t
BY DescriptorsAssumption DEF RequestsInv, RequestInv

(* A step that does not concern the request of thread u. *)
LEMMA RequestKept ==
    ASSUME NEW u \in Threads, RequestInv(u),
           size'[u] = size[u], attempt'[u] = attempt[u],
           deadline'[u] = deadline[u] \/ attempt[u] # "last",
           \/ pc'[u] = pc[u]
           \/ pc[u] = "waiting" /\ pc'[u] = "attempt"
           \/ pc'[u] \notin {"attempt", "backpedal", "failed", "waiting"},
           pc[u] = "backpedal" => /\ bfc'.chunks = bfc.chunks
                                  /\ bfc'.total = bfc.total
                                  /\ lock' = lock
                                  /\ bytes'[u] = bytes[u]
    PROVE  RequestInv(u)'
<1>1. pc'[u] = "backpedal" => pc[u] = "backpedal"
  OBVIOUS
<1>2. Requesting(u)' => Requesting(u)
  BY DEF Requesting
<1>3. pc[u] = "backpedal" /\ NothingFits(u) => NothingFits(u)'
  BY DEF NothingFits, FittingChunks, InBins, Rounded
<1>4. pc[u] = "backpedal" /\ NoMemory => NoMemory'
  BY DEF NoMemory
<1>5. QED
  BY <1>1, <1>2, <1>3, <1>4 DEF RequestInv

(* Thread t is given the range of size z at address p. *)
Granted(t, p, z) ==
    /\ Sound(bfc')
    /\ Used(bfc') = Used(bfc) \cup {RangeOf(p, z)}
    /\ \A r \in Used(bfc) : r.ptr # p
    /\ held' = held \cup {[ptr |-> p, size |-> z, memory |-> p]}
    /\ block' = [block EXCEPT ![t] = p]
    /\ pc' = [pc EXCEPT ![t] = "bind"]
    /\ size' = [size EXCEPT ![t] = 0]
    /\ attempt' = [attempt EXCEPT ![t] = "first"]
    /\ deadline' = [deadline EXCEPT ![t] = "none"]
    /\ bytes' = [bytes EXCEPT ![t] = 0]

\* A call that returns with a range records it for its thread.
LEMMA ReturnGrants ==
    ASSUME NEW t, NEW s, Sound(s), Used(s) = Used(bfc),
           NEW n, n = Rounded(t), Good(n), FittingChunks(s, n) # {},
           Return(t, s)
    PROVE  \E p, z : Granted(t, p, z)
<1> DEFINE Given(u, c) ==
             /\ bfc' = u
             /\ held' = held \cup {[ptr |-> c.ptr, size |-> c.size,
                                    memory |-> c.ptr]}
             /\ block' = [block EXCEPT ![t] = c.ptr]
             /\ pc' = [pc EXCEPT ![t] = "bind"]
             /\ size' = [size EXCEPT ![t] = 0]
             /\ attempt' = [attempt EXCEPT ![t] = "first"]
             /\ deadline' = [deadline EXCEPT ![t] = "none"]
             /\ bytes' = [bytes EXCEPT ![t] = 0]
<1>g. \E h \in {BestFit(s, Rounded(t))} :
        \E taken \in {TakeChunk(s, h, Rounded(t))} :
            \E c \in {taken.chunks[h]} : Given(taken, c)
  BY Zenon DEF Return
<1> HIDE DEF Given
<1>1. PICK h, taken, c : /\ h = BestFit(s, Rounded(t))
                         /\ taken = TakeChunk(s, h, Rounded(t))
                         /\ c = taken.chunks[h]
                         /\ Given(taken, c)
  BY <1>g
<1>2. Takes(s, n, h, taken, c)
  BY <1>1 DEF Takes
<1>3. /\ Sound(taken)
      /\ Used(taken) = Used(s) \cup {RangeOf(c.ptr, c.size)}
      /\ \A r \in Used(s) : r.ptr # c.ptr
  BY <1>2, SoundTakes
<1>4. Granted(t, c.ptr, c.size)
  BY <1>1, <1>3, Zenon DEF Granted, Given
<1>5. QED
  BY <1>4

(* The invariant after a range was given to a thread. *)
LEMMA GrantedKeeps ==
    ASSUME IInv, NEW t \in Threads, NEW p, NEW z, Granted(t, p, z),
           pc[t] \in {"attempt", "backpedal"},
           lock = NoOne \/ pc[t] = "backpedal", lock' \in {lock, NoOne},
           UNCHANGED <<queueVars, gpu>>
    PROVE  IInv'
<1>0. /\ pc \in [Actors -> {"idle", "attempt", "backpedal", "failed",
                            "waiting", "bind", "enqueue", "release",
                            "notify"}]
      /\ t \in Actors
      /\ attempt \in [Threads -> {"first", "retry", "last"}]
      /\ deadline \in [Threads -> {"none", "set", "passed"}]
      /\ lock \in Threads \cup {NoOne}
      /\ queue_mutex \in Actors \cup {NoOne}
      /\ CallTypes /\ HeldInv /\ OwnersInv /\ RequestsInv
      /\ Threads \subseteq Actors
  BY DEF IInv, TypeOK, Actors
<1>1. /\ Sound(bfc')
      /\ Used(bfc') = Used(bfc) \cup {RangeOf(p, z)}
      /\ \A r \in Used(bfc) : r.ptr # p
      /\ held' = held \cup {[ptr |-> p, size |-> z, memory |-> p]}
      /\ block' = [block EXCEPT ![t] = p]
      /\ pc' = [pc EXCEPT ![t] = "bind"]
      /\ size' = [size EXCEPT ![t] = 0]
      /\ attempt' = [attempt EXCEPT ![t] = "first"]
      /\ deadline' = [deadline EXCEPT ![t] = "none"]
      /\ bytes' = [bytes EXCEPT ![t] = 0]
      /\ UNCHANGED <<callbacks, batch, queue_mutex, gpu>>
  BY DEF Granted, queueVars
<1>2. p \in Nat
  <2>1. RangeOf(p, z) \in Used(bfc') /\ RangeOf(p, z).ptr = p
    BY <1>1 DEF RangeOf
  <2>2. QED
    BY <1>1, <2>1, UsedApart
<1>3. TypeOK'
  BY <1>0, <1>1 DEF TypeOK
<1>4. CallTypes'
  BY <1>0, <1>1, <1>2 DEF CallTypes
<1>5. HeldInv'
  <2>1. HeldRange(RangeOf(p, z)) = [ptr |-> p, size |-> z, memory |-> p]
    BY DEF HeldRange, RangeOf
  <2>2. QED
    BY <1>0, <1>1, <2>1 DEF HeldInv
<1>6. OwnersInv'
  <2>1. InUse(p)' /\ ~InUse(p) /\ \A q : InUse(q) => InUse(q)'
    <3>1. RangeOf(p, z).ptr = p
      BY DEF RangeOf
    <3>2. QED
      BY <1>1, <3>1 DEF InUse
  <2>2. Owns(t)' /\ block'[t] = p /\ ~(pc[t] = "enqueue")
    BY <1>0, <1>1 DEF Owns, CallTypes
  <2>3. \A u \in Threads : u # t => /\ block'[u] = block[u]
                                    /\ pc'[u] = pc[u]
                                    /\ Owns(u)' <=> Owns(u)
    BY <1>0, <1>1 DEF CallTypes, Owns
  <2>4. ASSUME NEW u \in Threads, Owns(u)'
        PROVE  /\ InUse(block[u])'
               /\ block'[u] \notin callbacks' /\ block'[u] \notin batch'
    <3>1. CASE u = t
      BY <1>0, <1>1, <2>1, <2>2, <3>1 DEF OwnersInv
    <3>2. CASE u # t
      BY <1>0, <1>1, <2>1, <2>3, <2>4, <3>2 DEF OwnersInv
    <3>3. QED
      BY <3>1, <3>2
  <2>5. ASSUME NEW u \in Threads, NEW v \in Threads, Owns(u)', Owns(v)',
               block'[u] = block'[v]
        PROVE  u = v
    BY <1>0, <2>1, <2>2, <2>3, <2>5 DEF OwnersInv
  <2>6. ASSUME NEW i \in 1..Len(gpu')
        PROVE  \/ gpu'[i] \in callbacks'
               \/ \E u \in Threads : pc'[u] = "enqueue" /\ block'[u] = gpu'[i]
    BY <1>0, <1>1, <2>2, <2>3 DEF OwnersInv
  <2>7. \A q \in callbacks' : InUse(q)' /\ q \notin batch'
    BY <1>0, <1>1, <2>1 DEF OwnersInv
  <2>8. \A q \in batch' : InUse(q)'
    BY <1>0, <1>1, <2>1 DEF OwnersInv
  <2>9. QED
    BY <2>4, <2>5, <2>6, <2>7, <2>8 DEF OwnersInv
<1>7. RequestsInv'
  <2> SUFFICES ASSUME NEW u \in Threads PROVE RequestInv(u)'
    BY DEF RequestsInv
  <2>1. CASE u = t
    BY <1>0, <1>1, <2>1 DEF RequestInv, Requesting
  <2>2. CASE u # t
    <3>1. pc[u] # "backpedal"
      BY <1>0, <2>2, BackpedalAlone
    <3>2. /\ pc'[u] = pc[u] /\ size'[u] = size[u]
          /\ attempt'[u] = attempt[u] /\ deadline'[u] = deadline[u]
      BY <1>0, <1>1, <2>2 DEF CallTypes
    <3>3. RequestInv(u)
      BY <1>0 DEF RequestsInv
    <3>4. QED
      BY <3>1, <3>2, <3>3, RequestKept
  <2>3. QED
    BY <2>1, <2>2
<1>8. QED
  BY <1>1, <1>3, <1>4, <1>5, <1>6, <1>7 DEF IInv

(* What a failed attempt leaves. *)
LEMMA FailLeaves ==
    ASSUME IInv, NEW t \in Threads, Fail(t),
           pc[t] \in {"attempt", "backpedal"}
    PROVE  /\ \E x \in {"attempt", "failed", "idle"} :
                 pc' = [pc EXCEPT ![t] = x]
           /\ size' \in [Threads -> Nat]
           /\ attempt' \in [Threads -> {"first", "retry", "last"}]
           /\ deadline' \in [Threads -> {"none", "set", "passed"}]
           /\ \A u \in Threads : u # t => /\ size'[u] = size[u]
                                          /\ attempt'[u] = attempt[u]
                                          /\ deadline'[u] = deadline[u]
           /\ pc'[t] # "idle" => size'[t] = size[t]
           /\ pc'[t] = "idle" => attempt[t] = "last"
           /\ attempt'[t] = "last" => deadline'[t] = "passed"
<1>0. /\ t \in Actors
      /\ pc \in [Actors -> {"idle", "attempt", "backpedal", "failed",
                            "waiting", "bind", "enqueue", "release",
                            "notify"}]
      /\ attempt \in [Threads -> {"first", "retry", "last"}]
      /\ deadline \in [Threads -> {"none", "set", "passed"}]
      /\ size \in [Threads -> Nat]
  BY DEF IInv, TypeOK, CallTypes, Actors
<1>1. CASE /\ attempt[t] = "first"
           /\ attempt' = [attempt EXCEPT ![t] = "retry"]
           /\ pc' = [pc EXCEPT ![t] = "attempt"]
           /\ UNCHANGED <<size, deadline>>
  BY <1>0, <1>1
<1>2. CASE /\ attempt[t] = "retry"
           /\ deadline[t] # "passed"
           /\ deadline' = [deadline EXCEPT ![t] = "set"]
           /\ pc' = [pc EXCEPT ![t] = "failed"]
           /\ UNCHANGED <<size, attempt>>
  BY <1>0, <1>2
<1>3. CASE /\ attempt[t] = "retry"
           /\ deadline[t] = "passed"
           /\ attempt' = [attempt EXCEPT ![t] = "last"]
           /\ pc' = [pc EXCEPT ![t] = "attempt"]
           /\ UNCHANGED <<size, deadline>>
  BY <1>0, <1>3
<1>4. CASE /\ attempt[t] = "last"
           /\ pc' = [pc EXCEPT ![t] = "idle"]
           /\ size' = [size EXCEPT ![t] = 0]
           /\ attempt' = [attempt EXCEPT ![t] = "first"]
           /\ deadline' = [deadline EXCEPT ![t] = "none"]
  BY <1>0, <1>4
<1>5. QED
  BY <1>1, <1>2, <1>3, <1>4 DEF Fail

(* The invariant after a failed attempt. *)
LEMMA FailedKeeps ==
    ASSUME IInv, NEW t \in Threads, Fail(t),
           pc[t] \in {"attempt", "backpedal"},
           lock = NoOne \/ pc[t] = "backpedal", lock' \in {lock, NoOne},
           Sound(bfc'), bfc'.chunks = bfc.chunks, bfc'.total = bfc.total,
           bytes' \in [Threads -> Nat],
           UNCHANGED <<block, queueVars, gpu, held>>
    PROVE  IInv'
<1>0. /\ pc \in [Actors -> {"idle", "attempt", "backpedal", "failed",
                            "waiting", "bind", "enqueue", "release",
                            "notify"}]
      /\ t \in Actors
      /\ lock \in Threads \cup {NoOne}
      /\ queue_mutex \in Actors \cup {NoOne}
      /\ CallTypes /\ HeldInv /\ OwnersInv /\ RequestsInv
      /\ Threads \subseteq Actors
  BY DEF IInv, TypeOK, Actors
<1>1. /\ size' \in [Threads -> Nat]
      /\ attempt' \in [Threads -> {"first", "retry", "last"}]
      /\ deadline' \in [Threads -> {"none", "set", "passed"}]
      /\ \A u \in Threads : u # t => /\ size'[u] = size[u]
                                     /\ attempt'[u] = attempt[u]
                                     /\ deadline'[u] = deadline[u]
      /\ pc'[t] # "idle" => size'[t] = size[t]
      /\ attempt'[t] = "last" => deadline'[t] = "passed"
  BY FailLeaves
<1>2. PICK x \in {"attempt", "failed", "idle"} : pc' = [pc EXCEPT ![t] = x]
  BY FailLeaves
<1>3. UNCHANGED <<block, callbacks, batch, queue_mutex, gpu, held>>
  BY DEF queueVars
<1>4. TypeOK'
  BY <1>0, <1>1, <1>2, <1>3 DEF TypeOK
<1>5. CallTypes'
  BY <1>0, <1>1, <1>3 DEF CallTypes
<1>6. Used(bfc') = Used(bfc)
  BY DEF Used
<1>7. HeldInv'
  BY <1>0, <1>3, <1>6 DEF HeldInv
<1>8. OwnersInv'
  <2>1. \A u \in Threads : /\ Owns(u)' => Owns(u)
                           /\ pc[u] = "enqueue" => pc'[u] = "enqueue"
    BY <1>0, <1>2 DEF Owns
  <2>2. QED
    BY <1>0, <1>3, <1>6, <2>1, OwnersKept
<1>9. RequestsInv'
  <2> SUFFICES ASSUME NEW u \in Threads PROVE RequestInv(u)'
    BY DEF RequestsInv
  <2>0. RequestInv(u)
    BY <1>0 DEF RequestsInv
  <2>1. CASE u = t
    <3>1. pc'[t] = x /\ Requesting(t)
      BY <1>0, <1>2 DEF Requesting
    <3>2. QED
      BY <1>1, <1>2, <2>0, <2>1, <3>1 DEF RequestInv, Requesting
  <2>2. CASE u # t
    <3>1. pc[u] # "backpedal"
      BY <1>0, <2>2, BackpedalAlone
    <3>2. pc'[u] = pc[u]
      BY <1>0, <1>2, <2>2
    <3>3. QED
      BY <1>1, <2>0, <2>2, <3>1, <3>2, RequestKept
  <2>3. QED
    BY <2>1, <2>2
<1>10. QED
  BY <1>4, <1>5, <1>7, <1>8, <1>9 DEF IInv

(* A request, rounded, is a size that the allocator can serve. *)
LEMMA RequestGood ==
    ASSUME IInv, NEW t \in Threads, pc[t] \in {"attempt", "backpedal"},
           size[t] <= MaxAllocationSize
    PROVE  /\ Good(Rounded(t)) /\ Rounded(t) >= size[t]
           /\ size[t] \in Nat \ {0}
           /\ Good(ExtendedRegion(bfc, Rounded(t)))
           /\ BytesToExtend(bfc, Rounded(t)) = ExtendedRegion(bfc, Rounded(t))
           /\ Good(BytesToExtend(bfc, Rounded(t)))
           /\ Rounded(t) <= BytesToExtend(bfc, Rounded(t))
<1>1. size[t] \in Nat \ {0}
  BY DescriptorsAssumption DEF IInv, RequestsInv, RequestInv, Requesting
<1>2. Good(Rounded(t)) /\ Rounded(t) >= size[t]
  BY <1>1, RoundedGood DEF Rounded
<1>3. PICK n : n = Rounded(t)
  OBVIOUS
<1>4. /\ Good(bfc.curr_region) /\ bfc.total \in Nat
      /\ bfc.total <= DescriptorMemory
  BY DEF IInv, Sound
<1>5. /\ BytesToExtend(bfc, n) = ExtendedRegion(bfc, n)
      /\ Good(BytesToExtend(bfc, n)) /\ BytesToExtend(bfc, n) >= n
  BY <1>2, <1>3, <1>4, GoodBytes
<1>6. n \in Nat /\ BytesToExtend(bfc, n) \in Nat
  BY <1>2, <1>3, <1>5, GoodMax DEF Good, Bytes
<1>7. n <= BytesToExtend(bfc, n)
  BY <1>5, <1>6
<1>8. QED
  BY <1>1, <1>2, <1>3, <1>5, <1>7

\* The invariant and a call that finds a free chunk.
LEMMA FindsKeeps ==
    ASSUME IInv, NEW t \in Threads, AllocateFinds(t)
    PROVE  IInv'
<1>1. /\ pc[t] = "attempt" /\ lock = NoOne /\ lock' = lock
      /\ size[t] <= MaxAllocationSize
      /\ FittingChunks(bfc, Rounded(t)) # {} /\ Return(t, bfc)
      /\ UNCHANGED <<queueVars, gpu>>
  BY DEF AllocateFinds, Attempting, NothingFits
<1>2. Good(Rounded(t))
  BY <1>1, RequestGood
<1>3. Sound(bfc)
  BY DEF IInv
<1>4. PICK p, z : Granted(t, p, z)
  BY <1>1, <1>2, <1>3, ReturnGrants
<1>5. QED
  BY <1>1, <1>4, GrantedKeeps

(* A chunk of a new region is returned. *)
LEMMA NewRegionGrants ==
    ASSUME IInv, NEW t \in Threads, Good(Rounded(t)), NEW k, Good(k),
           Rounded(t) <= k, SubAllocates(k), ReturnFromNewRegion(t, k)
    PROVE  \E p, z : Granted(t, p, z)
<1>1. PICK s : s = AddRegion(bfc, Rounded(t), k) /\ Return(t, s)
  BY DEF ReturnFromNewRegion
<1>2. Sound(bfc) /\ bfc.total + k <= DescriptorMemory
  BY DEF IInv, SubAllocates
<1>3. PICK n : n = Rounded(t)
  OBVIOUS
<1>4. Sound(s) /\ Used(s) = Used(bfc) /\ FittingChunks(s, n) # {}
  BY <1>1, <1>2, <1>3, SoundExtends
<1>5. QED
  BY <1>1, <1>3, <1>4, ReturnGrants

\* The invariant and a call that extends the allocator at once.
LEMMA ExtendsKeeps ==
    ASSUME IInv, NEW t \in Threads, AllocateExtends(t)
    PROVE  IInv'
<1> DEFINE k == BytesToExtend(bfc, Rounded(t))
<1>1. /\ pc[t] = "attempt" /\ lock = NoOne /\ lock' = lock
      /\ size[t] <= MaxAllocationSize /\ SubAllocates(k)
      /\ ReturnFromNewRegion(t, k) /\ UNCHANGED <<queueVars, gpu>>
  BY DEF AllocateExtends, Attempting, MayExtend
<1>2. Good(Rounded(t)) /\ Good(k) /\ Rounded(t) <= k
  BY <1>1, RequestGood
<1> HIDE DEF k
<1>3. PICK p, z : Granted(t, p, z)
  BY <1>1, <1>2, NewRegionGrants
<1>4. QED
  BY <1>1, <1>3, GrantedKeeps

\* The invariant and a call that extends it with a smaller region.
LEMMA BackpedalExtendsKeeps ==
    ASSUME IInv, NEW t \in Threads, BackpedalExtends(t)
    PROVE  IInv'
<1> DEFINE k == Backpedal(bytes[t])
<1>1. /\ pc[t] = "backpedal" /\ lock' = NoOne /\ k >= Rounded(t)
      /\ SubAllocates(k)
      /\ ReturnFromNewRegion(t, k) /\ UNCHANGED <<queueVars, gpu>>
  BY DEF BackpedalExtends
<1>2. Good(bytes[t]) /\ size[t] <= MaxAllocationSize
  BY <1>1 DEF IInv, RequestsInv, RequestInv
<1>3. Good(Rounded(t))
  BY <1>1, <1>2, RequestGood
<1>4. Good(k) /\ Rounded(t) <= k
  <2>1. Rounded(t) \in Bytes /\ Rounded(t) \in Nat
    BY <1>3, GoodMax DEF Good, Bytes
  <2>2. k \in Nat /\ Good(k)
    BY <1>1, <1>2, <2>1, GoodBackpedal
  <2>3. QED
    BY <1>1, <2>1, <2>2
<1> HIDE DEF k
<1>5. PICK p, z : Granted(t, p, z)
  BY <1>1, <1>3, <1>4, NewRegionGrants
<1>6. QED
  BY <1>1, <1>5, GrantedKeeps

\* The invariant and a call whose first attempt fails.
LEMMA FailsKeeps ==
    ASSUME IInv, NEW t \in Threads, AllocateFails(t)
    PROVE  IInv'
<1>1. /\ pc[t] = "attempt" /\ lock = NoOne /\ lock' = lock /\ Fail(t)
      /\ bytes' = bytes /\ UNCHANGED <<block, queueVars, gpu, held>>
  BY DEF AllocateFails, Attempting
<1>2. Sound(bfc) /\ bytes \in [Threads -> Nat]
  BY DEF IInv, CallTypes
<1>3. /\ Sound(bfc') /\ bfc'.chunks = bfc.chunks
      /\ bfc'.total = bfc.total
  <2>1. CASE UNCHANGED bfc
    BY <1>2, <2>1
  <2>2. CASE /\ MayExtend(t)
             /\ bfc' = [bfc EXCEPT !.curr_region
                                     = ExtendedRegion(bfc, Rounded(t))]
    <3>1. PICK e : e = ExtendedRegion(bfc, Rounded(t)) /\ Good(e)
      BY <1>1, <2>2, RequestGood DEF MayExtend
    <3>2. bfc' = Resized(bfc, e)
      BY <2>2, <3>1 DEF Resized
    <3>3. QED
      BY <1>2, <3>1, <3>2, SoundResized
  <2>3. QED
    BY <2>1, <2>2 DEF AllocateFails
<1>4. QED
  BY <1>1, <1>2, <1>3, FailedKeeps

\* The invariant and a call that gives up.
LEMMA GivesUpKeeps ==
    ASSUME IInv, NEW t \in Threads, BackpedalGivesUp(t)
    PROVE  IInv'
<1>1. /\ pc[t] = "backpedal" /\ lock' = NoOne /\ Fail(t) /\ bfc' = bfc
      /\ bytes' = [bytes EXCEPT ![t] = 0]
      /\ UNCHANGED <<block, queueVars, gpu, held>>
  BY DEF BackpedalGivesUp
<1>2. Sound(bfc) /\ bytes \in [Threads -> Nat]
  BY DEF IInv, CallTypes
<1>3. bytes' \in [Threads -> Nat]
  BY <1>1, <1>2
<1>4. QED
  BY <1>1, <1>2, <1>3, FailedKeeps

(* The loop of the backpedal begins, and turns. *)
LEMMA BackpedalsKeeps ==
    ASSUME IInv, NEW t \in Threads, AllocateBackpedals(t)
    PROVE  IInv'
<1> DEFINE e == ExtendedRegion(bfc, Rounded(t))
<1>0. /\ pc \in [Actors -> {"idle", "attempt", "backpedal", "failed",
                            "waiting", "bind", "enqueue", "release",
                            "notify"}]
      /\ t \in Actors /\ TypeOK
      /\ CallTypes /\ HeldInv /\ OwnersInv /\ RequestsInv /\ Sound(bfc)
      /\ Threads \subseteq Actors
  BY DEF IInv, TypeOK, Actors
<1>1. /\ pc[t] = "attempt" /\ lock = NoOne /\ size[t] <= MaxAllocationSize
      /\ NothingFits(t) /\ ~SubAllocates(BytesToExtend(bfc, Rounded(t)))
      /\ bfc' = Backpedaling(bfc, e)
      /\ bytes' = [bytes EXCEPT ![t] = BytesToExtend(bfc, Rounded(t))]
      /\ lock' = t
      /\ pc' = [pc EXCEPT ![t] = "backpedal"]
      /\ UNCHANGED <<size, attempt, deadline, block, callbacks, batch,
                     queue_mutex, gpu, held>>
  BY DEF AllocateBackpedals, Attempting, MayExtend, Backpedaling, queueVars
<1>2. Good(e) /\ BytesToExtend(bfc, Rounded(t)) = e
  BY <1>1, RequestGood
<1> HIDE DEF e
<1>3. Sound(bfc') /\ bfc'.chunks = bfc.chunks /\ bfc'.total = bfc.total
  BY <1>0, <1>1, <1>2, SoundResized
<1>4. e \in Nat /\ e <= MaxAllocationSize /\ bfc.total \in Nat
  BY <1>0, <1>2, GoodMax DEF Good, Bytes, Sound
<1>5. TypeOK'
  BY <1>0, <1>1 DEF TypeOK
<1>6. CallTypes'
  BY <1>0, <1>1, <1>2, <1>4 DEF CallTypes
<1>7. Used(bfc') = Used(bfc)
  BY <1>3 DEF Used
<1>8. HeldInv'
  BY <1>0, <1>1, <1>7 DEF HeldInv
<1>9. OwnersInv'
  <2>1. \A u \in Threads : /\ Owns(u)' => Owns(u)
                           /\ pc[u] = "enqueue" => pc'[u] = "enqueue"
    BY <1>0, <1>1 DEF Owns
  <2>2. QED
    BY <1>0, <1>1, <1>7, <2>1, OwnersKept
<1>10. RequestsInv'
  <2> SUFFICES ASSUME NEW u \in Threads PROVE RequestInv(u)'
    BY DEF RequestsInv
  <2>0. RequestInv(u)
    BY <1>0 DEF RequestsInv
  <2>1. CASE u = t
    <3>1. NothingFits(t)'
      BY <1>1, <1>3 DEF NothingFits, FittingChunks, InBins, Rounded
    <3>2. NoMemory'
      BY <1>1, <1>2, <1>3, <1>4, GoodMax, DescriptorsAssumption
         DEF NoMemory, SubAllocates
    <3>3. Good(bytes[t])'
      BY <1>0, <1>1, <1>2 DEF CallTypes
    <3>4. QED
      BY <1>1, <2>0, <2>1, <3>1, <3>2, <3>3 DEF RequestInv, Requesting
  <2>2. CASE u # t
    <3>1. pc[u] # "backpedal"
      BY <1>0, <1>1, <2>2, BackpedalAlone
    <3>2. pc'[u] = pc[u]
      BY <1>0, <1>1, <2>2
    <3>3. QED
      BY <1>1, <2>0, <2>2, <3>1, <3>2, RequestKept
  <2>3. QED
    BY <2>1, <2>2
<1>11. QED
  BY <1>3, <1>5, <1>6, <1>8, <1>9, <1>10 DEF IInv

\* The invariant and a call that tries the next smaller region.
LEMMA ContinuesKeeps ==
    ASSUME IInv, NEW t \in Threads, BackpedalContinues(t)
    PROVE  IInv'
<1> DEFINE k == Backpedal(bytes[t])
<1>0. /\ TypeOK /\ CallTypes /\ HeldInv /\ OwnersInv /\ RequestsInv
      /\ Sound(bfc)
  BY DEF IInv
<1>1. /\ pc[t] = "backpedal" /\ k >= Rounded(t)
      /\ bytes' = [bytes EXCEPT ![t] = k]
      /\ UNCHANGED <<bfc, lock, pc, size, attempt, deadline, block,
                     callbacks, batch, queue_mutex, gpu, held>>
  BY DEF BackpedalContinues, bfcVars, queueVars
<1>2. RequestInv(t) /\ Good(bytes[t]) /\ size[t] <= MaxAllocationSize
  BY <1>0, <1>1 DEF RequestsInv, RequestInv
<1>3. Rounded(t) \in Bytes
  BY <1>1, <1>2, RequestGood DEF Good
<1>4. Good(k) /\ k \in Nat
  BY <1>1, <1>2, <1>3, GoodBackpedal
<1> HIDE DEF k
<1>5. TypeOK' /\ HeldInv' /\ Sound(bfc')
  BY <1>0, <1>1 DEF TypeOK, HeldInv
<1>6. CallTypes'
  BY <1>0, <1>1, <1>4 DEF CallTypes
<1>7. OwnersInv'
  BY <1>0, <1>1, OwnersKept DEF Owns
<1>8. RequestsInv'
  <2> SUFFICES ASSUME NEW u \in Threads PROVE RequestInv(u)'
    BY DEF RequestsInv
  <2>0. RequestInv(u)
    BY <1>0 DEF RequestsInv
  <2>1. CASE u = t
    <3>1. NothingFits(t)' <=> NothingFits(t)
      BY <1>1 DEF NothingFits, Rounded
    <3>2. NoMemory' <=> NoMemory
      BY <1>1 DEF NoMemory
    <3>3. Good(bytes[t])'
      BY <1>0, <1>1, <1>4 DEF CallTypes
    <3>4. QED
      BY <1>1, <2>0, <2>1, <3>1, <3>2, <3>3 DEF RequestInv, Requesting
  <2>2. CASE u # t
    <3>1. bytes'[u] = bytes[u]
      BY <1>0, <1>1, <2>2 DEF CallTypes
    <3>2. QED
      BY <1>1, <2>0, <2>2, <3>1, RequestKept
  <2>3. QED
    BY <2>1, <2>2
<1>9. QED
  BY <1>5, <1>6, <1>7, <1>8 DEF IInv

(* A step outside the allocator, that starts no request. *)
LEMMA QuietKeeps ==
    ASSUME IInv, UNCHANGED <<bfc, lock, held, size, attempt, bytes>>,
           TypeOK', CallTypes', OwnersInv',
           \A u \in Threads : \/ deadline'[u] = deadline[u]
                              \/ attempt[u] # "last",
           \A u \in Threads :
              \/ pc'[u] = pc[u]
              \/ pc[u] = "waiting" /\ pc'[u] = "attempt"
              \/ pc[u] = "failed" /\ pc'[u] = "waiting"
              \/ pc'[u] \notin {"attempt", "backpedal", "failed", "waiting"}
    PROVE  IInv'
<1>1. Sound(bfc') /\ HeldInv'
  BY DEF IInv, HeldInv
<1>2. ASSUME NEW u \in Threads PROVE RequestInv(u)'
  <2>1. RequestInv(u)
    BY DEF IInv, RequestsInv
  <2>2. CASE pc[u] = "failed" /\ pc'[u] = "waiting"
    BY <2>1, <2>2 DEF RequestInv, Requesting
  <2>3. CASE \/ pc'[u] = pc[u]
             \/ pc[u] = "waiting" /\ pc'[u] = "attempt"
             \/ pc'[u] \notin {"attempt", "backpedal", "failed", "waiting"}
    BY <2>1, <2>3, RequestKept
  <2>4. QED
    BY <2>2, <2>3
<1>3. QED
  BY <1>1, <1>2 DEF IInv, RequestsInv

(* The steps of a thread that waits for memory. *)
LEMMA WaitingKeeps ==
    ASSUME IInv, NEW t \in Threads,
           RetryWaits(t) \/ RetryWakes(t) \/ DeadlinePasses(t)
    PROVE  IInv'
<1>0. /\ TypeOK /\ CallTypes /\ OwnersInv /\ RequestsInv
      /\ t \in Actors /\ Threads \subseteq Actors
  BY DEF IInv, Actors
<1>1. /\ UNCHANGED <<bfc, lock, size, attempt, bytes, block, callbacks,
                     batch, queue_mutex, gpu, held>>
      /\ \/ pc' = [pc EXCEPT ![t] = "waiting"] /\ deadline' = deadline
            /\ pc[t] = "failed"
         \/ pc' = [pc EXCEPT ![t] = "attempt"] /\ deadline' = deadline
            /\ pc[t] = "waiting"
         \/ pc' = pc /\ deadline' = [deadline EXCEPT ![t] = "passed"]
            /\ deadline[t] = "set"
  BY DEF RetryWaits, RetryWakes, DeadlinePasses, bfcVars, callVars, queueVars
<1>2. TypeOK'
  BY <1>0, <1>1 DEF TypeOK
<1>3. CallTypes'
  BY <1>0, <1>1 DEF CallTypes
<1>4. OwnersInv'
  <2>1. \A u \in Threads : /\ Owns(u)' => Owns(u)
                           /\ pc[u] = "enqueue" => pc'[u] = "enqueue"
    BY <1>0, <1>1 DEF Owns, TypeOK
  <2>2. QED
    BY <1>0, <1>1, <2>1, OwnersKept
<1>5. \A u \in Threads : deadline'[u] = deadline[u] \/ attempt[u] # "last"
  BY <1>0, <1>1 DEF TypeOK, RequestsInv, RequestInv
<1>6. \A u \in Threads : \/ pc'[u] = pc[u]
                         \/ pc[u] = "waiting" /\ pc'[u] = "attempt"
                         \/ pc[u] = "failed" /\ pc'[u] = "waiting"
  BY <1>0, <1>1 DEF TypeOK
<1>7. QED
  BY <1>1, <1>2, <1>3, <1>4, <1>5, <1>6, QuietKeeps

\* The invariant and a release that wakes the waiting callers.
LEMMA NotifiesKeeps ==
    ASSUME IInv, NEW a \in Actors, Notifies(a)
    PROVE  IInv'
<1>0. TypeOK /\ CallTypes /\ OwnersInv /\ Threads \subseteq Actors
  BY DEF IInv, Actors
<1>1. /\ UNCHANGED <<bfc, lock, size, attempt, deadline, bytes, block,
                     callbacks, batch, gpu, held>>
      /\ pc[a] = "notify" /\ pc' = NotifyDealloc(a)
      /\ queue_mutex' \in {queue_mutex, NoOne}
  BY DEF Notifies, bfcVars, callVars
<1>2. \A u \in Threads : \/ pc'[u] = pc[u]
                         \/ pc[u] = "waiting" /\ pc'[u] = "attempt"
                         \/ pc[u] = "notify" /\ pc'[u] = "idle"
  BY <1>0, <1>1, DescriptorsAssumption DEF NotifyDealloc
<1>3. TypeOK'
  BY <1>0, <1>1 DEF TypeOK, NotifyDealloc
<1>4. CallTypes'
  BY <1>0, <1>1 DEF CallTypes
<1>5. OwnersInv'
  <2>1. \A u \in Threads : /\ Owns(u)' => Owns(u)
                           /\ pc[u] = "enqueue" => pc'[u] = "enqueue"
    BY <1>2 DEF Owns
  <2>2. QED
    BY <1>0, <1>1, <2>1, OwnersKept
<1>6. QED
  BY <1>1, <1>2, <1>3, <1>4, <1>5, QuietKeeps

\* The invariant and the start of a call.
LEMMA StartsKeeps ==
    ASSUME IInv, NEW t \in Threads, NEW n \in Sizes, ComputeStarts(t, n)
    PROVE  IInv'
<1>0. /\ TypeOK /\ CallTypes /\ OwnersInv /\ RequestsInv /\ HeldInv
      /\ Sound(bfc)
      /\ t \in Actors /\ Threads \subseteq Actors /\ n \in Nat
  BY DescriptorsAssumption DEF IInv, Actors
<1>1. /\ UNCHANGED <<bfc, lock, attempt, deadline, bytes, block, callbacks,
                     batch, queue_mutex, gpu, held>>
      /\ pc[t] = "idle" /\ pc' = [pc EXCEPT ![t] = "attempt"]
      /\ size' = [size EXCEPT ![t] = n]
  BY DEF ComputeStarts, bfcVars, queueVars
<1>2. TypeOK'
  BY <1>0, <1>1 DEF TypeOK
<1>3. CallTypes'
  BY <1>0, <1>1 DEF CallTypes
<1>4. OwnersInv'
  <2>1. \A u \in Threads : /\ Owns(u)' => Owns(u)
                           /\ pc[u] = "enqueue" => pc'[u] = "enqueue"
    BY <1>0, <1>1 DEF Owns, TypeOK
  <2>2. QED
    BY <1>0, <1>1, <2>1, OwnersKept
<1>5. HeldInv' /\ Sound(bfc')
  BY <1>0, <1>1 DEF HeldInv
<1>6. ASSUME NEW u \in Threads PROVE RequestInv(u)'
  <2>0. RequestInv(u)
    BY <1>0 DEF RequestsInv
  <2>1. CASE u = t
    <3>1. size'[t] = n /\ pc'[t] = "attempt"
      BY <1>0, <1>1 DEF CallTypes, TypeOK
    <3>2. QED
      BY <1>1, <2>0, <2>1, <3>1 DEF RequestInv
  <2>2. CASE u # t
    <3>1. size'[u] = size[u] /\ pc'[u] = pc[u]
      BY <1>0, <1>1, <2>2 DEF CallTypes, TypeOK
    <3>2. QED
      BY <1>1, <2>0, <3>1, RequestKept
  <2>3. QED
    BY <2>1, <2>2
<1>7. QED
  BY <1>2, <1>3, <1>4, <1>5, <1>6 DEF IInv, RequestsInv

(* The ways of an address from a thread to the event queue. *)
LEMMA UsesKeeps ==
    ASSUME IInv, NEW t \in Threads, Uses(t)
    PROVE  IInv'
<1>0. /\ TypeOK /\ CallTypes /\ OwnersInv
      /\ t \in Actors /\ Threads \subseteq Actors
  BY DEF IInv, Actors
<1>1. UNCHANGED <<bfc, lock, size, attempt, deadline, bytes, batch, held>>
  BY DEF Uses, ComputeSubmits, ComputeFails, EnqueueQueues, EnqueueInvokes,
         bfcVars, callVars, queueVars
<1>2. PICK x \in {"enqueue", "release", "idle"} : pc' = [pc EXCEPT ![t] = x]
  BY DEF Uses, ComputeSubmits, ComputeFails, EnqueueQueues, EnqueueInvokes
<1>3. TypeOK'
  <2>1. queue_mutex' \in Actors \cup {NoOne}
    BY <1>0 DEF Uses, ComputeSubmits, ComputeFails, EnqueueQueues,
                EnqueueInvokes, queueVars, TypeOK
  <2>2. QED
    BY <1>0, <1>1, <1>2, <2>1 DEF TypeOK
<1>4. CallTypes'
  <2>1. \/ block' = block
        \/ block' = [block EXCEPT ![t] = 0]
    BY DEF Uses, ComputeSubmits, ComputeFails, EnqueueQueues, EnqueueInvokes
  <2>2. gpu' = gpu \/ gpu' = Append(gpu, block[t])
    BY DEF Uses, ComputeSubmits, ComputeFails, EnqueueQueues, EnqueueInvokes
  <2>0. block \in [Threads -> Nat] /\ gpu \in Seq(Nat) /\ block[t] \in Nat
    BY <1>0 DEF CallTypes
  <2>3. block' \in [Threads -> Nat]
    BY <2>0, <2>1
  <2>4. gpu' \in Seq(Nat)
    <3>1. Append(gpu, block[t]) \in Seq(Nat)
      BY <2>0, AppendProperties
    <3>2. QED
      BY <2>0, <2>2, <3>1
  <2>5. QED
    BY <1>0, <1>1, <2>3, <2>4 DEF CallTypes
<1>5. /\ pc'[t] = x /\ \A u \in Threads : u # t => pc'[u] = pc[u]
  BY <1>0, <1>2 DEF TypeOK
<1>6. \A p : InUse(p)' <=> InUse(p)
  BY <1>1 DEF InUse
<1>7. OwnersInv'
  <2>1. CASE ComputeSubmits(t)
    <3>1. /\ pc[t] = "bind" /\ pc'[t] = "enqueue"
          /\ gpu' = Append(gpu, block[t])
          /\ UNCHANGED <<block, callbacks>>
      BY <1>0, <2>1 DEF ComputeSubmits, TypeOK, queueVars
    <3>2. \A u \in Threads : Owns(u)' <=> Owns(u)
      BY <1>5, <3>1 DEF Owns
    <3>3. ASSUME NEW i \in 1..Len(gpu')
          PROVE  \/ gpu'[i] \in callbacks'
                 \/ \E u \in Threads : pc'[u] = "enqueue"
                                       /\ block'[u] = gpu'[i]
      <4>1. gpu \in Seq(Nat) /\ block[t] \in Nat
        BY <1>0 DEF CallTypes
      <4>2. i \in 1..(Len(gpu) + 1)
        BY <3>1, <4>1
      <4>3. CASE i = Len(gpu) + 1
        BY <3>1, <4>1, <4>3
      <4>4. CASE i # Len(gpu) + 1
        <5>1. i \in 1..Len(gpu) /\ gpu'[i] = gpu[i]
          BY <3>1, <4>1, <4>2, <4>4
        <5>2. QED
          BY <1>0, <1>5, <3>1, <5>1 DEF OwnersInv
      <4>5. QED
        BY <4>3, <4>4
    <3>4. QED
      BY <1>0, <1>1, <1>6, <3>1, <3>2, <3>3 DEF OwnersInv
  <2>2. CASE ComputeFails(t)
    <3>1. /\ pc[t] = "bind" /\ pc'[t] = "release"
          /\ UNCHANGED <<block, callbacks, gpu>>
      BY <1>0, <2>2 DEF ComputeFails, TypeOK, queueVars
    <3>2. \A u \in Threads : /\ Owns(u)' => Owns(u)
                             /\ pc[u] = "enqueue" => pc'[u] = "enqueue"
      BY <1>5, <3>1 DEF Owns
    <3>3. Used(bfc') = Used(bfc)
      BY <1>1
    <3>4. QED
      BY <1>0, <1>1, <3>1, <3>2, <3>3, OwnersKept
  <2>3. CASE EnqueueQueues(t)
    <3>1. /\ pc[t] = "enqueue" /\ pc'[t] = "idle"
          /\ callbacks' = callbacks \cup {block[t]}
          /\ block' = [block EXCEPT ![t] = 0]
          /\ gpu' = gpu
      BY <1>0, <2>3 DEF EnqueueQueues, TypeOK
    <3>2. /\ \A u \in Threads : Owns(u)' => u # t /\ Owns(u)
          /\ Owns(t)
      BY <1>5, <3>1 DEF Owns
    <3>3. \A u \in Threads : u # t => block'[u] = block[u]
      BY <1>0, <3>1 DEF CallTypes
    <3>4. ASSUME NEW i \in 1..Len(gpu')
          PROVE  \/ gpu'[i] \in callbacks'
                 \/ \E u \in Threads : pc'[u] = "enqueue"
                                       /\ block'[u] = gpu'[i]
      BY <1>0, <1>5, <3>1, <3>3 DEF OwnersInv
    <3>5. \A u \in Threads :
             Owns(u)' => /\ InUse(block[u])'
                         /\ block'[u] \notin callbacks'
                         /\ block'[u] \notin batch'
      BY <1>0, <1>1, <1>6, <3>1, <3>2, <3>3 DEF OwnersInv
    <3>6. \A u, v \in Threads :
             Owns(u)' /\ Owns(v)' /\ block'[u] = block'[v] => u = v
      BY <1>0, <3>2, <3>3 DEF OwnersInv
    <3>7. \A p \in callbacks' : InUse(p)' /\ p \notin batch'
      BY <1>0, <1>1, <1>6, <3>1, <3>2 DEF OwnersInv
    <3>8. QED
      BY <1>0, <1>1, <1>6, <3>4, <3>5, <3>6, <3>7 DEF OwnersInv
  <2>4. CASE EnqueueInvokes(t)
    <3>1. /\ pc[t] = "enqueue" /\ pc'[t] = "release"
          /\ \A i \in 1..Len(gpu) : gpu[i] # block[t]
          /\ UNCHANGED <<block, callbacks, gpu>>
      BY <1>0, <2>4 DEF EnqueueInvokes, TypeOK, Signaled
    <3>2. \A u \in Threads : Owns(u)' <=> Owns(u)
      BY <1>5, <3>1 DEF Owns
    <3>3. ASSUME NEW i \in 1..Len(gpu')
          PROVE  \/ gpu'[i] \in callbacks'
                 \/ \E u \in Threads : pc'[u] = "enqueue"
                                       /\ block'[u] = gpu'[i]
      BY <1>0, <1>5, <3>1 DEF OwnersInv
    <3>4. QED
      BY <1>0, <1>1, <1>6, <3>1, <3>2, <3>3 DEF OwnersInv
  <2>5. QED
    BY <2>1, <2>2, <2>3, <2>4 DEF Uses
<1>8. QED
  BY <1>1, <1>3, <1>4, <1>5, <1>7, QuietKeeps

(* The event thread takes the callbacks that were reached, or is done. *)
LEMMA EventsKeep ==
    ASSUME IInv, EventsTakes \/ EventsUnlocks
    PROVE  IInv'
<1>0. /\ TypeOK /\ CallTypes /\ OwnersInv
      /\ Events \in Actors /\ Events \notin Threads
      /\ Threads \subseteq Actors
  BY DescriptorsAssumption DEF IInv, Actors
<1>1. /\ UNCHANGED <<bfc, lock, size, attempt, deadline, bytes, block, gpu,
                     held>>
      /\ queue_mutex' \in {Events, NoOne}
  BY DEF EventsTakes, EventsUnlocks, bfcVars, callVars
<1>2. PICK x \in {"release", "idle"} : pc' = [pc EXCEPT ![Events] = x]
  BY DEF EventsTakes, EventsUnlocks
<1>3. \A u \in Threads : pc'[u] = pc[u]
  BY <1>0, <1>2 DEF TypeOK
<1>4. TypeOK' /\ CallTypes'
  BY <1>0, <1>1, <1>2 DEF TypeOK, CallTypes
<1>5. OwnersInv'
  <2>1. \A p : InUse(p)' <=> InUse(p)
    BY <1>1 DEF InUse
  <2>2. \A u \in Threads : Owns(u)' <=> Owns(u)
    BY <1>3 DEF Owns
  <2>3. CASE EventsTakes
    <3>1. /\ callbacks' = callbacks \ Reached /\ batch' = Reached
          /\ Reached \subseteq callbacks
          /\ \A i \in 1..Len(gpu) : gpu[i] \notin Reached
      BY <2>3 DEF EventsTakes, Reached, Signaled
    <3>2. ASSUME NEW i \in 1..Len(gpu')
          PROVE  \/ gpu'[i] \in callbacks'
                 \/ \E u \in Threads : pc'[u] = "enqueue"
                                       /\ block'[u] = gpu'[i]
      BY <1>0, <1>1, <1>3, <3>1 DEF OwnersInv
    <3>3. QED
      BY <1>0, <1>1, <2>1, <2>2, <3>1, <3>2 DEF OwnersInv
  <2>4. CASE EventsUnlocks
    <3>1. UNCHANGED <<callbacks, batch>> /\ Used(bfc') = Used(bfc)
      BY <1>1, <2>4 DEF EventsUnlocks
    <3>2. QED
      BY <1>0, <1>1, <1>3, <2>2, <3>1, OwnersKept
  <2>5. QED
    BY <2>3, <2>4
<1>6. QED
  BY <1>1, <1>3, <1>4, <1>5, QuietKeeps

\* The invariant and a step of the GPU.
LEMMA GpuKeeps ==
    ASSUME IInv, GpuCompletes
    PROVE  IInv'
<1>0. TypeOK /\ CallTypes /\ OwnersInv /\ gpu \in Seq(Nat)
  BY DEF IInv, CallTypes
<1>1. /\ UNCHANGED <<bfc, lock, pc, size, attempt, deadline, bytes, block,
                     callbacks, batch, queue_mutex, held>>
      /\ gpu # << >> /\ gpu' = Tail(gpu)
  BY DEF GpuCompletes, bfcVars, callVars, queueVars
<1>2. /\ gpu' \in Seq(Nat)
      /\ \A i \in 1..Len(gpu') : i + 1 \in 1..Len(gpu) /\ gpu'[i] = gpu[i + 1]
  BY <1>0, <1>1
<1>3. TypeOK' /\ CallTypes'
  BY <1>0, <1>1, <1>2 DEF TypeOK, CallTypes
<1>4. OwnersInv'
  <2>1. \A p : InUse(p)' <=> InUse(p)
    BY <1>1 DEF InUse
  <2>2. \A u \in Threads : Owns(u)' <=> Owns(u)
    BY <1>1 DEF Owns
  <2>3. ASSUME NEW i \in 1..Len(gpu')
        PROVE  \/ gpu'[i] \in callbacks'
               \/ \E u \in Threads : pc'[u] = "enqueue" /\ block'[u] = gpu'[i]
    <3>1. PICK j \in 1..Len(gpu) : gpu'[i] = gpu[j]
      BY <1>2
    <3>2. QED
      BY <1>0, <1>1, <3>1 DEF OwnersInv
  <2>4. QED
    BY <1>0, <1>1, <2>1, <2>2, <2>3 DEF OwnersInv
<1>5. QED
  BY <1>1, <1>3, <1>4, QuietKeeps

(* An address goes from its owner back to the allocator. *)
LEMMA Released ==
    ASSUME IInv, NEW p, InUse(p), DeallocateRaw(p)
    PROVE  /\ Sound(bfc') /\ bfc'.total = bfc.total
           /\ HeldInv'
           /\ \A q : InUse(q)' <=> InUse(q) /\ q # p
           /\ \A u \in Threads : pc[u] # "backpedal"
           /\ UNCHANGED <<lock, size, attempt, deadline, bytes, gpu>>
<1>1. PICK r \in Used(bfc) : r.ptr = p
  BY DEF InUse
<1>2. /\ bfc' = FreeChunk(bfc, p) /\ lock = NoOne
      /\ held' = {b \in held : b.ptr # p}
      /\ UNCHANGED <<lock, size, attempt, deadline, bytes, gpu>>
  BY DEF DeallocateRaw, callVars
<1>3. Sound(bfc) /\ HeldInv /\ RequestsInv
  BY DEF IInv
<1>4. /\ Sound(bfc') /\ bfc'.total = bfc.total
      /\ Used(bfc') = {q \in Used(bfc) : q.ptr # p}
  BY <1>1, <1>2, <1>3, SoundFrees
<1>5. \A q : InUse(q)' <=> InUse(q) /\ q # p
  BY <1>4 DEF InUse
<1>6. HeldInv'
  <2>1. \A q : HeldRange(q).ptr = q.ptr
    BY DEF HeldRange
  <2>2. QED
    BY <1>2, <1>3, <1>4, <2>1 DEF HeldInv
<1>7. \A u \in Threads : pc[u] # "backpedal"
  BY <1>2, <1>3, DescriptorsAssumption DEF RequestsInv, RequestInv
<1>8. QED
  BY <1>2, <1>4, <1>5, <1>6, <1>7

\* The invariant and a thread that frees the range it holds.
LEMMA ThreadReleasesKeeps ==
    ASSUME IInv, NEW t \in Threads, ThreadReleases(t)
    PROVE  IInv'
<1>0. /\ TypeOK /\ CallTypes /\ OwnersInv /\ RequestsInv
      /\ t \in Actors /\ Threads \subseteq Actors
  BY DEF IInv, Actors
<1>1. /\ pc[t] = "release" /\ DeallocateRaw(block[t])
      /\ block' = [block EXCEPT ![t] = 0]
      /\ pc' = [pc EXCEPT ![t] = "notify"]
      /\ UNCHANGED <<callbacks, batch, queue_mutex>>
  BY DEF ThreadReleases, queueVars
<1>2. PICK p : p = block[t]
  OBVIOUS
<1>3. Owns(t) /\ InUse(p)
  BY <1>0, <1>1, <1>2 DEF OwnersInv, Owns
<1>4. /\ Sound(bfc') /\ HeldInv'
      /\ \A q : InUse(q)' <=> InUse(q) /\ q # p
      /\ \A u \in Threads : pc[u] # "backpedal"
      /\ UNCHANGED <<lock, size, attempt, deadline, bytes, gpu>>
  BY <1>1, <1>2, <1>3, Released
<1>5. TypeOK' /\ CallTypes'
  BY <1>0, <1>1, <1>4 DEF TypeOK, CallTypes
<1>6. /\ pc'[t] = "notify"
      /\ \A u \in Threads : u # t => pc'[u] = pc[u] /\ block'[u] = block[u]
  BY <1>0, <1>1 DEF TypeOK, CallTypes
<1>7. OwnersInv'
  <2>1. \A u \in Threads : Owns(u)' => u # t /\ Owns(u)
    BY <1>6 DEF Owns
  <2>2. \A u \in Threads :
           Owns(u)' => /\ InUse(block[u])'
                       /\ block'[u] \notin callbacks'
                       /\ block'[u] \notin batch'
    BY <1>0, <1>1, <1>2, <1>3, <1>4, <1>6, <2>1 DEF OwnersInv
  <2>3. \A u, v \in Threads :
           Owns(u)' /\ Owns(v)' /\ block'[u] = block'[v] => u = v
    BY <1>0, <1>6, <2>1 DEF OwnersInv
  <2>4. /\ \A q \in callbacks' : InUse(q)' /\ q \notin batch'
        /\ \A q \in batch' : InUse(q)'
    BY <1>0, <1>1, <1>2, <1>3, <1>4 DEF OwnersInv
  <2>5. ASSUME NEW i \in 1..Len(gpu')
        PROVE  \/ gpu'[i] \in callbacks'
               \/ \E u \in Threads : pc'[u] = "enqueue" /\ block'[u] = gpu'[i]
    BY <1>0, <1>1, <1>4, <1>6 DEF OwnersInv
  <2>6. QED
    BY <2>2, <2>3, <2>4, <2>5 DEF OwnersInv
<1>8. ASSUME NEW u \in Threads PROVE RequestInv(u)'
  <2>1. RequestInv(u)
    BY <1>0 DEF RequestsInv
  <2>2. pc'[u] = pc[u] \/ pc'[u] = "notify"
    BY <1>6
  <2>3. QED
    BY <1>4, <2>1, <2>2, RequestKept
<1>9. QED
  BY <1>4, <1>5, <1>7, <1>8 DEF IInv, RequestsInv

\* The invariant and a completed event that frees the range of its work.
LEMMA EventsReleasesKeeps ==
    ASSUME IInv, EventsReleases
    PROVE  IInv'
<1>0. /\ TypeOK /\ CallTypes /\ OwnersInv /\ RequestsInv
      /\ Events \in Actors /\ Events \notin Threads
      /\ Threads \subseteq Actors
  BY DescriptorsAssumption DEF IInv, Actors
<1>1. PICK p \in batch : DeallocateRaw(p) /\ batch' = batch \ {p}
  BY DEF EventsReleases
<1>2. /\ pc' = [pc EXCEPT ![Events] = "notify"]
      /\ UNCHANGED <<block, callbacks, queue_mutex>>
  BY DEF EventsReleases
<1>3. InUse(p)
  BY <1>0, <1>1 DEF OwnersInv
<1>4. /\ Sound(bfc') /\ HeldInv'
      /\ \A q : InUse(q)' <=> InUse(q) /\ q # p
      /\ \A u \in Threads : pc[u] # "backpedal"
      /\ UNCHANGED <<lock, size, attempt, deadline, bytes, gpu>>
  BY <1>1, <1>3, Released
<1>5. TypeOK' /\ CallTypes'
  BY <1>0, <1>2, <1>4 DEF TypeOK, CallTypes
<1>6. \A u \in Threads : pc'[u] = pc[u]
  BY <1>0, <1>2 DEF TypeOK
<1>7. OwnersInv'
  <2>1. \A u \in Threads : Owns(u)' <=> Owns(u)
    BY <1>6 DEF Owns
  <2>2. \A u \in Threads :
           Owns(u)' => /\ InUse(block[u])'
                       /\ block'[u] \notin callbacks'
                       /\ block'[u] \notin batch'
    BY <1>0, <1>1, <1>2, <1>4, <2>1 DEF OwnersInv
  <2>3. \A u, v \in Threads :
           Owns(u)' /\ Owns(v)' /\ block'[u] = block'[v] => u = v
    BY <1>0, <1>2, <2>1 DEF OwnersInv
  <2>4. /\ \A q \in callbacks' : InUse(q)' /\ q \notin batch'
        /\ \A q \in batch' : InUse(q)'
    BY <1>0, <1>1, <1>2, <1>4 DEF OwnersInv
  <2>5. ASSUME NEW i \in 1..Len(gpu')
        PROVE  \/ gpu'[i] \in callbacks'
               \/ \E u \in Threads : pc'[u] = "enqueue" /\ block'[u] = gpu'[i]
    BY <1>0, <1>2, <1>4, <1>6 DEF OwnersInv
  <2>6. QED
    BY <2>2, <2>3, <2>4, <2>5 DEF OwnersInv
<1>8. ASSUME NEW u \in Threads PROVE RequestInv(u)'
  <2>1. RequestInv(u)
    BY <1>0 DEF RequestsInv
  <2>2. QED
    BY <1>4, <1>6, <2>1, RequestKept
<1>9. QED
  BY <1>4, <1>5, <1>7, <1>8 DEF IInv, RequestsInv

-----------------------------------------------------------------------------
(* The invariant holds initially. *)
LEMMA InitIInv == Init => IInv
<1> SUFFICES ASSUME Init PROVE IInv
  OBVIOUS
<1>1. /\ TypeOK /\ CallTypes
  BY DEF Init, TypeOK, CallTypes, Actors
<1>2. Sound(bfc) /\ Used(bfc) = {}
  <2> DEFINE c == EmptyAllocator.curr_region
             C == << >>
             H == [p \in {} |-> 0]
  <2>1. bfc = Bfc(C, C, H, C, c, 0, FALSE)
    BY DEF Init, EmptyAllocator, Bfc
  <2>2. Len(C) = 0 /\ C \in Seq(Chunk) /\ C \in Seq(Region)
        /\ C \in Seq({})
    OBVIOUS
  <2> HIDE DEF C
  <2>3. Live(C) = {}
    BY <2>2 DEF Live
  <2>4. Chunks(C) /\ Regions(C) /\ Disjoint(C) /\ BinsRight(C)
    BY <2>2, <2>3 DEF Chunks, Regions, Disjoint, BinsRight
  <2>5. Indexed(C, H)
    BY <2>3 DEF Indexed
  <2>6. Spare(C, C)
    BY <2>2 DEF Spare
  <2>7. Structure(C, C, H, C)
    BY <2>3, <2>4, <2>5, <2>6 DEF Structure
  <2>8. TotalSize(C) = 0
    BY <2>2, TotalSizeEmpty
  <2>9. Good(c)
    BY GoodInitial
  <2>10. UsedRanges(C) = {}
    BY <2>3 DEF UsedRanges
  <2>11. 0 \in Nat /\ 0 <= DescriptorMemory
    BY DescriptorsAssumption
  <2> HIDE DEF c, H
  <2>12. PICK b, n : bfc = Bfc(C, C, H, C, c, n, b) /\ n = 0
    BY <2>1
  <2>13. QED
    BY <2>4, <2>7, <2>8, <2>9, <2>10, <2>11, <2>12, SoundFields
<1>3. HeldInv
  BY <1>2 DEF Init, HeldInv
<1>4. \A t \in Threads : pc[t] = "idle"
  BY DEF Init, Actors
<1>5. OwnersInv
  BY <1>4 DEF Init, OwnersInv, Owns
<1>6. RequestsInv
  BY <1>4 DEF Init, RequestsInv, RequestInv, Requesting
<1>7. QED
  BY <1>1, <1>2, <1>3, <1>5, <1>6 DEF IInv

(* Every step of a thread that allocates keeps the invariant. *)
LEMMA AllocatesKeeps ==
    ASSUME IInv, NEW t \in Threads, Allocates(t)
    PROVE  IInv'
<1>1. CASE AllocateFinds(t)
  BY <1>1, FindsKeeps
<1>2. CASE AllocateExtends(t)
  BY <1>2, ExtendsKeeps
<1>3. CASE AllocateBackpedals(t)
  BY <1>3, BackpedalsKeeps
<1>4. CASE AllocateFails(t)
  BY <1>4, FailsKeeps
<1>5. CASE BackpedalGivesUp(t)
  BY <1>5, GivesUpKeeps
<1>6. CASE BackpedalExtends(t)
  BY <1>6, BackpedalExtendsKeeps
<1>7. CASE BackpedalContinues(t)
  BY <1>7, ContinuesKeeps
<1>8. CASE RetryWaits(t) \/ RetryTimesOut(t)
  BY <1>8, WaitingKeeps DEF RetryTimesOut
<1>9. QED
  BY <1>1, <1>2, <1>3, <1>4, <1>5, <1>6, <1>7, <1>8 DEF Allocates

\* Every step keeps the inductive invariant.
LEMMA NextIInv == IInv /\ [Next]_vars => IInv'
<1> SUFFICES ASSUME IInv, [Next]_vars PROVE IInv'
  OBVIOUS
<1>1. ASSUME NEW t \in Threads, NEW n \in Sizes, ComputeStarts(t, n)
      PROVE  IInv'
  BY <1>1, StartsKeeps
<1>2. ASSUME NEW t \in Threads, KernelThread(t) PROVE IInv'
  <2>1. CASE Allocates(t)
    BY <2>1, AllocatesKeeps
  <2>2. CASE Uses(t)
    BY <2>2, UsesKeeps
  <2>3. CASE ThreadReleases(t)
    BY <2>3, ThreadReleasesKeeps
  <2>4. CASE Notifies(t)
    <3>1. t \in Actors
      BY DEF Actors
    <3>2. QED
      BY <2>4, <3>1, NotifiesKeeps
  <2>5. QED
    BY <1>2, <2>1, <2>2, <2>3, <2>4 DEF KernelThread
<1>3. ASSUME NEW t \in Threads, RetryWakes(t) \/ DeadlinePasses(t)
      PROVE  IInv'
  BY <1>3, WaitingKeeps
<1>4. CASE EventThread
  <2>1. CASE EventsTakes \/ EventsUnlocks
    BY <2>1, EventsKeep
  <2>2. CASE EventsReleases
    BY <2>2, EventsReleasesKeeps
  <2>3. CASE Notifies(Events)
    <3>1. Events \in Actors
      BY DEF Actors
    <3>2. QED
      BY <2>3, <3>1, NotifiesKeeps
  <2>4. QED
    BY <1>4, <2>1, <2>2, <2>3 DEF EventThread
<1>5. CASE GpuCompletes
  BY <1>5, GpuKeeps
<1>6. CASE UNCHANGED vars
  <2>1. UNCHANGED <<bfc, lock, pc, size, attempt, deadline, bytes, block,
                    callbacks, batch, queue_mutex, gpu, held>>
    BY <1>6 DEF vars, bfcVars, callVars, queueVars
  <2>2. TypeOK' /\ CallTypes'
    BY <2>1 DEF IInv, TypeOK, CallTypes
  <2>3. OwnersInv'
    BY <2>1, OwnersKept DEF IInv, Owns
  <2>4. QED
    BY <2>1, <2>2, <2>3, QuietKeeps
<1>7. QED
  BY <1>1, <1>2, <1>3, <1>4, <1>5, <1>6 DEF Next

(* The inductive invariant holds in every reachable state, for any threads,  *)
(* sizes and memory.                                                         *)
THEOREM Invariance == Spec => []IInv
BY InitIInv, NextIInv, PTL DEF Spec

-----------------------------------------------------------------------------
(* The properties that follow from the invariant. *)

\* In a sound allocator the handles are those of the live chunks.
LEMMA LiveHandles ==
    ASSUME Sound(bfc)
    PROVE  Handles = Live(bfc.chunks)
<1> DEFINE C == bfc.chunks
<1>1. Chunks(C)
  BY DEF Sound, Structure
<1>2. DeletedChunk.size = 0
  BY DEF DeletedChunk
<1>3. ASSUME NEW h \in 1..Len(C) PROVE C[h] # DeletedChunk <=> C[h].size > 0
  <2>1. C[h].size \in Nat
    BY <1>1, SizesAssumption, ChunkFields
  <2>2. C[h].size = 0 => C[h] = DeletedChunk
    BY <1>1 DEF Chunks
  <2>3. QED
    BY <1>2, <2>1, <2>2
<1>4. QED
  BY <1>3 DEF Handles, Live

\* In a sound allocator the chunks tile the regions.
LEMMA SoundTiles == Sound(bfc) => ChunksTileRegions
<1> SUFFICES ASSUME Sound(bfc) PROVE ChunksTileRegions
  OBVIOUS
<1> DEFINE C == bfc.chunks
           R == bfc.regions
           H == bfc.handles
<1>1. /\ Structure(C, bfc.free_list, H, R) /\ bfc.total = TotalSize(R)
      /\ Indexed(C, H) /\ R \in Seq(Region)
  BY DEF Sound, Structure, Regions
<1>2. Handles = Live(C)
  BY LiveHandles
<1>3. \A k \in 1..Len(R) : R[k] \in Range(R)
  BY <1>1 DEF Range
<1> HIDE DEF C, R, H
<1>4. ASSUME NEW h \in Live(C)
      PROVE  /\ C[h].size > 0
             /\ H[C[h].ptr] = h
             /\ IF C[h].next = Invalid
                THEN \E r \in Range(R) : End(C[h]) = End(r)
                ELSE /\ C[C[h].next].ptr = End(C[h])
                     /\ C[C[h].next].prev = h
             /\ C[h].prev = Invalid => \E r \in Range(R) : C[h].ptr = r.ptr
  <2>1. Placed(C, R, h)
    BY <1>1 DEF Structure
  <2>2. PICK k : k = RegionOf(C[h].ptr)
    OBVIOUS
  <2>3. /\ k \in 1..Len(R)
        /\ C[h].next = Invalid => End(C[h]) = End(R[k])
        /\ C[h].next # Invalid => /\ C[C[h].next].ptr = End(C[h])
                                  /\ C[C[h].next].prev = h
        /\ C[h].prev = Invalid => C[h].ptr = R[k].ptr
    BY <2>1, <2>2 DEF Placed
  <2>4. C[h].size > 0
    BY DEF Live
  <2>5. H[C[h].ptr] = h
    BY <1>1 DEF Indexed
  <2>6. R[k] \in Range(R)
    BY <1>3, <2>3
  <2>7. QED
    BY <2>3, <2>4, <2>5, <2>6
<1>5. DOMAIN H = {C[h].ptr : h \in Live(C)}
  BY <1>1 DEF Indexed
<1>6. QED
  BY <1>1, <1>2, <1>4, <1>5 DEF ChunksTileRegions, C, R, H

\* In a sound allocator the bins hold exactly the free chunks.
LEMMA SoundBins == Sound(bfc) /\ HeldInv => BinsHoldFreeChunks
<1> SUFFICES ASSUME Sound(bfc), HeldInv PROVE BinsHoldFreeChunks
  OBVIOUS
<1> DEFINE C == bfc.chunks
<1>1. BinsRight(C) /\ Handles = Live(C)
  BY LiveHandles DEF Sound
<1>2. ASSUME NEW h \in Live(C)
      PROVE  /\ C[h].bin_num = IF C[h].in_use THEN NoBin
                               ELSE BinNumForSize[C[h].size]
             /\ ~C[h].in_use => ~IsFree(bfc, C[h].next)
  BY <1>1 DEF BinsRight, BinOf, NextIsFree, IsFree
<1>3. {[ptr |-> b.ptr, size |-> b.size] : b \in held} = UsedRanges(C)
  <2>1. held = {HeldRange(r) : r \in UsedRanges(C)}
    BY DEF HeldInv, Used
  <2>2. \A r \in UsedRanges(C) :
           [ptr |-> HeldRange(r).ptr, size |-> HeldRange(r).size] = r
    BY DEF HeldRange, UsedRanges
  <2>3. QED
    BY <2>1, <2>2
<1>4. UsedRanges(C) = {[ptr |-> C[h].ptr, size |-> C[h].size] :
                         h \in {g \in Handles : C[g].in_use}}
  BY <1>1 DEF UsedRanges
<1>5. QED
  BY <1>1, <1>2, <1>3, <1>4 DEF BinsHoldFreeChunks

(* Between any two critical sections the chunks tile the regions, the free   *)
(* ones are in the bins of their sizes with no two of them neighbours, and   *)
(* the ones in use are exactly the ranges that kernels hold.                 *)
THEOREM Allocator == Spec => []BfcInv
<1>1. IInv => BfcInv
  BY SoundTiles, SoundBins DEF IInv, BfcInv
<1>2. QED
  BY <1>1, Invariance, PTL

\* The inductive invariant keeps descriptors alive while work uses them.
LEMMA OwnersOutlive == IInv => DescriptorsOutliveWork
<1> SUFFICES ASSUME IInv, NEW i \in 1..Len(gpu)
             PROVE  /\ \E b \in held : b.ptr = gpu[i]
                    /\ gpu[i] \notin batch
                    /\ \A t \in Threads : pc[t] = "release"
                                             => block[t] # gpu[i]
  BY DEF DescriptorsOutliveWork
<1>1. OwnersInv /\ HeldInv
  BY DEF IInv
<1>2. \A p : InUse(p) => \E b \in held : b.ptr = p
  <2>1. \A r : HeldRange(r).ptr = r.ptr
    BY DEF HeldRange
  <2>2. QED
    BY <1>1, <2>1 DEF InUse, HeldInv
<1>3. CASE gpu[i] \in callbacks
  BY <1>1, <1>2, <1>3 DEF OwnersInv, Owns
<1>4. CASE \E t \in Threads : pc[t] = "enqueue" /\ block[t] = gpu[i]
  <2>1. PICK t \in Threads : pc[t] = "enqueue" /\ block[t] = gpu[i]
    BY <1>4
  <2>2. Owns(t)
    BY <2>1 DEF Owns
  <2>3. InUse(gpu[i]) /\ gpu[i] \notin batch
    BY <1>1, <2>1, <2>2 DEF OwnersInv
  <2>4. ASSUME NEW u \in Threads, pc[u] = "release" PROVE block[u] # gpu[i]
    <3>1. Owns(u) /\ u # t
      BY <2>1, <2>4 DEF Owns
    <3>2. QED
      BY <1>1, <2>1, <2>2, <3>1 DEF OwnersInv
  <2>5. QED
    BY <1>2, <2>3, <2>4
<1>5. QED
  BY <1>1, <1>3, <1>4 DEF OwnersInv

(* A range that the GPU may still read is held, and neither a thread nor the *)
(* event thread is about to release it.                                      *)
THEOREM Outliving == Spec => []DescriptorsOutliveWork
BY Invariance, OwnersOutlive, PTL

-----------------------------------------------------------------------------
(* Steps that grant, release and fail. *)

\* A call that returns a range goes on to bind it.
LEMMA ReturnBinds ==
    ASSUME NEW t, NEW s, Return(t, s)
    PROVE  pc' = [pc EXCEPT ![t] = "bind"]
BY Zenon DEF Return

\* So does every successful allocation.
LEMMA GrantsBind ==
    ASSUME NEW t,
           AllocateFinds(t) \/ AllocateExtends(t) \/ BackpedalExtends(t)
    PROVE  pc' = [pc EXCEPT ![t] = "bind"]
BY ReturnBinds DEF AllocateFinds, AllocateExtends, BackpedalExtends,
                   ReturnFromNewRegion

(* The step in which an allocation fails. *)
LEMMA FailingStep ==
    ASSUME IInv, Next, NEW t \in Threads, pc[t] \in {"attempt", "backpedal"},
           pc'[t] = "idle"
    PROVE  AllocateFails(t) \/ BackpedalGivesUp(t)
<1>0. /\ pc \in [Actors -> {"idle", "attempt", "backpedal", "failed",
                            "waiting", "bind", "enqueue", "release",
                            "notify"}]
      /\ t \in Actors /\ Threads \subseteq Actors
      /\ Events \in Actors /\ Events # t
  BY DescriptorsAssumption DEF IInv, TypeOK, Actors
<1>1. ASSUME NEW a \in Actors, NEW x, pc' = [pc EXCEPT ![a] = x]
      PROVE  a = t /\ x = "idle"
  BY <1>0, <1>1
<1>2. ASSUME NEW a \in Actors, Notifies(a) PROVE FALSE
  BY <1>0, <1>2 DEF Notifies, NotifyDealloc
<1>3. pc' # pc
  OBVIOUS
<1>4. ASSUME NEW u \in Threads, NEW n \in Sizes, ComputeStarts(u, n)
      PROVE  FALSE
  BY <1>0, <1>1, <1>4 DEF ComputeStarts
<1>5. ASSUME NEW u \in Threads, KernelThread(u)
      PROVE  AllocateFails(t) \/ BackpedalGivesUp(t)
  <2>0. u \in Actors
    BY <1>0
  <2>1. CASE AllocateFinds(u) \/ AllocateExtends(u) \/ BackpedalExtends(u)
    BY <1>1, <2>0, <2>1, GrantsBind
  <2>2. CASE AllocateFails(u) \/ BackpedalGivesUp(u)
    <3>1. PICK x : pc' = [pc EXCEPT ![u] = x]
      BY <2>2 DEF AllocateFails, BackpedalGivesUp, Fail
    <3>2. u = t
      BY <1>1, <2>0, <3>1
    <3>3. QED
      BY <2>2, <3>2
  <2>3. CASE AllocateBackpedals(u) \/ RetryWaits(u) \/ RetryTimesOut(u)
    <3>1. \/ pc' = [pc EXCEPT ![u] = "backpedal"]
          \/ pc' = [pc EXCEPT ![u] = "waiting"]
          \/ pc' = [pc EXCEPT ![u] = "attempt"]
      BY <2>3 DEF AllocateBackpedals, RetryWaits, RetryTimesOut, RetryWakes
    <3>2. QED
      BY <1>1, <2>0, <3>1
  <2>4. CASE BackpedalContinues(u)
    BY <1>3, <2>4 DEF BackpedalContinues
  <2>5. CASE Uses(u) \/ ThreadReleases(u)
    <3>1. /\ pc[u] \in {"bind", "enqueue", "release"}
          /\ \E x : pc' = [pc EXCEPT ![u] = x]
      BY <2>5 DEF Uses, ComputeSubmits, ComputeFails, EnqueueQueues,
                  EnqueueInvokes, ThreadReleases
    <3>2. QED
      BY <1>1, <2>0, <3>1
  <2>6. CASE Notifies(u)
    BY <1>2, <2>0, <2>6
  <2>7. QED
    BY <1>5, <2>1, <2>2, <2>3, <2>4, <2>5, <2>6 DEF KernelThread, Allocates
<1>6. ASSUME NEW u \in Threads, RetryWakes(u) \/ DeadlinePasses(u)
      PROVE  FALSE
  BY <1>0, <1>1, <1>3, <1>6 DEF RetryWakes, DeadlinePasses
<1>7. ASSUME EventThread PROVE FALSE
  <2>1. ~Notifies(Events)
    BY <1>0, <1>2
  <2>2. \E x : pc' = [pc EXCEPT ![Events] = x]
    BY <1>7, <2>1 DEF EventThread, EventsTakes, EventsReleases, EventsUnlocks
  <2>3. QED
    BY <1>0, <1>1, <2>2
<1>8. ~GpuCompletes
  BY <1>3 DEF GpuCompletes
<1>9. QED
  BY <1>4, <1>5, <1>6, <1>7, <1>8 DEF Next

(* If nothing fits a request, every free chunk is smaller: no rounding and   *)
(* no bin hides one that is large enough.                                    *)
LEMMA FreeIsSmaller ==
    ASSUME IInv, NEW t \in Threads, pc[t] \in {"attempt", "backpedal"},
           size[t] > MaxAllocationSize \/ NothingFits(t),
           NEW h \in Handles, IsFree(bfc, h)
    PROVE  bfc.chunks[h].size < size[t]
<1> DEFINE C == bfc.chunks
<1>1. /\ Sound(bfc) /\ Chunks(C) /\ BinsRight(C)
      /\ size[t] \in Nat \ {0}
  BY DescriptorsAssumption
     DEF IInv, Sound, Structure, RequestsInv, RequestInv, Requesting
<1>2. h \in Live(C) /\ h \in 1..Len(C)
  BY <1>1, LiveHandles DEF Live
<1>3. /\ C[h].size \in Nat /\ C[h].size <= MaxAllocationSize
      /\ Granular(C[h].size) /\ ~C[h].in_use
  BY <1>1, <1>2, SizesAssumption, ChunkFields DEF Chunks, IsFree
<1>4. CASE size[t] > MaxAllocationSize
  BY <1>1, <1>3, <1>4, GoodMax
<1>5. CASE size[t] <= MaxAllocationSize /\ NothingFits(t)
  <2>1. Good(Rounded(t))
    BY <1>5, RequestGood
  <2>2. Rounded(t) \in Bytes /\ Rounded(t) \in Nat
    BY <2>1, GoodMax DEF Good, Bytes
  <2>3. FittingChunks(bfc, Rounded(t))
          = {g \in Live(C) : ~C[g].in_use /\ C[g].size >= Rounded(t)}
    BY <1>1, <2>2, FitsAreFree
  <2>4. ~(C[h].size >= Rounded(t))
    BY <1>2, <1>3, <1>5, <2>3 DEF NothingFits
  <2>5. size[t] <= C[h].size => Rounded(t) <= C[h].size
    BY <1>1, <1>3, Rounding DEF Rounded, Granular
  <2>6. QED
    BY <1>1, <1>3, <2>2, <2>4, <2>5
<1>6. QED
  BY <1>1, <1>4, <1>5, GoodMax

\* An allocation that fails found no chunk and could get no more memory.
LEMMA FailureStep ==
    ASSUME IInv, Next, NEW t \in Threads, pc[t] \in {"attempt", "backpedal"},
           pc'[t] = "idle"
    PROVE  /\ deadline[t] = "passed"
           /\ \A h \in Handles : IsFree(bfc, h)
                                     => bfc.chunks[h].size < size[t]
           /\ size[t] <= MaxAllocationSize
                 => bfc.total + MaxAllocationSize > DescriptorMemory
<1>0. RequestInv(t) /\ size[t] \in Nat
  BY DEF IInv, RequestsInv, CallTypes
<1>1. AllocateFails(t) \/ BackpedalGivesUp(t)
  BY FailingStep
<1>2. Fail(t)
  BY <1>1 DEF AllocateFails, BackpedalGivesUp
<1>3. deadline[t] = "passed"
  BY <1>0, <1>2, FailLeaves DEF RequestInv
<1>4. /\ size[t] > MaxAllocationSize \/ NothingFits(t)
      /\ size[t] <= MaxAllocationSize => NoMemory
  <2>1. CASE BackpedalGivesUp(t)
    BY <1>0, <2>1 DEF BackpedalGivesUp, RequestInv
  <2>2. CASE AllocateFails(t)
    <3>1. CASE size[t] > MaxAllocationSize
      BY <1>0, <3>1, GoodMax
    <3>2. CASE size[t] <= MaxAllocationSize
      <4>1. /\ Good(Rounded(t)) /\ Good(BytesToExtend(bfc, Rounded(t)))
        BY <3>2, RequestGood
      <4>2. /\ Rounded(t) \in Nat /\ Rounded(t) <= MaxAllocationSize
            /\ BytesToExtend(bfc, Rounded(t)) \in Nat
            /\ BytesToExtend(bfc, Rounded(t)) <= MaxAllocationSize
        BY <4>1, GoodMax DEF Good, Bytes
      <4>3. /\ bfc.total \in Nat /\ bfc.total <= DescriptorMemory
        BY DEF IInv, Sound
      <4>4. /\ AvailableBytes(bfc) \in Nat
            /\ AvailableBytes(bfc) >= MaxAllocationSize
        BY <4>3, Available
      <4>5. MayExtend(t)
        BY <3>2, <4>2, <4>4, GoodMax DEF MayExtend
      <4>6. /\ NothingFits(t)
            /\ ~SubAllocates(BytesToExtend(bfc, Rounded(t)))
        BY <1>0, <2>2, <3>2, <4>5, GoodMax DEF AllocateFails
      <4>7. NoMemory
        BY <4>2, <4>3, <4>6, GoodMax, DescriptorsAssumption
           DEF NoMemory, SubAllocates
      <4>8. QED
        BY <4>6, <4>7
    <3>3. QED
      BY <1>0, <3>1, <3>2, GoodMax
  <2>3. QED
    BY <1>1, <2>1, <2>2
<1>5. ASSUME NEW h \in Handles, IsFree(bfc, h)
      PROVE  bfc.chunks[h].size < size[t]
  BY <1>4, <1>5, FreeIsSmaller
<1>6. QED
  BY <1>3, <1>4, <1>5 DEF NoMemory

(* nullptr is returned only after the deadline, when no free chunk is large  *)
(* enough and there is no memory for another region of the largest size.     *)
THEOREM RealFailures == Spec => FailureIsReal
<1>1. IInv /\ [Next]_vars
        => [\A t \in Threads :
              pc[t] \in {"attempt", "backpedal"} /\ pc'[t] = "idle"
                  => /\ deadline[t] = "passed"
                     /\ \A h \in Handles : IsFree(bfc, h)
                                               => bfc.chunks[h].size < size[t]
                     /\ size[t] <= MaxAllocationSize
                           => bfc.total + MaxAllocationSize
                                > DescriptorMemory]_vars
  BY FailureStep
<1>2. QED
  BY <1>1, Invariance, PTL DEF Spec, FailureIsReal

(* What a step does to the ranges held. *)
LEMMA HeldStep ==
    ASSUME IInv, [Next]_vars
    PROVE  \/ held' = held
           \/ \E t \in Threads : \E p, z : Granted(t, p, z)
           \/ \E p : InUse(p) /\ DeallocateRaw(p)
<1>0. IInv /\ Sound(bfc) /\ OwnersInv /\ RequestsInv
  BY DEF IInv
<1>1. ASSUME NEW t \in Threads, AllocateFinds(t)
      PROVE  \E p, z : Granted(t, p, z)
  <2>1. /\ pc[t] = "attempt" /\ size[t] <= MaxAllocationSize
        /\ FittingChunks(bfc, Rounded(t)) # {} /\ Return(t, bfc)
    BY <1>1 DEF AllocateFinds, Attempting, NothingFits
  <2>2. Good(Rounded(t))
    BY <1>0, <2>1, RequestGood
  <2>3. QED
    BY <1>0, <2>1, <2>2, ReturnGrants
<1>2. ASSUME NEW t \in Threads, AllocateExtends(t)
      PROVE  \E p, z : Granted(t, p, z)
  <2> DEFINE k == BytesToExtend(bfc, Rounded(t))
  <2>1. /\ pc[t] = "attempt" /\ size[t] <= MaxAllocationSize
        /\ SubAllocates(k) /\ ReturnFromNewRegion(t, k)
    BY <1>2 DEF AllocateExtends, Attempting, MayExtend
  <2>2. Good(Rounded(t)) /\ Good(k) /\ Rounded(t) <= k
    BY <1>0, <2>1, RequestGood
  <2> HIDE DEF k
  <2>3. QED
    BY <1>0, <2>1, <2>2, NewRegionGrants
<1>3. ASSUME NEW t \in Threads, BackpedalExtends(t)
      PROVE  \E p, z : Granted(t, p, z)
  <2> DEFINE k == Backpedal(bytes[t])
  <2>1. /\ pc[t] = "backpedal" /\ k >= Rounded(t) /\ SubAllocates(k)
        /\ ReturnFromNewRegion(t, k)
    BY <1>3 DEF BackpedalExtends
  <2>2. Good(bytes[t]) /\ size[t] <= MaxAllocationSize
    BY <1>0, <2>1 DEF RequestsInv, RequestInv
  <2>3. Good(Rounded(t))
    BY <1>0, <2>1, <2>2, RequestGood
  <2>4. Rounded(t) \in Bytes /\ Rounded(t) \in Nat
    BY <2>3, GoodMax DEF Good, Bytes
  <2>5. k \in Nat /\ Good(k)
    BY <2>1, <2>2, <2>4, GoodBackpedal
  <2>6. Rounded(t) <= k
    BY <2>1, <2>4, <2>5
  <2> HIDE DEF k
  <2>7. QED
    BY <1>0, <2>1, <2>3, <2>5, <2>6, NewRegionGrants
<1>4. ASSUME NEW t \in Threads, ThreadReleases(t)
      PROVE  InUse(block[t]) /\ DeallocateRaw(block[t])
  BY <1>0, <1>4 DEF ThreadReleases, OwnersInv, Owns
<1>5. ASSUME EventsReleases PROVE \E p : InUse(p) /\ DeallocateRaw(p)
  BY <1>0, <1>5 DEF EventsReleases, OwnersInv
<1>6. ASSUME NEW t \in Threads,
             \/ \E n \in Sizes : ComputeStarts(t, n)
             \/ AllocateBackpedals(t) \/ AllocateFails(t)
             \/ BackpedalGivesUp(t) \/ BackpedalContinues(t)
             \/ RetryWaits(t) \/ RetryWakes(t) \/ DeadlinePasses(t)
      PROVE  held' = held
  BY <1>6 DEF ComputeStarts, AllocateBackpedals, AllocateFails,
              BackpedalGivesUp, BackpedalContinues, RetryWaits, RetryWakes,
              DeadlinePasses
<1>7. ASSUME NEW t \in Threads, Uses(t) PROVE held' = held
  BY <1>7 DEF Uses, ComputeSubmits, ComputeFails, EnqueueQueues,
              EnqueueInvokes
<1>8. ASSUME NEW a \in Actors, Notifies(a) PROVE held' = held
  BY <1>8 DEF Notifies
<1>9. ASSUME EventsTakes \/ EventsUnlocks \/ GpuCompletes
      PROVE  held' = held
  BY <1>9 DEF EventsTakes, EventsUnlocks, GpuCompletes
<1>10. CASE UNCHANGED vars
  BY <1>10 DEF vars
<1>11. Events \in Actors /\ Threads \subseteq Actors
  BY DEF Actors
<1>12. ASSUME NEW t \in Threads, KernelThread(t)
       PROVE  \/ held' = held
              \/ \E p, z : Granted(t, p, z)
              \/ \E p : InUse(p) /\ DeallocateRaw(p)
  <2>1. CASE Allocates(t)
    BY <1>1, <1>2, <1>3, <1>6, <2>1 DEF Allocates, RetryTimesOut
  <2>2. QED
    BY <1>4, <1>7, <1>8, <1>11, <1>12, <2>1 DEF KernelThread
<1>13. CASE EventThread
  BY <1>5, <1>8, <1>9, <1>11, <1>13 DEF EventThread
<1>14. QED
  BY <1>6, <1>9, <1>10, <1>12, <1>13 DEF Next

(* A grant of the allocator is a grant of the table. *)
LEMMA GrantIsGrant ==
    ASSUME IInv, NEW t, NEW p, NEW z, Granted(t, p, z)
    PROVE  Table!Next
<1> DEFINE b == [ptr |-> p, size |-> z, memory |-> p]
           r == RangeOf(p, z)
<1>1. /\ Sound(bfc') /\ r \in Used(bfc') /\ r.ptr = p /\ r.size = z
      /\ Used(bfc) \subseteq Used(bfc')
      /\ \A q \in Used(bfc) : q.ptr # p
      /\ held' = held \cup {b}
  BY DEF Granted, RangeOf
<1>2. /\ b.ptr = p /\ b.size = z /\ b.memory = p
  OBVIOUS
<1>3. p \in Nat \ {0} /\ z \in Nat \ {0}
  BY <1>1, UsedApart
<1>4. ASSUME NEW c \in held
      PROVE  /\ c.ptr \in Nat /\ c.size \in Nat /\ c.ptr # p
             /\ c.memory = c.ptr
             /\ p + z <= c.ptr \/ c.ptr + c.size <= p
  <2>1. PICK q \in Used(bfc) : c = HeldRange(q)
    BY DEF IInv, HeldInv
  <2>2. c.ptr = q.ptr /\ c.size = q.size /\ c.memory = q.ptr
    BY <2>1 DEF HeldRange
  <2>3. q \in Used(bfc') /\ q.ptr # p
    BY <1>1
  <2>4. q.ptr \in Nat /\ q.size \in Nat
    BY <1>1, <2>3, UsedApart
  <2>5. r.ptr + r.size <= q.ptr \/ q.ptr + q.size <= r.ptr
    BY <1>1, <2>3, UsedApart
  <2>6. QED
    BY <1>1, <2>2, <2>3, <2>4, <2>5
<1> HIDE DEF b, r
<1>5. b \notin held
  BY <1>2, <1>4
<1>6. Table!Addresses(b) = p .. (p + z - 1)
  BY <1>2 DEF Table!Addresses
<1>7. 0 \notin Table!Addresses(b) /\ b.size > 0
  BY <1>2, <1>3, <1>6
<1>8. ASSUME NEW c \in held
      PROVE  /\ Table!Addresses(b) \cap Table!Addresses(c) = {}
             /\ b.memory # c.memory
  <2>1. Table!Addresses(c) = c.ptr .. (c.ptr + c.size - 1)
    BY DEF Table!Addresses
  <2>2. PICK x, y : x = c.ptr /\ y = c.size
    OBVIOUS
  <2>3. /\ x \in Nat /\ y \in Nat /\ x # p
        /\ p + z <= x \/ x + y <= p
    BY <1>4, <2>2
  <2>4. (p .. (p + z - 1)) \cap (x .. (x + y - 1)) = {}
    BY <1>3, <2>3
  <2>5. QED
    BY <1>2, <1>4, <1>6, <2>1, <2>2, <2>4
<1>9. Table!Grant(b)
  BY <1>1, <1>7, <1>8 DEF Table!Grant
<1>10. QED
  BY <1>1, <1>5, <1>9 DEF Table!Next

\* Freeing a held range is a release of the allocation table.
LEMMA ReleaseIsRelease ==
    ASSUME IInv, NEW p, InUse(p), DeallocateRaw(p)
    PROVE  Table!Next
<1>1. PICK r \in Used(bfc) : r.ptr = p
  BY DEF InUse
<1>2. held' = {b \in held : b.ptr # p}
  BY DEF DeallocateRaw
<1>3. /\ Sound(bfc) /\ held = {HeldRange(q) : q \in Used(bfc)}
  BY DEF IInv, HeldInv
<1>4. \A q : HeldRange(q).ptr = q.ptr
  BY DEF HeldRange
<1>5. ASSUME NEW q \in Used(bfc), q.ptr = p PROVE q = r
  <2>1. \/ q = r
        \/ q.ptr + q.size <= r.ptr
        \/ r.ptr + r.size <= q.ptr
    BY <1>3, UsedApart
  <2>2. /\ q.ptr \in Nat /\ q.size \in Nat \ {0}
        /\ r.size \in Nat \ {0}
    BY <1>3, UsedApart
  <2>3. QED
    BY <1>1, <1>5, <2>1, <2>2
<1>6. held' = held \ {HeldRange(r)} /\ HeldRange(r) \in held
  BY <1>1, <1>2, <1>3, <1>4, <1>5
<1>7. QED
  BY <1>6 DEF Table!Next, Table!Release

(* The allocator with its chunks, bins and regions implements the table of   *)
(* ranges: a range handed out overlaps no range still held.                  *)
THEOREM TableRefinement == Spec => TableSpec
<1>1. Init => Table!Init
  BY DEF Init, Table!Init
<1>2. IInv /\ [Next]_vars => [Table!Next]_held
  BY HeldStep, GrantIsGrant, ReleaseIsRelease
<1>3. QED
  BY <1>1, <1>2, Invariance, PTL DEF Spec, TableSpec, Table!Spec
=============================================================================

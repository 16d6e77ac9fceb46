-------------------------- MODULE PooledHeap_proofs --------------------------
(***************************************************************************)
(* What the operations of PooledHeap do to a pool, for every alignment,    *)
(* every minimal size of a chunk and every sequence of sizes.              *)
(***************************************************************************)
EXTENDS PooledHeap, NaturalsInduction, SequenceTheorems, FiniteSetTheorems,
        TLAPS

Allocations == [size : Nat \ {0}, done : Nat, offset : Nat]

Chunks == [resource : Nat, capacity : Nat \ {0}, allocations : Seq(Allocations)]

End(a) == a.offset + a.size

(* Allocations lie in a row, those after the m-th before the first m.        *)
Row(allocs, m) ==
    \A j, k \in 1..Len(allocs) : j < k =>
        IF j <= m /\ m < k THEN End(allocs[k]) <= allocs[j].offset
                           ELSE End(allocs[j]) <= allocs[k].offset

Ring(allocs) == \E m \in 0..Len(allocs) : Row(allocs, m)

Within(allocs, capacity) ==
    \A j \in 1..Len(allocs) : /\ End(allocs[j]) <= capacity
                              /\ allocs[j].offset % Alignment = 0

Sorted(allocs) ==
    \A j, k \in 1..Len(allocs) : j < k => allocs[j].done <= allocs[k].done

ChunkOK(c) ==
    /\ Ring(c.allocations)
    /\ Within(c.allocations, c.capacity)
    /\ Sorted(c.allocations)

(* Chunks have resources of their own and are sorted by capacity.            *)
PoolOK(cs) ==
    /\ cs \in Seq(Chunks)
    /\ \A i \in 1..Len(cs) : ChunkOK(cs[i])
    /\ \A i, j \in 1..Len(cs) : /\ i <= j => cs[i].capacity <= cs[j].capacity
                                /\ cs[i].resource = cs[j].resource => i = j

PoolInv ==
    /\ PoolOK(chunks)
    /\ resources \in Nat
    /\ \A i \in 1..Len(chunks) : chunks[i].resource \in 1..resources
    /\ total_capacity = CapacityOf(chunks)

-----------------------------------------------------------------------------
(* A set of natural numbers has a least element, the first place in a search.*)
LEMMA LeastElement ==
    ASSUME NEW S \in SUBSET Nat, S # {}
    PROVE  \E m \in S : \A n \in S : m <= n
<1>1. PICK m \in S : \A n \in S : ~(<<n, m>> \in OpToRel(<, Nat))
  BY NatLessThanWellFounded, WFMin, Zenon
<1>2. \A n \in S : ~(n < m)
  BY <1>1 DEF OpToRel
<1>3. QED
  BY <1>2

LEMMA FunctionIsSeq ==
    ASSUME NEW S, NEW n \in Nat, NEW f \in [1..n -> S]
    PROVE  f \in Seq(S) /\ Len(f) = n
<1>1. f \in Seq(S) /\ DOMAIN f = 1..n
  BY SeqDef
<1>2. QED
  BY <1>1, LenProperties

LEMMA MinIsLeast ==
    ASSUME NEW S \in SUBSET Nat, S # {}
    PROVE  Min(S) \in S /\ \A n \in S : Min(S) <= n
BY LeastElement DEF Min

LEMMA MaxOfThree ==
    ASSUME NEW a \in Nat, NEW b \in Nat, NEW c \in Nat
    PROVE  LET m == Max({a, b, c})
           IN  m \in Nat /\ m >= a /\ m >= b /\ m >= c
<1>1. \E m \in {a, b, c} : \A n \in {a, b, c} : m >= n
  <2>1. CASE a >= b /\ a >= c
    BY <2>1
  <2>2. CASE b >= a /\ b >= c
    BY <2>2
  <2>3. CASE c >= a /\ c >= b
    BY <2>3
  <2>4. QED
    BY <2>1, <2>2, <2>3
<1>2. Max({a, b, c}) \in {a, b, c} /\ \A n \in {a, b, c} : Max({a, b, c}) >= n
  BY <1>1 DEF Max
<1>3. QED
  BY <1>2

-----------------------------------------------------------------------------
(* The sum of capacities, as the numbers that the loop over the chunks adds  *)
(* up to.                                                                    *)
Sums(cs, p) ==
    /\ p \in [0..Len(cs) -> Nat]
    /\ p[0] = 0
    /\ \A n \in 1..Len(cs) : p[n] = p[n - 1] + cs[n].capacity

LEMMA SumsExist ==
    ASSUME NEW cs \in Seq(Chunks)
    PROVE  \E p : Sums(cs, p)
<1> DEFINE Upto(n, p) == /\ p \in [0..n -> Nat]
                         /\ p[0] = 0
                         /\ \A k \in 1..n : p[k] = p[k - 1] + cs[k].capacity
           Bad == {n \in 0..Len(cs) : ~\E p : Upto(n, p)}
<1>1. Len(cs) \in Nat /\ \A k \in 1..Len(cs) : cs[k].capacity \in Nat
  <2>1. Len(cs) \in Nat
    BY LenProperties
  <2>2. ASSUME NEW k \in 1..Len(cs) PROVE cs[k].capacity \in Nat
    <3>1. cs[k] \in Chunks
      BY ElementOfSeq
    <3>2. QED
      BY <3>1 DEF Chunks
  <2>3. QED
    BY <2>1, <2>2
<1>2. Bad = {}
  <2> SUFFICES ASSUME Bad # {} PROVE FALSE
    OBVIOUS
  <2>0. /\ Bad \in SUBSET Nat
        /\ \A k \in 0..Len(cs) : k \notin Bad => \E p : Upto(k, p)
    <3>1. Bad \subseteq 0..Len(cs)
      BY Zenon
    <3>2. \A k \in 0..Len(cs) : k \notin Bad => \E p : Upto(k, p)
      BY Zenon
    <3> HIDE DEF Bad, Upto
    <3>3. QED
      BY <1>1, <3>1, <3>2
  <2>1. PICK n \in Bad : \A k \in Bad : n <= k
    BY LeastElement, <2>0
  <2>2. Upto(0, [k \in 0..0 |-> 0])
    BY <1>1
  <2>3. n # 0 /\ n \in 0..Len(cs) /\ ~\E p : Upto(n, p)
    BY <2>1, <2>2, Zenon
  <2>4. PICK p : Upto(n - 1, p)
    <3>1. n - 1 \in 0..Len(cs) /\ n - 1 < n
      BY <1>1, <2>3
    <3>2. n - 1 \notin Bad
      <4> HIDE DEF Bad
      <4> QED BY <2>1, <2>0, <3>1
    <3>3. QED
      BY <2>0, <3>1, <3>2, Zenon
  <2> DEFINE q == [k \in 0..n |-> IF k = n THEN p[n - 1] + cs[n].capacity
                                           ELSE p[k]]
  <2>5. p[n - 1] + cs[n].capacity \in Nat /\ \A k \in 0..(n - 1) : p[k] \in Nat
    BY <1>1, <2>3, <2>4
  <2>6. q \in [0..n -> Nat]
    BY <2>3, <2>5
  <2>7. q[0] = 0
    BY <2>3, <2>4
  <2>8. \A k \in 1..n : q[k] = q[k - 1] + cs[k].capacity
    BY <2>3, <2>4
  <2>9. QED
    BY <2>3, <2>6, <2>7, <2>8
<1>3. QED
  BY <1>1, <1>2 DEF Sums

LEMMA CapacityIsSum ==
    ASSUME NEW cs \in Seq(Chunks), NEW p, Sums(cs, p)
    PROVE  CapacityOf(cs) = p[Len(cs)]
<1> DEFINE Rec(s) == s = [n \in 0..Len(cs) |->
                            IF n = 0 THEN 0 ELSE s[n - 1] + cs[n].capacity]
           sum == CHOOSE s : Rec(s)
           Bad == {n \in 0..Len(cs) : sum[n] # p[n]}
<1>1. Len(cs) \in Nat
  BY LenProperties
<1>2. Rec(p)
  <2>1. p = [n \in 0..Len(cs) |-> p[n]]
    BY DEF Sums
  <2>2. \A n \in 0..Len(cs) :
           p[n] = IF n = 0 THEN 0 ELSE p[n - 1] + cs[n].capacity
    BY <1>1 DEF Sums
  <2>3. QED
    BY <2>1, <2>2
<1>3. Rec(sum)
  BY <1>2
<1>4. \A n \in 0..Len(cs) :
         sum[n] = IF n = 0 THEN 0 ELSE sum[n - 1] + cs[n].capacity
  BY <1>3
<1>5. CapacityOf(cs) = sum[Len(cs)]
  BY DEF CapacityOf
<1> HIDE DEF sum
<1>6. Bad = {}
  <2> SUFFICES ASSUME Bad # {} PROVE FALSE
    OBVIOUS
  <2>0. Bad \in SUBSET Nat
    BY <1>1
  <2>1. PICK n \in Bad : \A k \in Bad : n <= k
    BY LeastElement, <2>0
  <2>2. n # 0
    BY <1>4, <1>1, <2>1 DEF Sums
  <2>3. n - 1 \in 0..Len(cs) /\ n - 1 \notin Bad
    BY <1>1, <2>1, <2>2
  <2>4. sum[n] = p[n]
    BY <1>1, <1>4, <2>1, <2>2, <2>3 DEF Sums
  <2>5. QED
    BY <2>1, <2>4
<1>7. QED
  BY <1>1, <1>5, <1>6

LEMMA ChunkFields ==
    ASSUME NEW cs \in Seq(Chunks)
    PROVE  /\ Len(cs) \in Nat
           /\ DOMAIN cs = 1..Len(cs)
           /\ \A i \in 1..Len(cs) :
                 /\ cs[i] \in Chunks
                 /\ cs[i].resource \in Nat
                 /\ cs[i].capacity \in Nat \ {0}
                 /\ cs[i].allocations \in Seq(Allocations)
<1>1. Len(cs) \in Nat /\ DOMAIN cs = 1..Len(cs)
  BY LenProperties
<1>2. ASSUME NEW i \in 1..Len(cs)
      PROVE  /\ cs[i] \in Chunks
             /\ cs[i].resource \in Nat
             /\ cs[i].capacity \in Nat \ {0}
             /\ cs[i].allocations \in Seq(Allocations)
  <2>1. cs[i] \in Chunks
    BY ElementOfSeq
  <2>2. QED
    BY <2>1 DEF Chunks
<1>3. QED
  BY <1>1, <1>2

LEMMA AllocationFields ==
    ASSUME NEW allocs \in Seq(Allocations)
    PROVE  /\ Len(allocs) \in Nat
           /\ DOMAIN allocs = 1..Len(allocs)
           /\ \A j \in 1..Len(allocs) :
                 /\ allocs[j] \in Allocations
                 /\ allocs[j].size \in Nat \ {0}
                 /\ allocs[j].offset \in Nat
                 /\ allocs[j].done \in Nat
<1>1. Len(allocs) \in Nat /\ DOMAIN allocs = 1..Len(allocs)
  BY LenProperties
<1>2. ASSUME NEW j \in 1..Len(allocs)
      PROVE  /\ allocs[j] \in Allocations
             /\ allocs[j].size \in Nat \ {0}
             /\ allocs[j].offset \in Nat
             /\ allocs[j].done \in Nat
  <2>1. allocs[j] \in Allocations
    BY ElementOfSeq
  <2>2. QED
    BY <2>1 DEF Allocations
<1>3. QED
  BY <1>1, <1>2

(* The sum depends on the capacities only. *)
LEMMA CapacitySame ==
    ASSUME NEW cs \in Seq(Chunks), NEW ds \in Seq(Chunks), Len(cs) = Len(ds),
           \A i \in 1..Len(cs) : cs[i].capacity = ds[i].capacity
    PROVE  CapacityOf(cs) = CapacityOf(ds)
<1>1. PICK p : Sums(cs, p)
  BY SumsExist
<1>2. Sums(ds, p)
  BY <1>1 DEF Sums
<1>3. QED
  BY <1>1, <1>2, CapacityIsSum

LEMMA CapacityAppend ==
    ASSUME NEW cs \in Seq(Chunks), NEW c \in Chunks
    PROVE  CapacityOf(Append(cs, c)) = CapacityOf(cs) + c.capacity
<1> DEFINE n == Len(cs)
           ds == Append(cs, c)
<1>1. n \in Nat /\ c.capacity \in Nat
  BY ChunkFields DEF Chunks
<1>2. /\ ds \in Seq(Chunks) /\ Len(ds) = n + 1 /\ ds[n + 1] = c
      /\ \A i \in 1..n : ds[i] = cs[i]
  BY AppendProperties
<1>3. PICK p : Sums(cs, p)
  BY SumsExist
<1> DEFINE q == [k \in 0..(n + 1) |-> IF k = n + 1 THEN p[n] + c.capacity
                                                   ELSE p[k]]
<1> HIDE DEF ds
<1>4. Sums(ds, q)
  <2>1. \A k \in 0..n : p[k] \in Nat
    BY <1>3 DEF Sums
  <2>2. q \in [0..(n + 1) -> Nat]
    BY <1>1, <2>1
  <2>3. q[0] = 0
    BY <1>1, <1>3 DEF Sums
  <2>4. ASSUME NEW k \in 1..(n + 1)
        PROVE  q[k] = q[k - 1] + ds[k].capacity
    <3>1. CASE k = n + 1
      BY <1>1, <1>2, <3>1
    <3>2. CASE k # n + 1
      <4>1. k \in 1..n /\ k - 1 \in 0..(n + 1) /\ k \in 0..(n + 1)
            /\ k - 1 # n + 1
        BY <1>1, <3>2
      <4>2. p[k] = p[k - 1] + cs[k].capacity /\ ds[k] = cs[k]
        BY <1>2, <1>3, <4>1 DEF Sums
      <4>3. QED
        BY <3>2, <4>1, <4>2
    <3>3. QED
      BY <3>1, <3>2
  <2>5. QED
    BY <1>2, <2>2, <2>3, <2>4 DEF Sums
<1>5. q[n + 1] = p[n] + c.capacity
  BY <1>1
<1>6. QED
  BY <1>2, <1>3, <1>4, <1>5, CapacityIsSum DEF ds

LEMMA CapacityBound ==
    ASSUME NEW cs \in Seq(Chunks)
    PROVE  /\ CapacityOf(cs) \in Nat
           /\ \A i \in 1..Len(cs) : cs[i].capacity <= CapacityOf(cs)
<1>1. PICK p : Sums(cs, p)
  BY SumsExist
<1>2. CapacityOf(cs) = p[Len(cs)]
  BY <1>1, CapacityIsSum
<1>3. Len(cs) \in Nat /\ \A k \in 0..Len(cs) : p[k] \in Nat
  BY <1>1, ChunkFields DEF Sums
<1>4. ASSUME NEW i \in 1..Len(cs)
      PROVE  cs[i].capacity <= p[Len(cs)]
  <2> DEFINE Bad == {n \in i..Len(cs) : p[n] < cs[i].capacity}
  <2>1. cs[i].capacity \in Nat
    BY ChunkFields
  <2>2. Bad \in SUBSET Nat
    BY <1>3
  <2>3. Bad = {}
    <3> SUFFICES ASSUME Bad # {} PROVE FALSE
      OBVIOUS
    <3>1. PICK n \in Bad : \A k \in Bad : n <= k
      BY <2>2, LeastElement
    <3>2. n # i
      BY <1>1, <1>3, <2>1, <3>1, SMTT(30) DEF Sums
    <3>3. n \in 1..Len(cs) /\ n - 1 \in i..Len(cs)
      BY <1>3, <3>1, <3>2
    <3>4. p[n - 1] >= cs[i].capacity
      BY <1>3, <2>1, <3>1, <3>3
    <3>5. p[n] = p[n - 1] + cs[n].capacity /\ cs[n].capacity \in Nat
      BY <1>1, <3>3, ChunkFields DEF Sums
    <3>6. QED
      BY <1>3, <2>1, <3>1, <3>3, <3>4, <3>5, SMTT(30)
  <2>4. QED
    BY <1>3, <2>1, <2>3
<1>5. QED
  BY <1>2, <1>3, <1>4

-----------------------------------------------------------------------------
LEMMA Aligned ==
    ASSUME NEW x \in Nat
    PROVE  /\ Align(x) \in Nat
           /\ Align(x) >= x
           /\ Align(x) % Alignment = 0
<1> DEFINE y == x + Alignment - 1
           q == y \div Alignment
<1>1. y \in Nat /\ Alignment \in Nat \ {0}
  BY AlignmentAssumption
<1>2. Align(x) = q * Alignment
  BY DEF Align
<1> HIDE DEF y
<1>3. q \in Nat /\ y = q * Alignment + (y % Alignment)
      /\ y % Alignment \in 0..(Alignment - 1)
  BY <1>1
<1> HIDE DEF q
<1>4. q * Alignment \in Nat /\ (q * Alignment) % Alignment = 0
  BY <1>1, <1>3
<1>5. q * Alignment >= x
  <2> DEFINE z == q * Alignment
             r == y % Alignment
  <2>1. y = z + r /\ r \in 0..(Alignment - 1) /\ z \in Nat
    BY <1>3, <1>4
  <2> HIDE DEF z, r
  <2>2. z >= x
    BY <1>1, <2>1 DEF y
  <2>3. QED
    BY <2>2 DEF z
<1>6. QED
  BY <1>2, <1>4, <1>5

(* Where FindOffsetForAllocation finds space there is no allocation, and the *)
(* chunk stays a ring when the space is taken.                               *)
LEMMA OffsetFits ==
    ASSUME NEW c \in Chunks, ChunkOK(c),
           NEW size \in Nat \ {0}, NEW done \in Nat,
           \A j \in 1..Len(c.allocations) : c.allocations[j].done <= done,
           NEW o, o = FindOffsetForAllocation(c, size), o # None
    PROVE  LET a  == [size |-> size, done |-> done, offset |-> o]
               as == Append(c.allocations, a)
           IN  /\ o \in Nat
               /\ a \in Allocations
               /\ as \in Seq(Allocations)
               /\ Ring(as) /\ Within(as, c.capacity) /\ Sorted(as)
               /\ \A j \in 1..Len(c.allocations) :
                     Disjoint(c.allocations[j], a)
<1> DEFINE allocs == c.allocations
           n == Len(allocs)
           a == [size |-> size, done |-> done, offset |-> o]
           as == Append(allocs, a)
<1>1. allocs \in Seq(Allocations) /\ c.capacity \in Nat
  BY DEF Chunks
<1>2. /\ n \in Nat
      /\ \A j \in 1..n : /\ allocs[j].size \in Nat \ {0}
                         /\ allocs[j].offset \in Nat
                         /\ allocs[j].done \in Nat
                         /\ End(allocs[j]) \in Nat
                         /\ End(allocs[j]) > allocs[j].offset
  <2>1. /\ n \in Nat
        /\ \A j \in 1..n : /\ allocs[j].size \in Nat \ {0}
                           /\ allocs[j].offset \in Nat
                           /\ allocs[j].done \in Nat
    BY <1>1, AllocationFields
  <2>2. QED
    BY <2>1 DEF End
<1>3. PICK m \in 0..n : Row(allocs, m)
  BY DEF ChunkOK, Ring
<1>4. /\ Within(allocs, c.capacity) /\ Sorted(allocs)
      /\ \A j \in 1..n : allocs[j].done <= done
  BY DEF ChunkOK
<1> DEFINE begin   == Align(allocs[n].offset + allocs[n].size)
           wrapped == allocs[1].offset > allocs[n].offset
           limit   == IF wrapped THEN allocs[1].offset ELSE c.capacity
<1>5. /\ size <= c.capacity
      /\ \/ n = 0 /\ o = 0
         \/ n > 0 /\ begin + size <= limit /\ o = begin
         \/ n > 0 /\ ~wrapped /\ size <= allocs[1].offset /\ o = 0
  <2>1. allocs = << >> <=> n = 0
    BY <1>1, EmptySeq
  <2>2. c.capacity < size \/ size <= c.capacity
    BY <1>1
  <2>3. QED
    BY <1>2, <2>1, <2>2 DEF FindOffsetForAllocation
<1> HIDE DEF allocs
<1>6. n > 0 => /\ 1 \in 1..n /\ n \in 1..n
               /\ begin \in Nat /\ begin >= End(allocs[n])
               /\ begin % Alignment = 0
  <2> HAVE n > 0
  <2>1. 1 \in 1..n /\ n \in 1..n
    BY <1>2
  <2>2. End(allocs[n]) \in Nat /\ begin = Align(End(allocs[n]))
    BY <1>2, <2>1 DEF End
  <2>3. QED
    BY <2>1, <2>2, Aligned
<1> HIDE DEF begin
<1>7. o \in Nat /\ o % Alignment = 0 /\ o + size <= c.capacity
  <2>1. 0 % Alignment = 0
    BY AlignmentAssumption
  <2>2. n > 0 => allocs[1].offset <= c.capacity
    BY <1>1, <1>2, <1>4, <1>6 DEF Within
  <2>3. QED
    BY <1>1, <1>2, <1>5, <1>6, <2>1, <2>2
(* The ring has wrapped around iff the first allocation is after the last.   *)
<1>8. n > 0 => (wrapped <=> 1 <= m /\ m < n)
  <2>1. CASE n = 1
    BY <1>2, <2>1
  <2>2. CASE n > 1
    <3>1. 1 \in 1..n /\ n \in 1..n /\ 1 < n
      BY <1>2, <2>2
    <3>2. IF 1 <= m /\ m < n THEN End(allocs[n]) <= allocs[1].offset
                             ELSE End(allocs[1]) <= allocs[n].offset
      BY <1>3, <3>1 DEF Row
    <3>3. QED
      BY <1>2, <3>1, <3>2
  <2>3. QED
    BY <1>2, <2>1, <2>2
(* The allocations before the wrap are not before the first, those after it  *)
(* not after the last.                                                       *)
<1>9. ASSUME NEW j \in 1..n
      PROVE  /\ j <= m \/ ~wrapped => allocs[j].offset >= allocs[1].offset
             /\ j > m \/ ~wrapped => End(allocs[j]) <= End(allocs[n])
  <2>1. 1 \in 1..n /\ n \in 1..n /\ n > 0 /\ j \in Nat
    BY <1>2
  <2>2. j # 1 => IF 1 <= m /\ m < j THEN End(allocs[j]) <= allocs[1].offset
                                    ELSE End(allocs[1]) <= allocs[j].offset
    BY <1>3, <2>1 DEF Row
  <2>3. j # n => IF j <= m /\ m < n THEN End(allocs[n]) <= allocs[j].offset
                                    ELSE End(allocs[j]) <= allocs[n].offset
    BY <1>3, <2>1 DEF Row
  <2>4. /\ allocs[1].offset \in Nat /\ allocs[j].offset \in Nat
        /\ allocs[n].offset \in Nat
        /\ End(allocs[1]) \in Nat /\ End(allocs[1]) > allocs[1].offset
        /\ End(allocs[j]) \in Nat /\ End(allocs[j]) > allocs[j].offset
        /\ End(allocs[n]) \in Nat /\ End(allocs[n]) > allocs[n].offset
    BY <1>2, <2>1
  <2>5. j <= m \/ ~wrapped => allocs[j].offset >= allocs[1].offset
    <3>1. CASE j = 1
      BY <2>4, <3>1
    <3>2. CASE j # 1
      <4>1. j <= m \/ ~wrapped => ~(1 <= m /\ m < j)
        BY <1>2, <1>8, <2>1
      <4>2. QED
        BY <2>2, <2>4, <3>2, <4>1
    <3>3. QED
      BY <3>1, <3>2
  <2>6. j > m \/ ~wrapped => End(allocs[j]) <= End(allocs[n])
    <3>1. CASE j = n
      BY <2>4, <3>1
    <3>2. CASE j # n
      <4>1. j > m \/ ~wrapped => ~(j <= m /\ m < n)
        BY <1>2, <1>8, <2>1
      <4>2. QED
        BY <2>3, <2>4, <3>2, <4>1
    <3>3. QED
      BY <3>1, <3>2
  <2>7. QED
    BY <2>5, <2>6
<1> HIDE DEF a
<1>10. /\ a \in Allocations /\ a.size = size /\ a.done = done /\ a.offset = o
       /\ End(a) = o + size
  BY <1>7 DEF a, Allocations, End
<1>11. /\ as \in Seq(Allocations) /\ Len(as) = n + 1 /\ as[n + 1] = a
       /\ \A j \in 1..n : as[j] = allocs[j]
  BY <1>1, <1>10, AppendProperties DEF allocs
<1> HIDE DEF as
(* The new allocation is after the last one, or before the first ones.       *)
<1>12. PICK w \in 0..(n + 1) :
          /\ w = m \/ m = 0 \/ m = n
          /\ \A j \in 1..n : IF j <= w /\ w < n + 1
                             THEN End(a) <= allocs[j].offset
                             ELSE End(allocs[j]) <= o
          /\ w = m \/ w >= n
  <2>1. CASE n = 0
    BY <1>2, <2>1
  <2>2. CASE n > 0 /\ wrapped
    <3>1. begin + size <= allocs[1].offset /\ o = begin
      BY <1>5, <2>2
    <3>2. ASSUME NEW j \in 1..n
          PROVE  IF j <= m /\ m < n + 1 THEN End(a) <= allocs[j].offset
                                        ELSE End(allocs[j]) <= o
      <4>1. CASE j <= m
        <5>1. allocs[j].offset \in Nat /\ allocs[1].offset \in Nat
          BY <1>2, <2>2
        <5>2. allocs[j].offset >= allocs[1].offset
          BY <1>9, <4>1
        <5>3. End(a) <= allocs[j].offset /\ m < n + 1
          <6>1. m < n + 1 /\ begin \in Nat
            BY <1>2, <1>6, <2>2
          <6>2. End(a) = begin + size
            BY <1>10, <3>1
          <6>3. QED
            BY <3>1, <5>1, <5>2, <6>1, <6>2
        <5>4. QED
          BY <4>1, <5>3
      <4>2. CASE ~(j <= m)
        <5>1. End(allocs[j]) \in Nat /\ End(allocs[n]) \in Nat
          BY <1>2, <1>6, <2>2
        <5>2. End(allocs[j]) <= End(allocs[n])
          BY <1>2, <1>9, <4>2
        <5>3. End(allocs[j]) <= o
          BY <1>6, <2>2, <3>1, <5>1, <5>2
        <5>4. QED
          BY <4>2, <5>3
      <4>3. QED
        BY <4>1, <4>2
    <3>3. m \in 0..(n + 1)
      BY <1>2
    <3> WITNESS m \in 0..(n + 1)
    <3>4. QED
      BY <3>2
  <2>3. CASE n > 0 /\ ~wrapped /\ o = begin
    <3>1. m = 0 \/ m = n
      BY <1>2, <1>8, <2>3
    <3>2. \A j \in 1..n : End(allocs[j]) <= o
      BY <1>2, <1>6, <1>9, <2>3
    <3>3. /\ n + 1 \in 0..(n + 1) /\ n + 1 >= n
          /\ \A j \in 1..n : ~(j <= n + 1 /\ n + 1 < n + 1)
      BY <1>2
    <3> WITNESS n + 1 \in 0..(n + 1)
    <3>4. QED
      BY <3>1, <3>2, <3>3
  <2>4. CASE n > 0 /\ ~wrapped /\ size <= allocs[1].offset /\ o = 0
    <3>1. m = 0 \/ m = n
      BY <1>2, <1>8, <2>4
    <3>2. \A j \in 1..n : End(a) <= allocs[j].offset
      BY <1>2, <1>6, <1>9, <1>10, <2>4
    <3>3. n \in 0..(n + 1) /\ n >= n /\ n < n + 1 /\ \A j \in 1..n : j <= n
      BY <1>2
    <3> WITNESS n \in 0..(n + 1)
    <3>4. QED
      BY <3>1, <3>2, <3>3
  <2>5. QED
    BY <1>2, <1>5, <2>1, <2>2, <2>3, <2>4
<1>13. Row(as, w)
  <2> SUFFICES ASSUME NEW j \in 1..(n + 1), NEW k \in 1..(n + 1), j < k
               PROVE  IF j <= w /\ w < k THEN End(as[k]) <= as[j].offset
                                         ELSE End(as[j]) <= as[k].offset
    BY <1>11 DEF Row
  <2>1. j \in 1..n
    BY <1>2
  <2>2. CASE k = n + 1
    BY <1>10, <1>11, <1>12, <2>1, <2>2
  <2>3. CASE k # n + 1
    <3>1. k \in 1..n
      BY <1>2, <2>3
    <3>2. j <= w /\ w < k <=> j <= m /\ m < k
      BY <1>2, <1>12, <2>1, <3>1
    <3>3. IF j <= m /\ m < k THEN End(allocs[k]) <= allocs[j].offset
                             ELSE End(allocs[j]) <= allocs[k].offset
      BY <1>3, <2>1, <3>1 DEF Row
    <3>4. QED
      BY <1>11, <2>1, <3>1, <3>2, <3>3
  <2>4. QED
    BY <2>2, <2>3
<1>14. Ring(as)
  BY <1>2, <1>11, <1>13 DEF Ring
<1>15. Within(as, c.capacity)
  <2> SUFFICES ASSUME NEW j \in 1..(n + 1)
               PROVE  End(as[j]) <= c.capacity /\ as[j].offset % Alignment = 0
    BY <1>11 DEF Within
  <2>1. CASE j = n + 1
    BY <1>7, <1>10, <1>11, <2>1
  <2>2. CASE j # n + 1
    <3>1. j \in 1..n
      BY <1>2, <2>2
    <3>2. QED
      BY <1>4, <1>11, <3>1 DEF Within
  <2>3. QED
    BY <2>1, <2>2
<1>16. Sorted(as)
  <2> SUFFICES ASSUME NEW j \in 1..(n + 1), NEW k \in 1..(n + 1), j < k
               PROVE  as[j].done <= as[k].done
    BY <1>11 DEF Sorted
  <2>1. j \in 1..n
    BY <1>2
  <2>2. CASE k = n + 1
    BY <1>4, <1>10, <1>11, <2>1, <2>2
  <2>3. CASE k # n + 1
    <3>1. k \in 1..n
      BY <1>2, <2>3
    <3>2. QED
      BY <1>4, <1>11, <2>1, <3>1 DEF Sorted
  <2>4. QED
    BY <2>2, <2>3
<1>17. \A j \in 1..n : Disjoint(allocs[j], a)
  BY <1>10, <1>12 DEF Disjoint, End
<1>18. QED
  BY <1>7, <1>10, <1>11, <1>14, <1>15, <1>16, <1>17 DEF allocs, a, as

-----------------------------------------------------------------------------
(* What is left after reclaiming is the end of the row, with every           *)
(* allocation whose event is not signaled.                                   *)
LEMMA UnreclaimedSuffix ==
    ASSUME NEW allocs \in Seq(Allocations), NEW completed \in Nat,
           NEW capacity, Ring(allocs), Within(allocs, capacity), Sorted(allocs)
    PROVE  LET us == Unreclaimed(allocs, completed)
           IN  /\ us \in Seq(Allocations)
               /\ Ring(us) /\ Within(us, capacity) /\ Sorted(us)
               /\ \A j \in 1..Len(allocs) : allocs[j].done > completed =>
                     \E k \in 1..Len(us) : us[k] = allocs[j]
               /\ \A k \in 1..Len(us) : \E j \in 1..Len(allocs) :
                     us[k] = allocs[j]
<1> DEFINE us == Unreclaimed(allocs, completed)
           n == Len(allocs)
           kept == {i \in DOMAIN allocs : allocs[i].done > completed}
<1>1. n \in Nat /\ DOMAIN allocs = 1..n /\ \A j \in 1..n : allocs[j] \in Allocations
  BY AllocationFields
<1>2. CASE kept = {}
  <2>1. us = << >> /\ us \in Seq(Allocations) /\ Len(us) = 0
    BY <1>2, EmptySeq DEF Unreclaimed
  <2> HIDE DEF us
  <2>2. Ring(us) /\ Within(us, capacity) /\ Sorted(us)
    BY <2>1 DEF Ring, Row, Within, Sorted
  <2>3. \A j \in 1..n : ~(allocs[j].done > completed)
    BY <1>1, <1>2
  <2>4. QED
    BY <2>1, <2>2, <2>3 DEF us
<1>3. CASE kept # {}
  <2> DEFINE f == Min(kept)
  <2>1. kept \in SUBSET Nat
    BY <1>1
  <2>2. f \in kept /\ \A i \in kept : f <= i
    BY <1>3, <2>1, MinIsLeast
  <2>3. us = SubSeq(allocs, f, n)
    BY <1>3 DEF Unreclaimed
  <2>4. f \in 1..n /\ \A j \in 1..n : allocs[j].done > completed => f <= j
    BY <1>1, <2>2
  <2> HIDE DEF us, f, kept
  <2> DEFINE l == n - f + 1
  <2>5. l \in Nat /\ f \in Int /\ n \in Int /\ f <= n
    BY <1>1, <2>4
  <2>6. us \in Seq(Allocations) /\ Len(us) = l
        /\ \A i \in 1..l : us[i] = allocs[f + i - 1]
    <3>1. \A i \in f..n : allocs[i] \in Allocations
      BY <1>1, <2>4
    <3>2. /\ SubSeq(allocs, f, n) \in Seq(Allocations)
          /\ Len(SubSeq(allocs, f, n)) = IF f <= n THEN n - f + 1 ELSE 0
          /\ \A i \in 1..(n - f + 1) :
                SubSeq(allocs, f, n)[i] = allocs[f + i - 1]
      BY <2>5, <3>1, SubSeqProperties
    <3>3. QED
      BY <2>3, <2>5, <3>2
  <2>7. \A i \in 1..l : f + i - 1 \in 1..n
    BY <1>1, <2>4, <2>5
  <2>8. \A j \in f..n : j - f + 1 \in 1..l /\ us[j - f + 1] = allocs[j]
    <3> TAKE j \in f..n
    <3>1. j - f + 1 \in 1..l /\ f + (j - f + 1) - 1 = j
      BY <1>1, <2>4, <2>5
    <3>2. QED
      BY <2>6, <3>1
  <2>9. Ring(us)
    <3>1. PICK m \in 0..n : Row(allocs, m)
      BY DEF Ring
    <3>2. PICK w \in 0..l : \A i \in 1..l :
             /\ i <= w <=> f + i - 1 <= m
             /\ w < i <=> m < f + i - 1
      <4>1. CASE m < f
        <5>1. 0 \in 0..l
              /\ \A i \in 1..l : /\ i <= 0 <=> f + i - 1 <= m
                                 /\ 0 < i <=> m < f + i - 1
          BY <1>1, <2>4, <2>5, <4>1
        <5>2. QED
          BY <5>1
      <4>2. CASE m >= f
        <5>1. m - f + 1 \in 0..l
              /\ \A i \in 1..l : /\ i <= m - f + 1 <=> f + i - 1 <= m
                                 /\ m - f + 1 < i <=> m < f + i - 1
          BY <1>1, <2>4, <2>5, <4>2
        <5>2. QED
          BY <5>1
      <4>3. QED
        BY <1>1, <2>4, <4>1, <4>2
    <3>3. ASSUME NEW i \in 1..l, NEW k \in 1..l, i < k
          PROVE  IF i <= w /\ w < k THEN End(us[k]) <= us[i].offset
                                    ELSE End(us[i]) <= us[k].offset
      <4> DEFINE x == f + i - 1
                 y == f + k - 1
      <4>1. x \in 1..n /\ y \in 1..n /\ x < y
        BY <2>5, <2>7, <3>3
      <4>2. us[i] = allocs[x] /\ us[k] = allocs[y]
            /\ (i <= w <=> x <= m) /\ (w < k <=> m < y)
        BY <2>6, <3>2
      <4> HIDE DEF x, y
      <4>3. IF x <= m /\ m < y THEN End(allocs[y]) <= allocs[x].offset
                               ELSE End(allocs[x]) <= allocs[y].offset
        BY <3>1, <4>1 DEF Row
      <4>4. QED
        BY <4>2, <4>3
    <3>4. QED
      BY <2>6, <3>3 DEF Ring, Row
  <2>10. Within(us, capacity)
    BY <2>6, <2>7 DEF Within
  <2>11. Sorted(us)
    <3> SUFFICES ASSUME NEW i \in 1..l, NEW k \in 1..l, i < k
                 PROVE  us[i].done <= us[k].done
      BY <2>6 DEF Sorted
    <3>1. f + i - 1 < f + k - 1
      BY <2>5
    <3>2. QED
      BY <2>6, <2>7, <3>1 DEF Sorted
  <2>12. ASSUME NEW j \in 1..n, allocs[j].done > completed
         PROVE  \E k \in 1..Len(us) : us[k] = allocs[j]
    <3>1. j \in f..n
      BY <1>1, <2>4, <2>12
    <3>2. QED
      BY <2>6, <2>8, <3>1
  <2>13. \A k \in 1..Len(us) : \E j \in 1..n : us[k] = allocs[j]
    BY <2>6, <2>7
  <2>14. QED
    BY <2>6, <2>9, <2>10, <2>11, <2>12, <2>13 DEF us
<1>4. QED
  BY <1>2, <1>3

(* The pool cs has the allocation a in the resource r.                       *)
Has(cs, r, a) ==
    \E i \in 1..Len(cs) :
        /\ cs[i].resource = r
        /\ \E j \in 1..Len(cs[i].allocations) : cs[i].allocations[j] = a

LEMMA HasTypes ==
    ASSUME NEW cs \in Seq(Chunks), NEW r, NEW a, Has(cs, r, a)
    PROVE  a \in Allocations /\ a.done \in Nat
<1>1. PICK i \in 1..Len(cs) :
         \E j \in 1..Len(cs[i].allocations) : cs[i].allocations[j] = a
  BY DEF Has
<1>2. cs[i].allocations \in Seq(Allocations)
  BY ChunkFields
<1>3. QED
  BY <1>1, <1>2, AllocationFields

(* Two pools of the same chunks, apart from their allocations.               *)
SameChunks(cs, ds) ==
    /\ Len(ds) = Len(cs)
    /\ \A i \in 1..Len(cs) : /\ ds[i].resource = cs[i].resource
                             /\ ds[i].capacity = cs[i].capacity

LEMMA Reclaimed ==
    ASSUME PoolOK(chunks), NEW completed \in Nat
    PROVE  LET cs == ReclaimAllocations(completed)
           IN  /\ PoolOK(cs)
               /\ SameChunks(chunks, cs)
               /\ \A r, a : Has(chunks, r, a) /\ a.done > completed =>
                     Has(cs, r, a)
               /\ \A r, a : Has(cs, r, a) => Has(chunks, r, a)
<1> DEFINE cs == ReclaimAllocations(completed)
           n == Len(chunks)
           us(i) == Unreclaimed(chunks[i].allocations, completed)
<1>1. chunks \in Seq(Chunks)
  BY DEF PoolOK
<1>2. /\ n \in Nat /\ DOMAIN chunks = 1..n
      /\ \A i \in 1..n : /\ chunks[i] \in Chunks
                         /\ chunks[i].resource \in Nat
                         /\ chunks[i].capacity \in Nat \ {0}
                         /\ chunks[i].allocations \in Seq(Allocations)
  BY <1>1, ChunkFields
<1>3. ASSUME NEW i \in 1..n
      PROVE  /\ us(i) \in Seq(Allocations)
             /\ Ring(us(i)) /\ Within(us(i), chunks[i].capacity)
             /\ Sorted(us(i))
             /\ \A j \in 1..Len(chunks[i].allocations) :
                   chunks[i].allocations[j].done > completed =>
                     \E k \in 1..Len(us(i)) :
                        us(i)[k] = chunks[i].allocations[j]
             /\ \A k \in 1..Len(us(i)) :
                   \E j \in 1..Len(chunks[i].allocations) :
                      us(i)[k] = chunks[i].allocations[j]
  <2>1. /\ Ring(chunks[i].allocations) /\ Sorted(chunks[i].allocations)
        /\ Within(chunks[i].allocations, chunks[i].capacity)
    BY DEF PoolOK, ChunkOK
  <2>2. QED
    BY <1>2, <2>1, UnreclaimedSuffix
<1> HIDE DEF us
<1>4. ASSUME NEW i \in 1..n
      PROVE  /\ cs[i] \in Chunks
             /\ cs[i].resource = chunks[i].resource
             /\ cs[i].capacity = chunks[i].capacity
             /\ cs[i].allocations = us(i)
  <2>1. cs[i] = [chunks[i] EXCEPT !.allocations = us(i)]
    BY <1>2 DEF ReclaimAllocations, us
  <2>2. chunks[i] \in Chunks /\ us(i) \in Seq(Allocations)
    BY <1>2, <1>3
  <2> HIDE DEF cs
  <2>3. QED
    BY <2>1, <2>2 DEF Chunks
<1>5. Len(cs) = n /\ cs \in Seq(Chunks)
  <2>1. cs = [i \in 1..n |-> cs[i]]
    BY <1>2 DEF ReclaimAllocations
  <2> HIDE DEF cs
  <2>2. cs \in [1..n -> Chunks]
    BY <1>4, <2>1
  <2>3. QED
    BY <1>2, <2>2
<1> HIDE DEF cs
<1>6. SameChunks(chunks, cs)
  BY <1>4, <1>5 DEF SameChunks
<1>7. PoolOK(cs)
  <2>1. ASSUME NEW i \in 1..n PROVE ChunkOK(cs[i])
    BY <1>3, <1>4 DEF ChunkOK
  <2>2. ASSUME NEW i \in 1..n, NEW j \in 1..n
        PROVE  /\ i <= j => cs[i].capacity <= cs[j].capacity
               /\ cs[i].resource = cs[j].resource => i = j
    BY <1>4 DEF PoolOK
  <2>3. QED
    BY <1>5, <2>1, <2>2 DEF PoolOK
<1>8. ASSUME NEW r, NEW a, Has(chunks, r, a), a.done > completed
      PROVE  Has(cs, r, a)
  <2>1. PICK i \in 1..n :
           /\ chunks[i].resource = r
           /\ \E j \in 1..Len(chunks[i].allocations) :
                 chunks[i].allocations[j] = a
    BY <1>8 DEF Has
  <2>2. \E k \in 1..Len(us(i)) : us(i)[k] = a
    <3>1. PICK j \in 1..Len(chunks[i].allocations) :
             chunks[i].allocations[j] = a
      BY <2>1
    <3>2. chunks[i].allocations[j].done > completed
      BY <1>8, <3>1
    <3>3. \E k \in 1..Len(us(i)) : us(i)[k] = chunks[i].allocations[j]
      BY <1>3, <3>2
    <3>4. QED
      BY <3>1, <3>3
  <2>3. QED
    BY <1>4, <1>5, <2>1, <2>2 DEF Has
<1>9. ASSUME NEW r, NEW a, Has(cs, r, a)
      PROVE  Has(chunks, r, a)
  <2>1. PICK i \in 1..n :
           /\ cs[i].resource = r
           /\ \E j \in 1..Len(cs[i].allocations) : cs[i].allocations[j] = a
    BY <1>5, <1>9 DEF Has
  <2>2. \E k \in 1..Len(us(i)) : us(i)[k] = a
    BY <1>4, <2>1
  <2>3. \E j \in 1..Len(chunks[i].allocations) : chunks[i].allocations[j] = a
    BY <1>3, <2>2
  <2>4. QED
    BY <1>4, <2>1, <2>3 DEF Has
<1>10. QED
  BY <1>6, <1>7, <1>8, <1>9 DEF cs

-----------------------------------------------------------------------------
(* What is known of the chunks that ReclaimAllocations leaves, before their  *)
(* capacity is adjusted.                                                     *)
ReclaimedOK(cs) ==
    /\ PoolOK(cs)
    /\ resources \in Nat
    /\ total_capacity = CapacityOf(cs)
    /\ \A i \in 1..Len(cs) : cs[i].resource \in 1..resources

LEMMA ReclaimedPool ==
    ASSUME PoolInv, NEW completed \in Nat
    PROVE  ReclaimedOK(ReclaimAllocations(completed))
<1> DEFINE cs == ReclaimAllocations(completed)
<1>1. PoolOK(cs) /\ SameChunks(chunks, cs)
  BY Reclaimed DEF PoolInv
<1> HIDE DEF cs
<1>2. CapacityOf(cs) = CapacityOf(chunks)
  BY <1>1, CapacitySame DEF PoolInv, PoolOK, SameChunks
<1>3. \A i \in 1..Len(cs) : cs[i].resource \in 1..resources
  BY <1>1 DEF PoolInv, SameChunks
<1>4. ReclaimedOK(cs)
  BY <1>1, <1>2, <1>3 DEF ReclaimedOK, PoolInv
<1>5. QED
  BY <1>4 DEF cs

Grown(cs, size) == Fitting(cs, size) = {}

(* After Reserve some chunk fits: a new one is empty and large enough, and   *)
(* at least as large as all the others.                                      *)
LEMMA Reserved ==
    ASSUME NEW cs, ReclaimedOK(cs), NEW size \in Nat \ {0}
    PROVE  LET rs == Reserve(cs, size)
           IN  /\ PoolOK(rs)
               /\ Fitting(rs, size) # {}
               /\ CapacityOf(rs) = total_capacity +
                     (IF Grown(cs, size) THEN NewChunkSize(size) ELSE 0)
               /\ \A i \in 1..Len(rs) : rs[i].resource \in
                     1..(resources + (IF Grown(cs, size) THEN 1 ELSE 0))
               /\ \A r, a : Has(rs, r, a) <=> Has(cs, r, a)
<1> DEFINE rs == Reserve(cs, size)
           n == Len(cs)
           new == CreateChunk(NewChunkSize(size))
<1>1. /\ cs \in Seq(Chunks) /\ n \in Nat /\ total_capacity \in Nat
      /\ DOMAIN cs = 1..n
      /\ \A i \in 1..n : /\ cs[i].capacity \in Nat
                         /\ cs[i].capacity <= total_capacity
                         /\ cs[i].resource \in 1..resources
      /\ resources \in Nat
      /\ CapacityOf(cs) = total_capacity
  <2>1. cs \in Seq(Chunks)
    BY DEF ReclaimedOK, PoolOK
  <2>2. QED
    BY <2>1, ChunkFields, CapacityBound DEF ReclaimedOK
<1>2. CASE ~Grown(cs, size)
  <2>1. rs = cs
    BY <1>2 DEF Reserve, Grown
  <2>2. QED
    BY <1>1, <1>2, <2>1 DEF Grown, ReclaimedOK
<1>3. CASE Grown(cs, size)
  <2>1. rs = Append(cs, new)
    BY <1>3 DEF Reserve, Grown
  <2> DEFINE cap == NewChunkSize(size)
  <2>2. cap \in Nat /\ cap >= total_capacity /\ cap >= size /\ cap # 0
    <3>1. MinChunkSize \in Nat /\ size \in Nat /\ size # 0
      BY MinChunkSizeAssumption
    <3>2. cap \in Nat /\ cap >= total_capacity /\ cap >= size
      BY <1>1, <3>1, MaxOfThree DEF NewChunkSize
    <3>3. QED
      BY <3>1, <3>2
  <2> HIDE DEF cap
  <2>3. new = [resource |-> resources + 1, capacity |-> cap,
               allocations |-> << >>]
    BY DEF CreateChunk, cap
  <2>4. /\ new \in Chunks /\ new.resource = resources + 1
        /\ new.capacity = cap /\ new.allocations = << >>
    <3>1. << >> \in Seq(Allocations)
      BY EmptySeq
    <3>2. resources + 1 \in Nat /\ cap \in Nat \ {0}
      BY <1>1, <2>2
    <3> HIDE DEF new
    <3>3. QED
      BY <2>3, <3>1, <3>2 DEF Chunks
  <2> HIDE DEF new
  <2>5. /\ rs \in Seq(Chunks) /\ Len(rs) = n + 1 /\ rs[n + 1] = new
        /\ \A i \in 1..n : rs[i] = cs[i]
    BY <1>1, <2>1, <2>4, AppendProperties
  <2>6. CapacityOf(rs) = total_capacity + cap
    BY <1>1, <2>1, <2>4, CapacityAppend
  <2> HIDE DEF rs
  <2>7. Len(new.allocations) = 0
    BY <2>4
  <2>8. ChunkOK(new)
    BY <2>7 DEF ChunkOK, Ring, Row, Within, Sorted
  <2>9. PoolOK(rs)
    <3>1. ASSUME NEW i \in 1..(n + 1) PROVE ChunkOK(rs[i])
      <4>1. i = n + 1 \/ i \in 1..n
        BY <1>1
      <4>2. \A k \in 1..n : ChunkOK(cs[k])
        BY DEF ReclaimedOK, PoolOK
      <4>3. QED
        BY <2>5, <2>8, <4>1, <4>2
    <3>2. ASSUME NEW i \in 1..(n + 1), NEW j \in 1..(n + 1)
          PROVE  /\ i <= j => rs[i].capacity <= rs[j].capacity
                 /\ rs[i].resource = rs[j].resource => i = j
      <4>1. \A k, l \in 1..n : /\ k <= l => cs[k].capacity <= cs[l].capacity
                               /\ cs[k].resource = cs[l].resource => k = l
        BY DEF ReclaimedOK, PoolOK
      <4>2. CASE i \in 1..n /\ j \in 1..n
        BY <2>5, <4>1, <4>2
      <4>3. CASE i \in 1..n /\ j = n + 1
        BY <1>1, <2>2, <2>4, <2>5, <4>3
      <4>4. CASE i = n + 1 /\ j \in 1..n
        BY <1>1, <2>2, <2>4, <2>5, <4>4
      <4>5. CASE i = n + 1 /\ j = n + 1
        BY <2>2, <2>4, <2>5, <4>5
      <4>6. QED
        BY <1>1, <4>2, <4>3, <4>4, <4>5
    <3>3. QED
      BY <2>5, <3>1, <3>2 DEF PoolOK
  <2>10. Fitting(rs, size) # {}
    <3>1. FindOffsetForAllocation(new, size) = 0
      <4>1. ~(new.capacity < size)
        BY <2>2, <2>4
      <4>2. QED
        BY <2>4, <4>1 DEF FindOffsetForAllocation
    <3>2. n + 1 \in DOMAIN rs /\ rs[n + 1] = new
      BY <1>1, <2>5, ChunkFields
    <3>3. n + 1 \in Fitting(rs, size)
      BY <3>1, <3>2 DEF Fitting, None
    <3>4. QED
      BY <3>3
  <2>11. \A i \in 1..Len(rs) : rs[i].resource \in 1..(resources + 1)
    <3> TAKE i \in 1..Len(rs)
    <3>1. i = n + 1 \/ i \in 1..n
      BY <1>1, <2>5
    <3>2. QED
      BY <1>1, <2>4, <2>5, <3>1
  <2>12. ASSUME NEW r, NEW a PROVE Has(rs, r, a) <=> Has(cs, r, a)
    <3>1. ASSUME Has(cs, r, a) PROVE Has(rs, r, a)
      <4>1. PICK i \in 1..n :
               /\ cs[i].resource = r
               /\ \E j \in 1..Len(cs[i].allocations) :
                     cs[i].allocations[j] = a
        BY <3>1 DEF Has
      <4>2. i \in 1..Len(rs) /\ rs[i] = cs[i]
        BY <1>1, <2>5
      <4>3. QED
        BY <4>1, <4>2 DEF Has
    <3>2. ASSUME Has(rs, r, a) PROVE Has(cs, r, a)
      <4>1. PICK i \in 1..Len(rs) :
               /\ rs[i].resource = r
               /\ \E j \in 1..Len(rs[i].allocations) :
                     rs[i].allocations[j] = a
        BY <3>2 DEF Has
      <4>2. i # n + 1
        BY <2>5, <2>7, <4>1
      <4>3. i \in 1..n /\ rs[i] = cs[i]
        BY <1>1, <2>5, <4>2
      <4>4. QED
        BY <4>1, <4>3 DEF Has
    <3>3. QED
      BY <3>1, <3>2
  <2>13. QED
    BY <1>3, <2>6, <2>9, <2>10, <2>11, <2>12 DEF rs, cap
<1>4. QED
  BY <1>2, <1>3

(* Allocate adds one allocation, in space that no other one has, and removes *)
(* only what is reclaimed.                                                   *)
LEMMA AllocateStep ==
    ASSUME PoolInv, NEW completed \in Nat,
           NEW size \in Nat \ {0}, NEW done \in Nat,
           \A r, b : Has(chunks, r, b) => b.done <= done,
           Allocate(ReclaimAllocations(completed), size, done)
    PROVE  LET g == Region(ReclaimAllocations(completed), size)
               a == [size |-> size, done |-> done, offset |-> g.offset]
           IN  /\ PoolInv'
               /\ g = [resource |-> g.resource, size |-> size,
                       offset |-> g.offset]
               /\ g.resource \in Nat /\ g.offset \in Nat
               /\ Has(chunks', g.resource, a)
               /\ \A r, b : Has(chunks, r, b) /\ b.done > completed =>
                     /\ Has(chunks', r, b)
                     /\ r = g.resource => Disjoint(b, a)
               /\ \A r, b : Has(chunks', r, b) =>
                     Has(chunks, r, b) \/ b = a
<1> DEFINE cs == ReclaimAllocations(completed)
           rs == Reserve(cs, size)
           i == ReservedChunk(cs, size)
           o == FindOffsetForAllocation(rs[i], size)
           g == Region(cs, size)
           a == [size |-> size, done |-> done, offset |-> o]
           as == Append(rs[i].allocations, a)
           grown == Grown(cs, size)
<1>1. /\ ReclaimedOK(cs)
      /\ \A r, b : Has(chunks, r, b) /\ b.done > completed => Has(cs, r, b)
      /\ \A r, b : Has(cs, r, b) => Has(chunks, r, b)
  BY ReclaimedPool, Reclaimed DEF PoolInv
<1>2. /\ g = [resource |-> rs[i].resource, size |-> size, offset |-> o]
      /\ chunks' = [rs EXCEPT ![i].allocations = Append(@, a)]
      /\ total_capacity' = total_capacity +
            (IF grown THEN NewChunkSize(size) ELSE 0)
      /\ resources' = resources + (IF grown THEN 1 ELSE 0)
      /\ i = Min(Fitting(rs, size))
  BY DEF Allocate, Region, ReservedChunk, Grown
<1>n. resources \in Nat
  BY DEF PoolInv
<1> HIDE DEF cs, grown
<1>3. /\ PoolOK(rs)
      /\ Fitting(rs, size) # {}
      /\ CapacityOf(rs) = total_capacity'
      /\ \A k \in 1..Len(rs) : rs[k].resource \in 1..resources'
      /\ \A r, b : Has(rs, r, b) <=> Has(cs, r, b)
  BY <1>1, <1>2, Reserved DEF grown
<1> HIDE DEF rs, i
<1>4. /\ rs \in Seq(Chunks) /\ Len(rs) \in Nat /\ DOMAIN rs = 1..Len(rs)
      /\ \A k \in 1..Len(rs) : rs[k] \in Chunks
  BY <1>3, ChunkFields DEF PoolOK
<1>5. i \in 1..Len(rs) /\ o # None
  <2>1. Fitting(rs, size) \in SUBSET Nat
    BY <1>4 DEF Fitting
  <2>2. i \in Fitting(rs, size)
    BY <1>2, <1>3, <2>1, MinIsLeast
  <2>3. QED
    BY <1>4, <2>2 DEF Fitting
<1>6. rs[i] \in Chunks /\ ChunkOK(rs[i])
  BY <1>3, <1>4, <1>5 DEF PoolOK
<1>7. \A j \in 1..Len(rs[i].allocations) : rs[i].allocations[j].done <= done
  <2> TAKE j \in 1..Len(rs[i].allocations)
  <2>1. Has(rs, rs[i].resource, rs[i].allocations[j])
    BY <1>5 DEF Has
  <2>2. Has(chunks, rs[i].resource, rs[i].allocations[j])
    BY <1>1, <1>3, <2>1
  <2>3. QED
    BY <2>2
<1>8. /\ o \in Nat /\ a \in Allocations
      /\ as \in Seq(Allocations)
      /\ Ring(as) /\ Within(as, rs[i].capacity) /\ Sorted(as)
      /\ \A j \in 1..Len(rs[i].allocations) :
            Disjoint(rs[i].allocations[j], a)
  BY <1>5, <1>6, <1>7, OffsetFits
<1>9. /\ Len(as) = Len(rs[i].allocations) + 1
      /\ as[Len(rs[i].allocations) + 1] = a
      /\ \A j \in 1..Len(rs[i].allocations) : as[j] = rs[i].allocations[j]
      /\ Len(rs[i].allocations) \in Nat
  <2>1. rs[i].allocations \in Seq(Allocations)
    BY <1>6 DEF Chunks
  <2>2. QED
    BY <1>8, <2>1, AppendProperties, LenProperties
<1> HIDE DEF o, a, as
<1> DEFINE e == [rs[i] EXCEPT !.allocations = as]
<1>10. /\ e \in Chunks /\ e.resource = rs[i].resource
       /\ e.capacity = rs[i].capacity /\ e.allocations = as
  BY <1>6, <1>8 DEF Chunks
<1>11. chunks' = [rs EXCEPT ![i] = e]
  BY <1>2 DEF as
<1> HIDE DEF e
<1>12. /\ chunks' \in Seq(Chunks) /\ Len(chunks') = Len(rs)
       /\ \A k \in 1..Len(rs) : chunks'[k] = IF k = i THEN e ELSE rs[k]
  BY <1>4, <1>5, <1>10, <1>11, ExceptSeq
<1>13. \A k \in 1..Len(rs) : /\ chunks'[k].resource = rs[k].resource
                             /\ chunks'[k].capacity = rs[k].capacity
  BY <1>10, <1>12
<1>14. PoolOK(chunks)'
  <2>1. ChunkOK(e)
    BY <1>8, <1>10 DEF ChunkOK
  <2>2. \A k \in 1..Len(rs) : ChunkOK(chunks'[k])
    BY <1>3, <1>12, <2>1 DEF PoolOK
  <2>3. ASSUME NEW k \in 1..Len(rs), NEW l \in 1..Len(rs)
        PROVE  /\ k <= l => chunks'[k].capacity <= chunks'[l].capacity
               /\ chunks'[k].resource = chunks'[l].resource => k = l
    BY <1>3, <1>13 DEF PoolOK
  <2>4. QED
    BY <1>12, <2>2, <2>3 DEF PoolOK
<1>15. PoolInv'
  <2>1. CapacityOf(chunks') = total_capacity'
    BY <1>3, <1>4, <1>12, <1>13, CapacitySame
  <2>2. resources' \in Nat
    BY <1>n, <1>2
  <2>3. \A k \in 1..Len(chunks') : chunks'[k].resource \in 1..resources'
    BY <1>3, <1>12, <1>13
  <2>4. QED
    BY <1>14, <2>1, <2>2, <2>3 DEF PoolInv
<1>16. g.resource = rs[i].resource /\ g.offset = o /\ g.resource \in Nat
  BY <1>2, <1>4, <1>5, ChunkFields
<1>17. Has(chunks', g.resource, a)
  <2>1. i \in 1..Len(chunks') /\ chunks'[i] = e
    BY <1>5, <1>12
  <2>2. Len(as) \in 1..Len(as) /\ as[Len(as)] = a
    BY <1>9
  <2>3. QED
    BY <1>10, <1>16, <2>1, <2>2 DEF Has
<1>18. ASSUME NEW r, NEW b, Has(rs, r, b)
       PROVE  Has(chunks', r, b) /\ (r = g.resource => Disjoint(b, a))
  <2>1. PICK k \in 1..Len(rs) :
           /\ rs[k].resource = r
           /\ \E j \in 1..Len(rs[k].allocations) : rs[k].allocations[j] = b
    BY <1>18 DEF Has
  <2>2. PICK j \in 1..Len(rs[k].allocations) : rs[k].allocations[j] = b
    BY <2>1
  <2>3. CASE k = i
    <3>1. j \in 1..Len(as) /\ as[j] = b /\ Disjoint(b, a)
      <4> DEFINE old == rs[i].allocations
      <4>1. j \in 1..Len(old) /\ old[j] = b
        BY <2>2, <2>3
      <4>2. /\ Len(as) = Len(old) + 1 /\ Len(old) \in Nat
            /\ \A l \in 1..Len(old) : as[l] = old[l] /\ Disjoint(old[l], a)
        BY <1>8, <1>9
      <4> HIDE DEF old
      <4>3. j \in 1..Len(as)
        BY <4>1, <4>2
      <4>4. QED
        BY <4>1, <4>2, <4>3
    <3>2. chunks'[k] = e /\ k \in 1..Len(chunks') /\ e.resource = r
      BY <1>10, <1>12, <2>1, <2>3
    <3>3. Has(chunks', r, b)
      BY <1>10, <3>1, <3>2 DEF Has
    <3>4. QED
      BY <3>1, <3>3
  <2>4. CASE k # i
    <3>1. chunks'[k] = rs[k] /\ k \in 1..Len(chunks')
      BY <1>12, <2>4
    <3>2. Has(chunks', r, b)
      BY <2>1, <3>1 DEF Has
    <3>3. r # g.resource
      BY <1>3, <1>5, <1>16, <2>1, <2>4 DEF PoolOK
    <3>4. QED
      BY <3>2, <3>3
  <2>5. QED
    BY <2>3, <2>4
<1>19. ASSUME NEW r, NEW b, Has(chunks', r, b)
       PROVE  Has(rs, r, b) \/ b = a
  <2>1. PICK k \in 1..Len(rs) :
           /\ chunks'[k].resource = r
           /\ \E j \in 1..Len(chunks'[k].allocations) :
                 chunks'[k].allocations[j] = b
    BY <1>12, <1>19 DEF Has
  <2>2. PICK j \in 1..Len(chunks'[k].allocations) :
           chunks'[k].allocations[j] = b
    BY <2>1
  <2>3. CASE k = i
    <3>1. j \in 1..Len(as) /\ as[j] = b
      BY <1>10, <1>12, <2>2, <2>3
    <3>2. CASE j = Len(rs[i].allocations) + 1
      BY <1>9, <3>1, <3>2
    <3>3. CASE j # Len(rs[i].allocations) + 1
      <4>1. j \in 1..Len(rs[i].allocations) /\ rs[i].allocations[j] = b
        <5> DEFINE old == rs[i].allocations
        <5>1. /\ Len(as) = Len(old) + 1 /\ Len(old) \in Nat
              /\ \A l \in 1..Len(old) : as[l] = old[l]
          BY <1>9
        <5>2. j # Len(old) + 1
          BY <3>3
        <5> HIDE DEF old
        <5>3. j \in 1..Len(old)
          BY <3>1, <5>1, <5>2
        <5>4. QED
          BY <3>1, <5>1, <5>3 DEF old
      <4>2. QED
        BY <1>13, <2>1, <2>3, <4>1 DEF Has
    <3>4. QED
      BY <3>2, <3>3
  <2>4. CASE k # i
    BY <1>12, <2>1, <2>4 DEF Has
  <2>5. QED
    BY <2>3, <2>4
<1>20. \A r, b : Has(chunks, r, b) /\ b.done > completed =>
          /\ Has(chunks', r, b)
          /\ r = g.resource => Disjoint(b, a)
  BY <1>1, <1>3, <1>18
<1>21. \A r, b : Has(chunks', r, b) => Has(chunks, r, b) \/ b = a
  BY <1>1, <1>3, <1>19
<1>22. g = [resource |-> g.resource, size |-> size, offset |-> g.offset]
  BY <1>2
<1>23. a = [size |-> size, done |-> done, offset |-> g.offset]
  BY <1>16 DEF a
<1> HIDE DEF g
<1>24. QED
  BY <1>8, <1>15, <1>16, <1>17, <1>20, <1>21, <1>22, <1>23 DEF cs, g

(* When Reserve fails, only what is reclaimed is removed.                    *)
LEMMA ReserveFailsStep ==
    ASSUME PoolInv, NEW completed \in Nat, NEW size,
           ReserveFails(ReclaimAllocations(completed), size)
    PROVE  /\ PoolInv'
           /\ \A r, b : Has(chunks, r, b) /\ b.done > completed =>
                 Has(chunks', r, b)
           /\ \A r, b : Has(chunks', r, b) => Has(chunks, r, b)
<1> DEFINE cs == ReclaimAllocations(completed)
<1>1. /\ ReclaimedOK(cs)
      /\ \A r, b : Has(chunks, r, b) /\ b.done > completed => Has(cs, r, b)
      /\ \A r, b : Has(cs, r, b) => Has(chunks, r, b)
  BY ReclaimedPool, Reclaimed DEF PoolInv
<1>2. chunks' = cs /\ UNCHANGED <<total_capacity, resources>>
  BY DEF ReserveFails
<1> HIDE DEF cs
<1>3. PoolInv'
  BY <1>1, <1>2 DEF ReclaimedOK, PoolInv
<1>4. QED
  BY <1>1, <1>2, <1>3

(* A function that lists a finite set of numbers in ascending order has all  *)
(* of them.                                                                  *)
LEMMA AscendingIsOnto ==
    ASSUME NEW n \in Nat, NEW S \in SUBSET (1..n),
           NEW f \in [1..Cardinality(S) -> S],
           \A j, k \in 1..Cardinality(S) : j < k => f[j] < f[k]
    PROVE  /\ Cardinality(S) \in Nat
           /\ \A i \in S : \E j \in 1..Cardinality(S) : f[j] = i
<1> DEFINE m == Cardinality(S)
<1>1. IsFiniteSet(S)
  <2>1. 1 \in Int /\ n \in Int
    OBVIOUS
  <2>2. IsFiniteSet(1..n)
    BY <2>1, FS_Interval
  <2>3. QED
    BY <2>2, FS_Subset
<1>2. m \in Nat
  BY <1>1, FS_CardinalityType
<1>3. IsFiniteSet(1..m) /\ Cardinality(1..m) = m
  <2>1. IsFiniteSet(1..m) /\ Cardinality(1..m) = IF 1 > m THEN 0 ELSE m - 1 + 1
    BY <1>2, FS_Interval
  <2>2. (IF 1 > m THEN 0 ELSE m - 1 + 1) = m
    BY <1>2
  <2>3. QED
    BY <2>1, <2>2
<1> HIDE DEF m
<1>4. f \in Injection(1..m, S)
  <2>1. ASSUME NEW j \in 1..m, NEW k \in 1..m, f[j] = f[k] PROVE j = k
    <3>0. f[j] \in S /\ f[k] \in S
      BY DEF m
    <3>1. f[j] \in Nat /\ f[k] \in Nat
      <4>1. \A i \in S : i \in Nat
        OBVIOUS
      <4>2. QED
        BY <3>0, <4>1
    <3>2. (j < k => f[j] < f[k]) /\ (k < j => f[k] < f[j])
      BY DEF m
    <3>3. QED
      BY <1>2, <2>1, <3>1, <3>2
  <2>2. f \in [1..m -> S]
    BY DEF m
  <2>3. QED
    BY <2>1, <2>2 DEF Injection, IsInjective
<1>5. f \in Surjection(1..m, S)
  BY <1>1, <1>3, <1>4, FS_Injection DEF m
<1>6. QED
  BY <1>2, <1>5 DEF Surjection, m

(* Trim removes only chunks without allocations. *)
LEMMA TrimStep ==
    ASSUME PoolInv, NEW completed \in Nat, Trim(completed)
    PROVE  /\ PoolInv'
           /\ \A r, b : Has(chunks, r, b) /\ b.done > completed =>
                 Has(chunks', r, b)
           /\ \A r, b : Has(chunks', r, b) => Has(chunks, r, b)
<1> DEFINE cs == ReclaimAllocations(completed)
           inUse == {i \in DOMAIN cs : cs[i].allocations # << >>}
           m == Cardinality(inUse)
<1>1. /\ ReclaimedOK(cs)
      /\ \A r, b : Has(chunks, r, b) /\ b.done > completed => Has(cs, r, b)
      /\ \A r, b : Has(cs, r, b) => Has(chunks, r, b)
  BY ReclaimedPool, Reclaimed DEF PoolInv
<1>2. PICK kept \in [1..m -> inUse] :
         /\ \A j, k \in DOMAIN kept : j < k => kept[j] < kept[k]
         /\ chunks' = [j \in DOMAIN kept |-> cs[kept[j]]]
  BY DEF Trim
<1>3. total_capacity' = CapacityOf(chunks') /\ resources' = resources
  BY DEF Trim
<1> HIDE DEF cs
<1>4. /\ cs \in Seq(Chunks) /\ Len(cs) \in Nat /\ DOMAIN cs = 1..Len(cs)
      /\ \A k \in 1..Len(cs) : cs[k] \in Chunks
  BY <1>1, ChunkFields DEF PoolOK, ReclaimedOK
<1>5. inUse \in SUBSET (1..Len(cs))
  BY <1>4
<1>6. m \in Nat /\ \A i \in inUse : \E j \in 1..m : kept[j] = i
  BY <1>2, <1>4, <1>5, AscendingIsOnto
<1>7. \A j \in 1..m : /\ kept[j] \in 1..Len(cs)
                      /\ chunks'[j] = cs[kept[j]]
  BY <1>2, <1>5
<1>8. \A j, k \in 1..m : j < k => kept[j] < kept[k]
  BY <1>2
<1>9. chunks' \in Seq(Chunks) /\ Len(chunks') = m
  <2>1. chunks' \in [1..m -> Chunks]
    BY <1>2, <1>4, <1>7
  <2> HIDE DEF m
  <2>2. QED
    BY <1>6, <2>1, FunctionIsSeq
<1>10. \A i \in inUse : i \in 1..Len(cs)
  BY <1>5
<1>e. \A i \in 1..Len(cs) : cs[i].allocations # << >> => i \in inUse
  BY <1>4
<1> HIDE DEF inUse, m
<1>11. PoolOK(chunks')
  <2>1. \A j \in 1..m : ChunkOK(chunks'[j])
    BY <1>1, <1>7 DEF ReclaimedOK, PoolOK
  <2>2. ASSUME NEW j \in 1..m, NEW k \in 1..m
        PROVE  /\ j <= k => chunks'[j].capacity <= chunks'[k].capacity
               /\ chunks'[j].resource = chunks'[k].resource => j = k
    <3>1. /\ j < k => kept[j] < kept[k]
          /\ k < j => kept[k] < kept[j]
          /\ kept[j] \in Nat /\ kept[k] \in Nat /\ j \in Nat /\ k \in Nat
      BY <1>7, <1>8
    <3>2. (j <= k => kept[j] <= kept[k]) /\ (kept[j] = kept[k] => j = k)
      BY <3>1
    <3>3. QED
      BY <1>1, <1>7, <3>2 DEF ReclaimedOK, PoolOK
  <2>3. QED
    BY <1>9, <2>1, <2>2 DEF PoolOK
<1>12. \A j \in 1..Len(chunks') : chunks'[j].resource \in 1..resources
  BY <1>1, <1>7, <1>9 DEF ReclaimedOK
<1>13. PoolInv'
  BY <1>1, <1>3, <1>11, <1>12 DEF PoolInv, ReclaimedOK
<1>14. ASSUME NEW r, NEW b, Has(cs, r, b) PROVE Has(chunks', r, b)
  <2>1. PICK i \in 1..Len(cs) :
           /\ cs[i].resource = r
           /\ \E j \in 1..Len(cs[i].allocations) : cs[i].allocations[j] = b
    BY <1>14 DEF Has
  <2>2. cs[i].allocations # << >>
    BY <2>1
  <2>3. PICK j \in 1..m : kept[j] = i
    BY <1>6, <1>e, <2>2
  <2>4. j \in 1..Len(chunks') /\ chunks'[j] = cs[i]
    BY <1>7, <1>9, <2>3
  <2>5. QED
    BY <2>1, <2>4 DEF Has
<1>15. ASSUME NEW r, NEW b, Has(chunks', r, b) PROVE Has(cs, r, b)
  <2>1. PICK j \in 1..m :
           /\ chunks'[j].resource = r
           /\ \E k \in 1..Len(chunks'[j].allocations) :
                 chunks'[j].allocations[k] = b
    BY <1>9, <1>15 DEF Has
  <2>2. kept[j] \in 1..Len(cs) /\ chunks'[j] = cs[kept[j]]
    BY <1>7
  <2>3. QED
    BY <2>1, <2>2 DEF Has
<1>16. QED
  BY <1>1, <1>13, <1>14, <1>15

(* Different allocations in the same resource are disjoint.                  *)
LEMMA DistinctAllocations ==
    ASSUME PoolOK(chunks), NEW r, NEW a, NEW b,
           Has(chunks, r, a), Has(chunks, r, b), a # b
    PROVE  Disjoint(a, b)
<1>1. PICK i \in 1..Len(chunks) :
         /\ chunks[i].resource = r
         /\ \E j \in 1..Len(chunks[i].allocations) :
               chunks[i].allocations[j] = a
  BY DEF Has
<1>2. PICK k \in 1..Len(chunks) :
         /\ chunks[k].resource = r
         /\ \E j \in 1..Len(chunks[k].allocations) :
               chunks[k].allocations[j] = b
  BY DEF Has
<1>3. i = k
  BY <1>1, <1>2 DEF PoolOK
<1> DEFINE allocs == chunks[i].allocations
<1>4. PICK j \in 1..Len(allocs) : allocs[j] = a
  BY <1>1
<1>5. PICK l \in 1..Len(allocs) : allocs[l] = b
  BY <1>2, <1>3
<1>6. PICK m \in 0..Len(allocs) : Row(allocs, m)
  BY DEF PoolOK, ChunkOK, Ring
<1>7. Len(allocs) \in Nat
  <2>1. allocs \in Seq(Allocations)
    BY ChunkFields DEF PoolOK
  <2>2. QED
    BY <2>1, AllocationFields
<1> HIDE DEF allocs
<1>8. j < l \/ l < j
  BY <1>4, <1>5, <1>7
<1>9. QED
  BY <1>4, <1>5, <1>6, <1>8 DEF Row, Disjoint, End

LEMMA HeapInitPool == HeapInit => PoolInv
<1> HAVE HeapInit
<1>1. chunks = << >> /\ total_capacity = 0 /\ resources = 0
  BY DEF HeapInit
<1>2. chunks \in Seq(Chunks) /\ Len(chunks) = 0
  BY <1>1, EmptySeq
<1> DEFINE p == [k \in 0..0 |-> 0]
<1>3. Sums(chunks, p) /\ p[0] = 0
  BY <1>2 DEF Sums
<1>4. CapacityOf(chunks) = 0
  BY <1>2, <1>3, CapacityIsSum
<1>5. QED
  BY <1>1, <1>2, <1>4 DEF PoolInv, PoolOK

(* The assertions of debug builds hold in a pool of rings.                   *)
LEMMA PoolSafety == PoolInv => HeapTypeOK /\ AssertInvariants
<1> HAVE PoolInv
<1>1. /\ chunks \in Seq(Chunks)
      /\ total_capacity = CapacityOf(chunks) /\ resources \in Nat
      /\ \A i \in 1..Len(chunks) : chunks[i].resource \in 1..resources
  BY DEF PoolInv, PoolOK
<1>2. /\ Len(chunks) \in Nat /\ DOMAIN chunks = 1..Len(chunks)
      /\ total_capacity \in Nat
      /\ \A i \in 1..Len(chunks) :
            /\ chunks[i].capacity \in Nat \ {0}
            /\ chunks[i].allocations \in Seq(Allocations)
  BY <1>1, ChunkFields, CapacityBound
<1>3. ASSUME NEW i \in 1..Len(chunks)
      PROVE  /\ DOMAIN chunks[i].allocations = 1..Len(chunks[i].allocations)
             /\ Len(chunks[i].allocations) \in Nat
             /\ \A j \in 1..Len(chunks[i].allocations) :
                   /\ chunks[i].allocations[j].size \in Nat \ {0}
                   /\ chunks[i].allocations[j].offset \in Nat
                   /\ chunks[i].allocations[j].done \in Nat
  BY <1>2, AllocationFields
<1>4. HeapTypeOK
  BY <1>1, <1>2, <1>3 DEF HeapTypeOK
<1>5. ASSUME NEW i \in 1..Len(chunks),
             NEW j \in 1..Len(chunks[i].allocations),
             NEW k \in 1..Len(chunks[i].allocations)
      PROVE  LET allocs == chunks[i].allocations
             IN  /\ allocs[j].offset + allocs[j].size <= chunks[i].capacity
                 /\ allocs[j].offset % Alignment = 0
                 /\ j < k => /\ allocs[j].done <= allocs[k].done
                             /\ Disjoint(allocs[j], allocs[k])
  <2> DEFINE allocs == chunks[i].allocations
  <2>1. Ring(allocs) /\ Within(allocs, chunks[i].capacity) /\ Sorted(allocs)
    BY DEF PoolInv, PoolOK, ChunkOK
  <2>2. j \in 1..Len(allocs) /\ k \in 1..Len(allocs)
    OBVIOUS
  <2> HIDE DEF allocs
  <2>3. End(allocs[j]) <= chunks[i].capacity /\ allocs[j].offset % Alignment = 0
    BY <2>1, <2>2 DEF Within
  <2>4. ASSUME j < k PROVE Disjoint(allocs[j], allocs[k])
    <3>1. PICK m \in 0..Len(allocs) : Row(allocs, m)
      BY <2>1 DEF Ring
    <3>2. QED
      BY <2>2, <2>4, <3>1 DEF Row, Disjoint, End
  <2>5. j < k => allocs[j].done <= allocs[k].done
    BY <2>1, <2>2 DEF Sorted
  <2>6. QED
    BY <2>3, <2>4, <2>5 DEF End, allocs
<1>6. \A i, j \in 1..Len(chunks) :
         i <= j => chunks[i].capacity <= chunks[j].capacity
  BY DEF PoolInv, PoolOK
<1>7. AssertInvariants
  BY <1>1, <1>2, <1>3, <1>5, <1>6 DEF AssertInvariants
<1>8. QED
  BY <1>4, <1>7
=============================================================================

------------------------ MODULE HeapAllocator_proofs ------------------------
(***************************************************************************)
(* Proofs about HeapAllocator for any threads and devices, every layout of *)
(* the tagged pointer and any number of allocations.                       *)
(***************************************************************************)
EXTENDS HeapAllocator, Integers, SequenceTheorems, WellFoundedInduction,
        TLAPS

USE LimitsAssumption, DevicesAssumption, SizesAssumption

IDs == 1..(AllocationIDLimit - 1)

(* The state of the loop over the heaps of a resource of T tiles, after i    *)
(* heaps, without the loop.                                                  *)
Covered(T, i) == IF i * MaxHeapTiles < T THEN i * MaxHeapTiles ELSE T

HeapTile(t) == <<1 + t \div MaxHeapTiles, t % MaxHeapTiles>>

After(T, i) ==
    [start    |-> Covered(T, i),
     unmapped |-> T - Covered(T, i),
     tiles    |-> [t \in 0..(Covered(T, i) - 1) |-> HeapTile(t)]]

(* What is known of an allocation: it has the size that was asked for, and   *)
(* if its device is tiled every tile of its resource has one of a heap.      *)
IsAllocation(a, d) ==
    /\ a.device = d
    /\ a.size \in 1..OffsetLimit
    /\ a.width \in Nat
    /\ a.size <= a.width
    /\ d \in TiledDevices =>
          \E T \in Nat : /\ a.width = T * TileSize
                         /\ a.tiles = [t \in 0..(T - 1) |-> HeapTile(t)]

Creating == {t \in Threads : pc[t] = "created"}

TypeInv ==
    /\ pc \in [Threads -> {"idle", "created"}]
    /\ devices \in Seq(Nat)
    /\ Len(devices) <= NumMaxDevices
    /\ current_allocation_id \in [Devices -> 0..(AllocationIDLimit - 1)]
    /\ free_allocation_ids \in [Devices -> Seq(IDs)]
    /\ allocations_by_id = [d \in Devices |-> allocations_by_id[d]]
    /\ allocation = [t \in Threads |-> allocation[t]]

(* Every ID handed out so far is live or in the pool, and only once there.   *)
PoolInv ==
    \A d \in Devices :
        /\ LiveIDs(d) \cup FreeIDs(d) = 1..current_allocation_id[d]
        /\ LiveIDs(d) \cap FreeIDs(d) = {}
        /\ \A i, j \in 1..Len(free_allocation_ids[d]) :
              free_allocation_ids[d][i] = free_allocation_ids[d][j] => i = j

(* Allocations, registered or not, are of devices that were inserted. *)
RecordsInv ==
    /\ \A t \in Creating :
          /\ allocation[t].device \in Devices
          /\ Inserted(allocation[t].device)
          /\ IsAllocation(allocation[t], allocation[t].device)
    /\ \A d \in Devices : \A i \in LiveIDs(d) :
          Inserted(d) /\ IsAllocation(allocations_by_id[d][i], d)

(* The block that a caller has for a registered allocation. *)
Block(d, i) == [ptr    |-> Pack(d, i, 0),
                size   |-> allocations_by_id[d][i].size,
                memory |-> allocations_by_id[d][i].memory]

BlocksInv ==
    held = UNION {{Block(d, i) : i \in LiveIDs(d)} : d \in Devices}

(* No memory is used twice, by allocations registered or being created.      *)
MemoryInv ==
    /\ \A d, e \in Devices : \A i \in LiveIDs(d), j \in LiveIDs(e) :
          allocations_by_id[d][i].memory = allocations_by_id[e][j].memory
              => d = e /\ i = j
    /\ \A t \in Creating : \A d \in Devices : \A i \in LiveIDs(d) :
          allocations_by_id[d][i].memory # allocation[t].memory
    /\ \A t, u \in Creating :
          allocation[t].memory = allocation[u].memory => t = u

IInv == TypeInv /\ PoolInv /\ RecordsInv /\ BlocksInv /\ MemoryInv

-----------------------------------------------------------------------------
(* Division undoes the shift of a field, and the remainder the sum with a    *)
(* smaller one.                                                              *)
LEMMA DivMod ==
    ASSUME NEW q \in Nat, NEW b \in Nat \ {0}, NEW r \in 0..(b - 1)
    PROVE  (q * b + r) \div b = q /\ (q * b + r) % b = r
<1> DEFINE x == q * b + r
<1>1. x \in Nat
  OBVIOUS
<1>2. x \div b = q
  OBVIOUS
<1>3. QED
  OBVIOUS

(* A tag within the limits is what Pack made it from, whatever the widths.   *)
LEMMA UnpackPack ==
    ASSUME NEW d \in 0..(DeviceIDLimit - 1),
           NEW i \in 0..(AllocationIDLimit - 1),
           NEW off \in 0..(OffsetLimit - 1)
    PROVE  Unpack(Pack(d, i, off)) =
              [device_id |-> d, allocation_id |-> i, offset |-> off]
<1> DEFINE A == AllocationIDLimit
           O == OffsetLimit
           ids == d * A + i
           p == ids * O + off
<1>1. A \in Nat \ {0} /\ O \in Nat \ {0} /\ d \in Nat /\ i \in Nat
      /\ off \in Nat /\ i \in 0..(A - 1) /\ off \in 0..(O - 1)
      /\ d < DeviceIDLimit /\ DeviceIDLimit \in Nat
  BY LimitsAssumption
<1> HIDE DEF A, O
<1>2. ids \in Nat /\ ids \div A = d /\ ids % A = i
  <2>1. d * A \in Nat
    BY <1>1
  <2>2. QED
    BY <2>1, <1>1, DivMod
<1>3. p \div O = ids /\ p % O = off
  <2> HIDE DEF ids
  <2>1. QED
    BY <1>1, <1>2, DivMod
<1>4. p \div (A * O) = d
  <2>1. A * O \in Nat \ {0} /\ i * O + off \in Nat
    BY <1>1
  <2>2. i * O + off <= A * O - 1
    <3>1. i + 1 <= A /\ off + 1 <= O
      BY <1>1
    <3>2. (i + 1) * O <= A * O
      BY <3>1, <1>1
    <3>3. (i + 1) * O = i * O + O /\ i * O \in Nat /\ A * O \in Nat
      BY <1>1
    <3>4. QED
      BY <3>1, <3>2, <3>3, <1>1
  <2>3. i * O + off \in 0..(A * O - 1)
    BY <2>1, <2>2
  <2>4. p = d * (A * O) + (i * O + off)
    <3>1. (d * A + i) * O = (d * A) * O + i * O
      BY <1>1
    <3>2. (d * A) * O = d * (A * O)
      BY <1>1
    <3>3. i * O \in Nat /\ d * (A * O) \in Nat
      BY <1>1
    <3>4. QED
      BY <3>1, <3>2, <3>3, <1>1
  <2>5. (d * (A * O) + (i * O + off)) \div (A * O) = d
    BY <2>1, <2>3, <1>1, DivMod
  <2>6. QED
    BY <2>4, <2>5
<1>5. d % DeviceIDLimit = d
  BY <1>1
<1>6. Pack(d, i, off) = p
  BY DEF Pack, A, O
<1>7. /\ (p \div (A * O)) % DeviceIDLimit = d
      /\ (p \div O) % A = i /\ p % O = off
  BY <1>2, <1>3, <1>4, <1>5
<1> HIDE DEF p
<1>8. QED
  BY <1>6, <1>7 DEF Unpack, A, O

(* The addresses of a block are the tags of its offsets, and never null.     *)
LEMMA PackOffset ==
    ASSUME NEW d \in Nat, NEW i \in Nat, NEW off \in Nat
    PROVE  /\ Pack(d, i, 0) \in Nat
           /\ Pack(d, i, 0) + off = Pack(d, i, off)
           /\ i # 0 => Pack(d, i, 0) > 0
<1>1. AllocationIDLimit \in Nat /\ OffsetLimit \in Nat \ {0}
  BY LimitsAssumption
<1>2. d * AllocationIDLimit + i \in Nat
  BY <1>1
<1> DEFINE ids == d * AllocationIDLimit + i
<1>3. i # 0 => ids > 0
  <2>1. d * AllocationIDLimit \in Nat
    BY <1>1
  <2>2. QED
    BY <2>1
<1> HIDE DEF ids
<1>4. ids \in Nat
  BY <1>2 DEF ids
<1>5. ids * OffsetLimit \in Nat /\ (ids > 0 => ids * OffsetLimit > 0)
  BY <1>1, <1>4
<1>6. Pack(d, i, 0) = ids * OffsetLimit + 0
      /\ Pack(d, i, off) = ids * OffsetLimit + off
  BY DEF Pack, ids
<1>7. QED
  BY <1>3, <1>5, <1>6

(* A tiled resource has room for the size that was asked for. *)
LEMMA TilesSuffice ==
    ASSUME NEW size \in Nat \ {0}
    PROVE  /\ CeilDiv(size, TileSize) * TileSize \in Nat
           /\ size <= CeilDiv(size, TileSize) * TileSize
<1>1. TileSize \in Nat \ {0}
  BY SizesAssumption
<1> DEFINE q == (size - 1) \div TileSize
           r == (size - 1) % TileSize
<1>2. q \in Nat /\ r \in 0..(TileSize - 1) /\ size - 1 = q * TileSize + r
  BY <1>1
<1> HIDE DEF q, r
<1>3. (1 + q) * TileSize = TileSize + q * TileSize /\ q * TileSize \in Nat
  BY <1>1, <1>2
<1>4. size <= (1 + q) * TileSize
  BY <1>1, <1>2, <1>3
<1>5. QED
  BY <1>1, <1>2, <1>3, <1>4 DEF CeilDiv, q

(* One turn of the loop. *)
LEMMA MapHeapStep ==
    ASSUME NEW T \in Nat, NEW i \in Nat \ {0}
    PROVE  MapHeap(After(T, i - 1), i) = After(T, i)
<1> DEFINE M == MaxHeapTiles
           s == Covered(T, i - 1)
           n == IF T - s < M THEN T - s ELSE M
           p == (i - 1) * M
<1>1. M \in Nat \ {0} /\ p \in Nat /\ i * M = p + M
  BY SizesAssumption
<1> HIDE DEF M, p
<1>2. s = IF p < T THEN p ELSE T
  BY DEF Covered, M, p
<1>3. Covered(T, i) = IF p + M < T THEN p + M ELSE T
  BY <1>1 DEF Covered, M
<1>4. /\ s \in Nat /\ n \in Nat /\ Covered(T, i) = s + n
      /\ n > 0 => s = p /\ n <= M
  BY <1>1, <1>2, <1>3
<1> HIDE DEF s, n
<1>5. 0..(s - 1) \cup s..(s + n - 1) = 0..(s + n - 1)
  BY <1>4
<1>6. ASSUME NEW t \in 0..(s + n - 1), t \notin 0..(s - 1)
      PROVE  HeapTile(t) = <<i, t - s>>
  <2>1. n > 0 /\ t - s \in 0..(M - 1) /\ t = (i - 1) * M + (t - s)
    BY <1>1, <1>4, <1>6 DEF p
  <2>2. i - 1 \in Nat
    OBVIOUS
  <2> DEFINE r == t - s
             q == i - 1
  <2>3. r \in 0..(M - 1) /\ q \in Nat /\ t = q * M + r
    BY <2>1, <2>2
  <2> HIDE DEF r, q
  <2>4. t \div M = q /\ t % M = r
    BY <1>1, <2>3, DivMod
  <2>5. 1 + q = i
    BY DEF q
  <2>6. QED
    BY <2>4, <2>5 DEF HeapTile, M, r
<1> DEFINE old == [t \in 0..(s - 1) |-> HeapTile(t)]
           new == [t \in DOMAIN old \cup s..(s + n - 1)
                     |-> IF t \in DOMAIN old THEN old[t] ELSE <<i, t - s>>]
<1>7. new = [t \in 0..(s + n - 1) |-> HeapTile(t)]
  BY <1>5, <1>6
<1>8. (T - s) - n = T - (s + n)
  BY <1>4
<1>9. MapHeap(After(T, i - 1), i)
         = [start |-> s + n, unmapped |-> (T - s) - n, tiles |-> new]
  <2> DEFINE acc == After(T, i - 1)
  <2>1. acc.start = s /\ acc.unmapped = T - s /\ acc.tiles = old
    BY DEF After, s
  <2> HIDE DEF acc, old
  <2>2. (IF acc.unmapped < M THEN acc.unmapped ELSE M) = n
    BY <2>1 DEF n
  <2>3. MapHeap(acc, i)
          = [start    |-> acc.start + n,
             unmapped |-> acc.unmapped - n,
             tiles    |-> [t \in DOMAIN acc.tiles
                                    \cup acc.start..(acc.start + n - 1)
                             |-> IF t \in DOMAIN acc.tiles THEN acc.tiles[t]
                                 ELSE <<i, t - acc.start>>]]
    BY <2>2, Zenon DEF MapHeap, M
  <2>4. QED
    BY <2>1, <2>3, Zenon DEF acc
<1> HIDE DEF new
<1>10. After(T, i) = [start |-> s + n, unmapped |-> T - (s + n), tiles |-> new]
  BY <1>4, <1>7 DEF After
<1>11. QED
  BY <1>8, <1>9, <1>10

(* A least natural number with a property. *)
LEMMA LeastElement ==
    ASSUME NEW S \in SUBSET Nat, S # {}
    PROVE  \E m \in S : \A n \in S : m <= n
<1>1. PICK m \in S : \A n \in S : ~(<<n, m>> \in OpToRel(<, Nat))
  BY NatLessThanWellFounded, WFMin, Zenon
<1>2. \A n \in S : ~(n < m)
  BY <1>1 DEF OpToRel
<1>3. QED
  BY <1>2

(* What the loop leaves: After is a solution of its recursion, and the only  *)
(* one, since two solutions differ at no least number of heaps.              *)
LEMMA MapHeapsResult ==
    ASSUME NEW T \in Nat, NEW count \in Nat
    PROVE  MapHeaps(T, count) = After(T, count)
<1> DEFINE base == [start |-> 0, unmapped |-> T, tiles |-> EmptyMap]
           Solves(f) == f = [i \in 0..count |-> IF i = 0 THEN base
                                                ELSE MapHeap(f[i - 1], i)]
           g == [i \in 0..count |-> After(T, i)]
           f == CHOOSE f : Solves(f)
<1>1. After(T, 0) = base
  <2>1. Covered(T, 0) = 0
    BY SizesAssumption DEF Covered
  <2>2. [t \in 0..(0 - 1) |-> HeapTile(t)] = EmptyMap
    BY DEF EmptyMap
  <2>3. QED
    BY <2>1, <2>2 DEF After
<1>2. Solves(g)
  <2> HIDE DEF base
  <2>1. ASSUME NEW i \in 0..count
        PROVE  g[i] = IF i = 0 THEN base ELSE MapHeap(g[i - 1], i)
    <3>1. CASE i = 0
      BY <1>1, <3>1
    <3>2. CASE i # 0
      <4>1. i \in Nat \ {0} /\ i - 1 \in 0..count
        BY <3>2
      <4>2. g[i - 1] = After(T, i - 1) /\ g[i] = After(T, i)
        BY <4>1
      <4>3. QED
        BY <3>2, <4>1, <4>2, MapHeapStep
    <3>3. QED
      BY <3>1, <3>2
  <2>2. QED
    BY <2>1
<1>3. Solves(f)
  <2> HIDE DEF Solves, g
  <2>1. QED
    BY <1>2
<1>4. MapHeaps(T, count) = f[count]
  BY DEF MapHeaps
<1> HIDE DEF f, base
<1>5. f[0] = base
      /\ \A i \in 1..count : f[i] = MapHeap(f[i - 1], i)
  BY <1>3
<1> DEFINE S == {i \in 0..count : f[i] # After(T, i)}
<1>6. S = {}
  <2> SUFFICES ASSUME S # {} PROVE FALSE
    OBVIOUS
  <2>1. S \in SUBSET Nat
    OBVIOUS
  <2>2. PICK m \in S : \A i \in S : m <= i
    BY <2>1, LeastElement
  <2>3. m \in 1..count
    BY <1>1, <1>5, <2>2
  <2>4. m - 1 \in 0..count /\ m \in Nat \ {0} /\ m - 1 \notin S
    BY <2>2, <2>3
  <2>5. f[m - 1] = After(T, m - 1)
    BY <2>4
  <2>6. f[m] = MapHeap(f[m - 1], m)
    BY <1>5, <2>3
  <2>7. f[m] = After(T, m)
    BY <2>4, <2>5, <2>6, MapHeapStep
  <2>8. QED
    BY <2>2, <2>7
<1>7. QED
  BY <1>4, <1>6

(* The heaps that are created suffice for all tiles: none is left unmapped,  *)
(* as TryCreateTiledAllocation asserts after the loop.                       *)
LEMMA TilesMapped ==
    ASSUME NEW size \in Nat \ {0}
    PROVE  LET tiles  == CeilDiv(size, TileSize)
               mapped == MapHeaps(tiles, CeilDiv(tiles, MaxHeapTiles))
           IN  /\ tiles \in Nat
               /\ mapped.unmapped = 0
               /\ mapped.tiles = [t \in 0..(tiles - 1) |-> HeapTile(t)]
<1> DEFINE T == CeilDiv(size, TileSize)
           count == CeilDiv(T, MaxHeapTiles)
<1>1. T \in Nat \ {0}
  BY SizesAssumption DEF CeilDiv
<1> HIDE DEF T
<1>2. count \in Nat
  BY <1>1, SizesAssumption DEF CeilDiv
<1>3. count * MaxHeapTiles \in Nat /\ T <= count * MaxHeapTiles
  <2> DEFINE q == (T - 1) \div MaxHeapTiles
             r == (T - 1) % MaxHeapTiles
  <2>1. MaxHeapTiles \in Nat \ {0}
    BY SizesAssumption
  <2>2. q \in Nat /\ r \in 0..(MaxHeapTiles - 1)
        /\ T - 1 = q * MaxHeapTiles + r
    BY <1>1, <2>1
  <2>3. count = 1 + q
    BY DEF CeilDiv
  <2> HIDE DEF q, r, count
  <2>4. (1 + q) * MaxHeapTiles = MaxHeapTiles + q * MaxHeapTiles
        /\ q * MaxHeapTiles \in Nat
    BY <2>1, <2>2
  <2>5. QED
    BY <1>1, <2>1, <2>2, <2>3, <2>4
<1> HIDE DEF count
<1>4. Covered(T, count) = T
  BY <1>1, <1>3 DEF Covered
<1>5. MapHeaps(T, count) = After(T, count)
  BY <1>1, <1>2, MapHeapsResult
<1>6. MapHeaps(T, count).unmapped = 0
      /\ MapHeaps(T, count).tiles = [t \in 0..(T - 1) |-> HeapTile(t)]
  BY <1>1, <1>4, <1>5 DEF After
<1>7. QED
  BY <1>1, <1>6 DEF T, count

-----------------------------------------------------------------------------
LEMMA InitIInv == Init => IInv
<1> SUFFICES ASSUME Init PROVE IInv
  OBVIOUS
<1>1. \A d \in Devices : allocations_by_id[d] = [x \in {} |-> 0]
  BY DEF Init, EmptyMap
<1>2. \A d \in Devices : LiveIDs(d) = {}
  BY <1>1 DEF LiveIDs
<1>3. Creating = {}
  BY DEF Init, Creating
<1>4. TypeInv
  <2>1. AllocationIDLimit \in Nat \ {0} /\ NumMaxDevices \in Nat
    BY LimitsAssumption, DevicesAssumption
  <2>2. QED
    BY <2>1 DEF Init, TypeInv, IDs
<1>5. PoolInv
  <2>1. \A d \in Devices : FreeIDs(d) = {}
    BY DEF Init, FreeIDs, Range
  <2>2. QED
    BY <1>2, <2>1 DEF Init, PoolInv
<1>6. RecordsInv /\ MemoryInv
  BY <1>2, <1>3 DEF RecordsInv, MemoryInv
<1>7. BlocksInv
  BY <1>2 DEF Init, BlocksInv
<1>8. QED
  BY <1>4, <1>5, <1>6, <1>7 DEF IInv

(* Distinct live IDs make distinct tags. *)
LEMMA TagsDistinct ==
    ASSUME IInv, NEW d \in Devices, NEW i \in LiveIDs(d)
    PROVE  /\ d \in 0..(DeviceIDLimit - 1) /\ d \in Nat
           /\ i \in IDs /\ i \in Nat \ {0}
           /\ i \in 0..(AllocationIDLimit - 1)
<1>1. Inserted(d) /\ Len(devices) \in Nat /\ Len(devices) <= NumMaxDevices
  BY LenProperties DEF IInv, RecordsInv, TypeInv
<1>2. d \in Nat /\ NumMaxDevices <= DeviceIDLimit /\ NumMaxDevices \in Nat
      /\ DeviceIDLimit \in Nat
  BY DevicesAssumption, LimitsAssumption
<1>3. d < Len(devices)
  BY <1>1 DEF Inserted
<1>4. /\ current_allocation_id[d] \in 0..(AllocationIDLimit - 1)
      /\ i \in 1..current_allocation_id[d]
  BY DEF IInv, TypeInv, PoolInv
<1>5. AllocationIDLimit \in Nat
  BY LimitsAssumption
<1>6. QED
  BY <1>1, <1>2, <1>3, <1>4, <1>5 DEF IDs

(* A device that was inserted stays; no other part is touched. *)
LEMMA InsertStep == ASSUME IInv, NEW d \in Devices, InsertDevice(d) PROVE IInv'
<1>s. TypeInv /\ PoolInv /\ RecordsInv /\ BlocksInv /\ MemoryInv
  BY DEF IInv
<1> DEFINE m == IF d >= Len(devices) THEN d + 1 ELSE Len(devices)
           new(i) == IF i = d + 1 THEN d + 1
                     ELSE IF i <= Len(devices) THEN devices[i] ELSE 0
<1>1. /\ d < NumMaxDevices /\ devices' = [i \in 1..m |-> new(i)]
      /\ UNCHANGED <<allocatorVars, pc, allocation, held>>
  BY DEF InsertDevice
<1>2. /\ devices \in Seq(Nat) /\ Len(devices) \in Nat
      /\ Len(devices) <= NumMaxDevices
      /\ \A i \in 1..Len(devices) : devices[i] \in Nat
  BY <1>s, LenProperties, ElementOfSeq DEF TypeInv
<1>3. d \in Nat /\ NumMaxDevices \in Nat
  BY DevicesAssumption
<1>4. m \in Nat /\ m >= Len(devices) /\ m <= NumMaxDevices
  BY <1>1, <1>2, <1>3
<1>5. \A i \in 1..m : new(i) \in Nat
  BY <1>2, <1>3, <1>4
<1>6. devices' \in Seq(Nat) /\ Len(devices') = m
  <2> HIDE DEF m, new
  <2>1. QED
    BY <1>1, <1>4, <1>5
<1>7. \A e \in Devices : Inserted(e) => Inserted(e)'
  <2> TAKE e \in Devices
  <2> HAVE Inserted(e)
  <2>1. e \in Nat /\ e < Len(devices) /\ devices[e + 1] = e + 1
    BY DevicesAssumption DEF Inserted
  <2>2. e + 1 \in 1..m /\ e < m
    BY <2>1, <1>2, <1>4
  <2>3. new(e + 1) = e + 1
    BY <2>1, <1>2, <1>3
  <2>4. devices'[e + 1] = e + 1
    BY <2>2, <2>3, <1>1
  <2>5. QED
    BY <2>2, <2>4, <1>6 DEF Inserted
<1>8. TypeInv'
  BY <1>1, <1>4, <1>6, <1>s DEF TypeInv, allocatorVars
<1>9. PoolInv' /\ MemoryInv'
  BY <1>1, <1>s DEF PoolInv, MemoryInv, LiveIDs, FreeIDs, Creating,
                    allocatorVars
<1>10. RecordsInv'
  BY <1>1, <1>7, <1>s DEF RecordsInv, LiveIDs, Creating, allocatorVars
<1>11. BlocksInv'
  BY <1>1, <1>s DEF BlocksInv, Block, LiveIDs, allocatorVars
<1>12. QED
  BY <1>8, <1>9, <1>10, <1>11 DEF IInv

(* The new allocation has memory that no other uses. *)
LEMMA CreateStep ==
    ASSUME IInv, NEW t \in Threads, NEW d \in Devices, NEW size \in Sizes,
           AllocCreates(t, d, size)
    PROVE  IInv'
<1>s. TypeInv /\ PoolInv /\ RecordsInv /\ BlocksInv /\ MemoryInv
  BY DEF IInv
<1>1. /\ pc[t] = "idle" /\ Inserted(d) /\ size # 0
      /\ pc' = [pc EXCEPT ![t] = "created"]
      /\ UNCHANGED <<devices, allocatorVars, held>>
  BY DEF AllocCreates
<1>2. PICK m \in Memory \ InUse :
         allocation' = [allocation EXCEPT ![t] =
                            IF d \in TiledDevices
                            THEN TiledAllocation(d, size, m)
                            ELSE UntiledAllocation(d, size, m)]
  BY DEF AllocCreates
<1> DEFINE a == IF d \in TiledDevices THEN TiledAllocation(d, size, m)
                ELSE UntiledAllocation(d, size, m)
<1>3. /\ size \in Nat \ {0} /\ size + TileSize <= OffsetLimit
      /\ OffsetLimit \in Nat /\ TileSize \in Nat
  BY <1>1, SizesAssumption, LimitsAssumption
<1>4. IsAllocation(a, d) /\ a.memory = m /\ a.device = d
  <2>1. CASE d \in TiledDevices
    <3>1. /\ a.device = d /\ a.size = size /\ a.memory = m
          /\ a.width = CeilDiv(size, TileSize) * TileSize
      BY <2>1 DEF TiledAllocation
    <3>2. a.tiles = [k \in 0..(CeilDiv(size, TileSize) - 1) |-> HeapTile(k)]
      BY <1>3, <2>1, TilesMapped DEF TiledAllocation
    <3> HIDE DEF a
    <3>3. CeilDiv(size, TileSize) \in Nat
      BY <1>3, TilesMapped
    <3>4. QED
      BY <3>1, <3>2, <3>3, <1>3, TilesSuffice DEF IsAllocation
  <2>2. CASE d \notin TiledDevices
    <3>1. a.device = d /\ a.size = size /\ a.memory = m /\ a.width = size
      BY <2>2 DEF UntiledAllocation
    <3> HIDE DEF a
    <3>2. QED
      BY <2>2, <3>1, <1>3 DEF IsAllocation
  <2>3. QED
    BY <2>1, <2>2
<1> HIDE DEF a
<1>5. /\ allocation' = [u \in Threads |->
                           IF u = t THEN a ELSE allocation[u]]
      /\ pc' = [u \in Threads |-> IF u = t THEN "created" ELSE pc[u]]
  BY <1>1, <1>2, <1>s DEF TypeInv, a
<1>6. Creating' = Creating \cup {t} /\ t \notin Creating
  BY <1>1, <1>5 DEF Creating
<1>7. TypeInv'
  BY <1>1, <1>5, <1>s DEF TypeInv, allocatorVars
<1>8. PoolInv'
  BY <1>1, <1>s DEF PoolInv, LiveIDs, FreeIDs, allocatorVars
<1>9. BlocksInv'
  BY <1>1, <1>s DEF BlocksInv, Block, LiveIDs, allocatorVars
<1>10. RecordsInv'
  <2>1. \A e : Inserted(e)' <=> Inserted(e)
    BY <1>1 DEF Inserted
  <2>2. \A u \in Creating' : /\ allocation'[u].device \in Devices
                             /\ Inserted(allocation'[u].device)
                             /\ IsAllocation(allocation'[u],
                                             allocation'[u].device)
    BY <1>1, <1>4, <1>5, <1>6, <1>s DEF RecordsInv, Creating
  <2>3. \A e \in Devices : \A i \in LiveIDs(e) :
           Inserted(e) /\ IsAllocation(allocations_by_id[e][i], e)
    BY <1>s DEF RecordsInv
  <2>4. QED
    BY <2>1, <2>2, <2>3, <1>1 DEF RecordsInv, LiveIDs, allocatorVars,
                                  Inserted
<1>11. MemoryInv'
  <2>1. \A u \in Creating : allocation[u].memory # m
    BY <1>2 DEF InUse, Creating
  <2>2. \A e \in Devices : \A i \in LiveIDs(e) :
           allocations_by_id[e][i].memory # m
    BY <1>2 DEF InUse, LiveIDs
  <2>3. allocation'[t] = a
        /\ \A u \in Creating : allocation'[u] = allocation[u]
    BY <1>5, <1>6 DEF Creating
  <2>4. allocations_by_id' = allocations_by_id
    BY <1>1 DEF allocatorVars
  <2>5. \A e \in Devices : LiveIDs(e)' = LiveIDs(e)
    BY <2>4 DEF LiveIDs
  <2>6. \A u \in Creating' : \A e \in Devices : \A i \in LiveIDs(e) :
           allocations_by_id[e][i].memory # allocation'[u].memory
    BY <2>2, <2>3, <1>4, <1>6, <1>s DEF MemoryInv
  <2>7. \A u, v \in Creating' :
           allocation'[u].memory = allocation'[v].memory => u = v
    BY <2>1, <2>3, <1>4, <1>6, <1>s DEF MemoryInv
  <2>8. QED
    BY <2>4, <2>5, <2>6, <2>7, <1>s DEF MemoryInv
<1>12. QED
  BY <1>7, <1>8, <1>9, <1>10, <1>11 DEF IInv

(* The reserved ID is not live, and leaves the pool without a trace. *)
LEMMA ReservedID ==
    ASSUME IInv, NEW d \in Devices, IDLeft(d)
    PROVE  LET r == ReserveAllocationID(d)
           IN  /\ r.id \in IDs /\ r.id \notin LiveIDs(d)
               /\ r.free \in Seq(IDs)
               /\ r.current \in 0..(AllocationIDLimit - 1)
               /\ (LiveIDs(d) \cup {r.id}) \cup Range(r.free) = 1..r.current
               /\ (LiveIDs(d) \cup {r.id}) \cap Range(r.free) = {}
               /\ \A i, j \in 1..Len(r.free) : r.free[i] = r.free[j] => i = j
<1> DEFINE free == free_allocation_ids[d]
           cur == current_allocation_id[d]
           r == ReserveAllocationID(d)
           n == Len(free)
<1>1. /\ free \in Seq(IDs) /\ cur \in 0..(AllocationIDLimit - 1)
      /\ AllocationIDLimit \in Nat
      /\ LiveIDs(d) \cup Range(free) = 1..cur
      /\ LiveIDs(d) \cap Range(free) = {}
      /\ \A i, j \in 1..n : free[i] = free[j] => i = j
  BY LimitsAssumption DEF IInv, TypeInv, PoolInv, FreeIDs
<1>2. n \in Nat /\ DOMAIN free = 1..n /\ \A i \in 1..n : free[i] \in IDs
  BY <1>1, LenProperties, ElementOfSeq
<1>3. CASE free # << >>
  <2> DEFINE f == SubSeq(free, 1, n - 1)
             id == free[n]
  <2>1. r.id = id /\ r.free = f /\ r.current = cur
    BY <1>3 DEF ReserveAllocationID, Last, Front
  <2>2. n \in 1..n /\ \A i \in 1..n : i = n \/ i \in 1..(n - 1)
    <3>1. n # 0
      BY <1>1, <1>3, EmptySeq
    <3>2. QED
      BY <3>1, <1>2
  <2>3. /\ f \in Seq(IDs) /\ Len(f) = n - 1
        /\ \A i \in 1..(n - 1) : f[i] = free[i]
    <3>1. \A i \in 1..(n - 1) : free[i] \in IDs
      BY <1>2
    <3>2. /\ f \in Seq(IDs)
          /\ Len(f) = IF 1 <= n - 1 THEN (n - 1) - 1 + 1 ELSE 0
          /\ \A i \in 1..((n - 1) - 1 + 1) : f[i] = free[1 + i - 1]
      BY <1>2, <3>1, SubSeqProperties
    <3>3. QED
      BY <1>2, <2>2, <3>2
  <2> HIDE DEF f, r, n
  <2>4. DOMAIN f = 1..(n - 1)
    BY <2>3, LenProperties
  <2>5. \A i \in 1..(n - 1) : i \in 1..n /\ i # n
    BY <1>2
  <2>6. id \in Range(free) /\ id \notin Range(f)
    BY <1>1, <1>2, <2>2, <2>3, <2>4, <2>5 DEF Range
  <2>7. Range(free) = Range(f) \cup {id}
    <3>1. \A x \in Range(free) : x \in Range(f) \cup {id}
      BY <1>2, <2>2, <2>3, <2>4 DEF Range
    <3>2. \A x \in Range(f) : x \in Range(free)
      BY <1>2, <2>3, <2>4, <2>5 DEF Range
    <3>3. QED
      BY <3>1, <3>2, <2>6
  <2>8. \A i, j \in 1..(n - 1) : f[i] = f[j] => i = j
    BY <1>1, <2>3, <2>5
  <2>9. id \in IDs
    BY <1>2, <2>2
  <2> HIDE DEF id
  <2>10. QED
    BY <1>1, <2>1, <2>3, <2>6, <2>7, <2>8, <2>9 DEF r
<1>4. CASE free = << >>
  <2>1. r.id = cur + 1 /\ r.free = << >> /\ r.current = cur + 1
    BY <1>4 DEF ReserveAllocationID
  <2>2. cur # AllocationIDLimit - 1
    BY <1>4 DEF IDLeft
  <2>3. Range(free) = {} /\ Range(r.free) = {} /\ Len(r.free) = 0
    BY <1>4, <2>1 DEF Range
  <2>4. r.free \in Seq(IDs)
    BY <2>1
  <2> HIDE DEF r, cur, free
  <2>5. LiveIDs(d) = 1..cur
    BY <1>1, <2>3
  <2>6. 1..cur \cup {cur + 1} = 1..(cur + 1)
    BY <1>1
  <2>7. cur + 1 \notin 1..cur
    BY <1>1
  <2>8. cur + 1 \in 1..(AllocationIDLimit - 1)
    BY <1>1, <2>2
  <2>9. QED
    BY <2>1, <2>3, <2>4, <2>5, <2>6, <2>7, <2>8 DEF IDs, r
<1>5. QED
  BY <1>3, <1>4

(* What a registration does to the table: the new ID names the allocation    *)
(* that the thread had created, and every other ID what it named before.     *)
LEMMA Registration ==
    ASSUME IInv, NEW t \in Threads, AllocRegisters(t)
    PROVE  \E d \in Devices, id \in IDs :
              /\ d = allocation[t].device /\ t \in Creating
              /\ id \notin LiveIDs(d)
              /\ UNCHANGED devices
              /\ pc' = [pc EXCEPT ![t] = "idle"]
              /\ allocation' = [allocation EXCEPT ![t] = NoAllocation]
              /\ TypeInv' /\ PoolInv'
              /\ LiveIDs(d)' = LiveIDs(d) \cup {id}
              /\ \A e \in Devices \ {d} : LiveIDs(e)' = LiveIDs(e)
              /\ allocations_by_id'[d][id] = allocation[t]
              /\ \A e \in Devices : \A i \in LiveIDs(e) :
                    allocations_by_id'[e][i] = allocations_by_id[e][i]
              /\ held' = held \cup {[ptr |-> Pack(d, id, 0),
                                     size |-> allocation[t].size,
                                     memory |-> allocation[t].memory]}
<1>s. TypeInv /\ PoolInv /\ RecordsInv
  BY DEF IInv
<1>a. pc[t] = "created"
  BY DEF AllocRegisters
<1>b. PICK d \in Devices : d = allocation[t].device
  BY <1>a, <1>s DEF Creating, RecordsInv
<1>c. PICK r : r = ReserveAllocationID(d)
  OBVIOUS
<1> DEFINE live == DOMAIN allocations_by_id[d]
           table == [i \in live \cup {r.id} |->
                        IF i \in live THEN allocations_by_id[d][i]
                        ELSE allocation[t]]
<1>1. /\ pc[t] = "created" /\ IDLeft(d)
      /\ current_allocation_id' = [current_allocation_id EXCEPT
                                      ![d] = r.current]
      /\ free_allocation_ids' = [free_allocation_ids EXCEPT ![d] = r.free]
      /\ allocations_by_id' = [allocations_by_id EXCEPT ![d] = table]
      /\ held' = held \cup {[ptr |-> Pack(d, r.id, 0),
                             size |-> allocation[t].size,
                             memory |-> allocation[t].memory]}
      /\ pc' = [pc EXCEPT ![t] = "idle"]
      /\ allocation' = [allocation EXCEPT ![t] = NoAllocation]
      /\ UNCHANGED devices
  BY <1>b, <1>c DEF AllocRegisters
<1>2. t \in Creating
  BY <1>1 DEF Creating
<1>3. /\ r.id \in IDs /\ r.id \notin LiveIDs(d)
      /\ r.free \in Seq(IDs)
      /\ r.current \in 0..(AllocationIDLimit - 1)
      /\ (LiveIDs(d) \cup {r.id}) \cup Range(r.free) = 1..r.current
      /\ (LiveIDs(d) \cup {r.id}) \cap Range(r.free) = {}
      /\ \A i, j \in 1..Len(r.free) : r.free[i] = r.free[j] => i = j
  BY <1>1, <1>c, ReservedID
<1>4. /\ DOMAIN table = live \cup {r.id} /\ live = LiveIDs(d)
      /\ table[r.id] = allocation[t]
      /\ \A i \in live : table[i] = allocations_by_id[d][i]
  BY <1>3 DEF LiveIDs
<1> HIDE DEF table, live
<1>5. allocations_by_id' = [e \in Devices |->
                               IF e = d THEN table ELSE allocations_by_id[e]]
  BY <1>1, <1>2, <1>s DEF TypeInv
<1>6. LiveIDs(d)' = LiveIDs(d) \cup {r.id}
  BY <1>2, <1>4, <1>5 DEF LiveIDs
<1>7. \A e \in Devices \ {d} : LiveIDs(e)' = LiveIDs(e)
  BY <1>5 DEF LiveIDs
<1>8. allocations_by_id'[d][r.id] = allocation[t]
  BY <1>2, <1>4, <1>5
<1>9. \A e \in Devices : \A i \in LiveIDs(e) :
         allocations_by_id'[e][i] = allocations_by_id[e][i]
  BY <1>4, <1>5
<1>10. TypeInv'
  <2>1. pc' \in [Threads -> {"idle", "created"}]
    BY <1>1, <1>s DEF TypeInv
  <2>2. current_allocation_id' \in [Devices -> 0..(AllocationIDLimit - 1)]
    BY <1>1, <1>3, <1>s DEF TypeInv
  <2>3. free_allocation_ids' \in [Devices -> Seq(IDs)]
    BY <1>1, <1>3, <1>s DEF TypeInv
  <2>4. allocation' = [u \in Threads |-> allocation'[u]]
    BY <1>1, <1>s DEF TypeInv
  <2>5. allocations_by_id' = [e \in Devices |-> allocations_by_id'[e]]
    BY <1>5
  <2>6. QED
    BY <2>1, <2>2, <2>3, <2>4, <2>5, <1>1, <1>s DEF TypeInv
<1>11. PoolInv'
  <2>1. ASSUME NEW e \in Devices \ {d}
        PROVE  /\ LiveIDs(e)' \cup FreeIDs(e)' = 1..current_allocation_id'[e]
               /\ LiveIDs(e)' \cap FreeIDs(e)' = {}
               /\ \A i, j \in 1..Len(free_allocation_ids'[e]) :
                     free_allocation_ids'[e][i] = free_allocation_ids'[e][j]
                        => i = j
    <3>1. /\ current_allocation_id'[e] = current_allocation_id[e]
          /\ free_allocation_ids'[e] = free_allocation_ids[e]
      BY <1>1, <1>s DEF TypeInv
    <3>2. FreeIDs(e)' = FreeIDs(e)
      BY <3>1 DEF FreeIDs
    <3>3. QED
      BY <3>1, <3>2, <1>7, <1>s DEF PoolInv
  <2>2. /\ current_allocation_id'[d] = r.current
        /\ free_allocation_ids'[d] = r.free
    BY <1>1, <1>2, <1>s DEF TypeInv
  <2>3. FreeIDs(d)' = Range(r.free)
    BY <2>2 DEF FreeIDs
  <2>4. QED
    BY <2>1, <2>2, <2>3, <1>2, <1>3, <1>6 DEF PoolInv
<1>12. QED
  BY <1>b, <1>1, <1>2, <1>3, <1>6, <1>7, <1>8, <1>9, <1>10, <1>11

LEMMA RegisterStep ==
    ASSUME IInv, NEW t \in Threads, AllocRegisters(t) PROVE IInv'
<1>s. TypeInv /\ RecordsInv /\ BlocksInv /\ MemoryInv
  BY DEF IInv
<1>1. PICK d \in Devices, id \in IDs :
         /\ d = allocation[t].device /\ t \in Creating
         /\ id \notin LiveIDs(d)
         /\ UNCHANGED devices
         /\ pc' = [pc EXCEPT ![t] = "idle"]
         /\ allocation' = [allocation EXCEPT ![t] = NoAllocation]
         /\ TypeInv' /\ PoolInv'
         /\ LiveIDs(d)' = LiveIDs(d) \cup {id}
         /\ \A e \in Devices \ {d} : LiveIDs(e)' = LiveIDs(e)
         /\ allocations_by_id'[d][id] = allocation[t]
         /\ \A e \in Devices : \A i \in LiveIDs(e) :
               allocations_by_id'[e][i] = allocations_by_id[e][i]
         /\ held' = held \cup {[ptr |-> Pack(d, id, 0),
                                size |-> allocation[t].size,
                                memory |-> allocation[t].memory]}
  BY Registration
<1>2. Creating' = Creating \ {t}
  BY <1>1, <1>s DEF Creating, TypeInv
<1>3. \A u \in Creating' : allocation'[u] = allocation[u] /\ u \in Creating
  BY <1>1, <1>2, <1>s DEF TypeInv, Creating
<1>4. \A e \in Devices : \A i \in LiveIDs(e)' :
         i \in LiveIDs(e) \/ (e = d /\ i = id)
  BY <1>1
<1>5. \A e : Inserted(e)' <=> Inserted(e)
  BY <1>1 DEF Inserted
<1>6. RecordsInv'
  <2>1. ASSUME NEW u \in Creating'
        PROVE  /\ allocation'[u].device \in Devices
               /\ Inserted(allocation'[u].device)
               /\ IsAllocation(allocation'[u], allocation'[u].device)
    BY <1>3, <1>s DEF RecordsInv
  <2>2. ASSUME NEW e \in Devices, NEW i \in LiveIDs(e)'
        PROVE  Inserted(e) /\ IsAllocation(allocations_by_id'[e][i], e)
    BY <1>1, <1>4, <1>s DEF RecordsInv
  <2>3. QED
    BY <2>1, <2>2, <1>1 DEF RecordsInv, Inserted
<1>7. BlocksInv'
  <2>1. \A e \in Devices : \A i \in LiveIDs(e) : Block(e, i)' = Block(e, i)
    BY <1>1 DEF Block
  <2>2. held' = held \cup {Block(d, id)'}
    BY <1>1 DEF Block
  <2>3. \A e \in Devices : LiveIDs(e) \subseteq LiveIDs(e)'
        /\ id \in LiveIDs(d)'
    BY <1>1
  <2> DEFINE blocks == UNION {{Block(e, i)' : i \in LiveIDs(e)'} :
                                 e \in Devices}
  <2>4. \A x \in held' : x \in blocks
    <3> TAKE x \in held'
    <3>1. CASE x = Block(d, id)'
      BY <3>1, <2>3
    <3>2. CASE x \in held
      <4>1. PICK e \in Devices : \E i \in LiveIDs(e) : x = Block(e, i)
        BY <3>2, <1>s DEF BlocksInv
      <4>2. PICK i \in LiveIDs(e) : x = Block(e, i)
        BY <4>1
      <4>3. x = Block(e, i)' /\ i \in LiveIDs(e)'
        BY <4>2, <2>1, <2>3
      <4>4. QED
        BY <4>3
    <3>3. QED
      BY <3>1, <3>2, <2>2
  <2>5. \A x \in blocks : x \in held'
    <3> TAKE x \in blocks
    <3>1. PICK e \in Devices : \E i \in LiveIDs(e)' : x = Block(e, i)'
      OBVIOUS
    <3>2. PICK i \in LiveIDs(e)' : x = Block(e, i)'
      BY <3>1
    <3>3. CASE i \in LiveIDs(e)
      <4>1. x = Block(e, i)
        BY <3>2, <3>3, <2>1
      <4>2. x \in held
        BY <4>1, <3>3, <1>s DEF BlocksInv
      <4>3. QED
        BY <4>2, <2>2
    <3>4. CASE e = d /\ i = id
      BY <3>2, <3>4, <2>2
    <3>5. QED
      BY <3>3, <3>4, <1>4
  <2>6. held' = blocks
    BY <2>4, <2>5
  <2>7. QED
    BY <2>6 DEF BlocksInv
<1>8. MemoryInv'
  <2>1. ASSUME NEW e \in Devices, NEW f \in Devices,
               NEW i \in LiveIDs(e)', NEW j \in LiveIDs(f)',
               allocations_by_id'[e][i].memory = allocations_by_id'[f][j].memory
        PROVE  e = f /\ i = j
    <3>1. CASE i \in LiveIDs(e) /\ j \in LiveIDs(f)
      BY <2>1, <3>1, <1>1, <1>s DEF MemoryInv
    <3>2. CASE i \in LiveIDs(e) /\ f = d /\ j = id
      BY <2>1, <3>2, <1>1, <1>s DEF MemoryInv
    <3>3. CASE e = d /\ i = id /\ j \in LiveIDs(f)
      BY <2>1, <3>3, <1>1, <1>s DEF MemoryInv
    <3>4. QED
      BY <3>1, <3>2, <3>3, <1>4
  <2>2. ASSUME NEW u \in Creating', NEW e \in Devices, NEW i \in LiveIDs(e)'
        PROVE  allocations_by_id'[e][i].memory # allocation'[u].memory
    <3>1. u # t /\ u \in Creating /\ allocation'[u] = allocation[u]
      BY <1>2, <1>3
    <3>2. CASE i \in LiveIDs(e)
      BY <3>1, <3>2, <1>1, <1>s DEF MemoryInv
    <3>3. CASE e = d /\ i = id
      BY <3>1, <3>3, <1>1, <1>s DEF MemoryInv
    <3>4. QED
      BY <3>2, <3>3, <1>4
  <2>3. \A u, v \in Creating' :
           allocation'[u].memory = allocation'[v].memory => u = v
    BY <1>3, <1>s DEF MemoryInv
  <2>4. QED
    BY <2>1, <2>2, <2>3 DEF MemoryInv
<1>9. QED
  BY <1>1, <1>6, <1>7, <1>8 DEF IInv

(* A failed allocation leaves the table alone. *)
LEMMA RunsOutStep ==
    ASSUME IInv, NEW t \in Threads, AllocRunsOutOfIDs(t) PROVE IInv'
<1>s. TypeInv /\ PoolInv /\ RecordsInv /\ BlocksInv /\ MemoryInv
  BY DEF IInv
<1>1. /\ pc' = [pc EXCEPT ![t] = "idle"]
      /\ allocation' = [allocation EXCEPT ![t] = NoAllocation]
      /\ UNCHANGED <<devices, allocatorVars, held>>
  BY DEF AllocRunsOutOfIDs
<1>2. \A u \in Creating' : allocation'[u] = allocation[u] /\ u \in Creating
  BY <1>1, <1>s DEF TypeInv, Creating
<1>3. TypeInv'
  BY <1>1, <1>s DEF TypeInv, allocatorVars
<1>4. PoolInv'
  BY <1>1, <1>s DEF PoolInv, LiveIDs, FreeIDs, allocatorVars
<1>5. BlocksInv'
  BY <1>1, <1>s DEF BlocksInv, Block, LiveIDs, allocatorVars
<1>6. RecordsInv'
  BY <1>1, <1>2, <1>s DEF RecordsInv, LiveIDs, allocatorVars, Inserted
<1>7. MemoryInv'
  BY <1>1, <1>2, <1>s DEF MemoryInv, LiveIDs, allocatorVars
<1>8. QED
  BY <1>3, <1>4, <1>5, <1>6, <1>7 DEF IInv

(* A block that is freed is one of the table, and its tag leads there.       *)
LEMMA FreedBlock ==
    ASSUME IInv, NEW b \in held
    PROVE  \E d \in Devices : \E i \in LiveIDs(d) :
              /\ b = Block(d, i)
              /\ Unpack(b.ptr) = [device_id |-> d, allocation_id |-> i,
                                  offset |-> 0]
<1>1. PICK d \in Devices : \E i \in LiveIDs(d) : b = Block(d, i)
  BY DEF IInv, BlocksInv
<1>2. PICK i \in LiveIDs(d) : b = Block(d, i)
  BY <1>1
<1>3. b.ptr = Pack(d, i, 0)
  BY <1>2 DEF Block
<1>4. 0 \in 0..(OffsetLimit - 1)
  BY LimitsAssumption
<1>5. Unpack(Pack(d, i, 0)) = [device_id |-> d, allocation_id |-> i,
                               offset |-> 0]
  BY <1>4, TagsDistinct, UnpackPack
<1>6. QED
  BY <1>2, <1>3, <1>5

(* The ID of the block goes to the pool, and only its entry is erased. *)
LEMMA FreeStep ==
    ASSUME IInv, NEW t \in Threads, NEW b \in held, Free(t, b) PROVE IInv'
<1>s. TypeInv /\ PoolInv /\ RecordsInv /\ BlocksInv /\ MemoryInv
  BY DEF IInv
<1>1. PICK d \in Devices : \E i \in LiveIDs(d) :
         /\ b = Block(d, i)
         /\ Unpack(b.ptr) = [device_id |-> d, allocation_id |-> i,
                             offset |-> 0]
  BY FreedBlock
<1>2. PICK id \in LiveIDs(d) :
         /\ b = Block(d, id)
         /\ Unpack(b.ptr) = [device_id |-> d, allocation_id |-> id,
                             offset |-> 0]
  BY <1>1
<1>3. Unpack(b.ptr).device_id = d /\ Unpack(b.ptr).allocation_id = id
  BY <1>2
<1> DEFINE table == [i \in DOMAIN allocations_by_id[d] \ {id} |->
                        allocations_by_id[d][i]]
           free == free_allocation_ids[d]
<1>4. /\ free_allocation_ids' = ReleaseAllocationID(d, id)
      /\ allocations_by_id' = [allocations_by_id EXCEPT ![d] = table]
      /\ held' = held \ {b}
      /\ UNCHANGED <<devices, current_allocation_id, pc, allocation>>
  BY <1>3 DEF Free
<1>5. /\ free_allocation_ids' = [free_allocation_ids EXCEPT
                                    ![d] = Append(free, id)]
  BY <1>4 DEF ReleaseAllocationID
<1>6. /\ DOMAIN table = LiveIDs(d) \ {id}
      /\ \A i \in LiveIDs(d) \ {id} : table[i] = allocations_by_id[d][i]
  BY DEF LiveIDs
<1> HIDE DEF table
<1>7. allocations_by_id' = [e \in Devices |->
                               IF e = d THEN table ELSE allocations_by_id[e]]
  BY <1>4, <1>s DEF TypeInv
<1>8. LiveIDs(d)' = LiveIDs(d) \ {id}
  BY <1>6, <1>7 DEF LiveIDs
<1>9. \A e \in Devices \ {d} : LiveIDs(e)' = LiveIDs(e)
  BY <1>7 DEF LiveIDs
<1>10. \A e \in Devices : \A i \in LiveIDs(e)' :
          /\ i \in LiveIDs(e) /\ ~(e = d /\ i = id)
          /\ allocations_by_id'[e][i] = allocations_by_id[e][i]
  BY <1>6, <1>7, <1>8, <1>9
<1>11. free \in Seq(IDs) /\ id \in IDs
  BY <1>s, TagsDistinct DEF TypeInv
<1> DEFINE new == Append(free, id)
           n == Len(free)
<1>12. /\ new \in Seq(IDs) /\ Len(new) = n + 1 /\ n \in Nat
       /\ \A i \in 1..n : new[i] = free[i]
       /\ new[n + 1] = id
       /\ DOMAIN new = 1..(n + 1) /\ DOMAIN free = 1..n
  BY <1>11, AppendProperties, LenProperties
<1>13. free_allocation_ids'[d] = new
       /\ \A e \in Devices \ {d} :
             free_allocation_ids'[e] = free_allocation_ids[e]
  BY <1>5, <1>s DEF TypeInv
<1>14. TypeInv'
  <2>1. free_allocation_ids' \in [Devices -> Seq(IDs)]
    BY <1>5, <1>12, <1>s DEF TypeInv
  <2>2. allocations_by_id' = [e \in Devices |-> allocations_by_id'[e]]
    BY <1>7
  <2>3. QED
    BY <2>1, <2>2, <1>4, <1>s DEF TypeInv
<1> HIDE DEF new, free, n
<1>15. PoolInv'
  <2>1. ASSUME NEW e \in Devices \ {d}
        PROVE  /\ LiveIDs(e)' \cup FreeIDs(e)' = 1..current_allocation_id'[e]
               /\ LiveIDs(e)' \cap FreeIDs(e)' = {}
               /\ \A i, j \in 1..Len(free_allocation_ids'[e]) :
                     free_allocation_ids'[e][i] = free_allocation_ids'[e][j]
                        => i = j
    <3>1. FreeIDs(e)' = FreeIDs(e)
      BY <1>13 DEF FreeIDs
    <3>2. /\ current_allocation_id'[e] = current_allocation_id[e]
          /\ free_allocation_ids'[e] = free_allocation_ids[e]
          /\ LiveIDs(e)' = LiveIDs(e)
      BY <1>4, <1>9, <1>13
    <3>3. /\ LiveIDs(e) \cup FreeIDs(e) = 1..current_allocation_id[e]
          /\ LiveIDs(e) \cap FreeIDs(e) = {}
          /\ \A i, j \in 1..Len(free_allocation_ids[e]) :
                free_allocation_ids[e][i] = free_allocation_ids[e][j] => i = j
      BY <1>s DEF PoolInv
    <3>4. QED
      BY <3>1, <3>2, <3>3, Zenon
  <2>2. /\ LiveIDs(d) \cup Range(free) = 1..current_allocation_id[d]
        /\ LiveIDs(d) \cap Range(free) = {}
        /\ \A i, j \in 1..n : free[i] = free[j] => i = j
    BY <1>s DEF PoolInv, FreeIDs, free, n
  <2>3. \A i \in 1..(n + 1) : i \in 1..n \/ i = n + 1
    BY <1>12
  <2>4. n + 1 \in 1..(n + 1) /\ \A i \in 1..n : i \in 1..(n + 1)
    BY <1>12
  <2>5. Range(new) = Range(free) \cup {id}
    <3>1. \A x \in Range(new) : x \in Range(free) \cup {id}
      BY <1>12, <2>3 DEF Range
    <3>2. \A x \in Range(free) \cup {id} : x \in Range(new)
      BY <1>12, <2>4 DEF Range
    <3>3. QED
      BY <3>1, <3>2
  <2>6. FreeIDs(d)' = Range(new)
    BY <1>13 DEF FreeIDs
  <2>7. \A i \in 1..n : free[i] # id
    BY <1>12, <2>2 DEF Range
  <2>8. \A i, j \in 1..(n + 1) : new[i] = new[j] => i = j
    BY <1>12, <2>2, <2>3, <2>7
  <2>9. /\ LiveIDs(d)' \cup FreeIDs(d)' = 1..current_allocation_id[d]
        /\ LiveIDs(d)' \cap FreeIDs(d)' = {}
    BY <2>2, <2>5, <2>6, <1>8
  <2>10. QED
    BY <2>1, <2>8, <2>9, <1>4, <1>12, <1>13 DEF PoolInv
<1>16. RecordsInv'
  <2>1. Creating' = Creating
    BY <1>4 DEF Creating
  <2>2. \A e \in Devices : \A i \in LiveIDs(e)' :
           Inserted(e) /\ IsAllocation(allocations_by_id'[e][i], e)
    BY <1>10, <1>s DEF RecordsInv
  <2>3. QED
    BY <2>1, <2>2, <1>4, <1>s DEF RecordsInv, Inserted
<1>17. MemoryInv'
  <2>1. Creating' = Creating
    BY <1>4 DEF Creating
  <2>2. QED
    BY <2>1, <1>4, <1>10, <1>s DEF MemoryInv
<1>18. BlocksInv'
  <2>1. \A e \in Devices : \A i \in LiveIDs(e)' : Block(e, i)' = Block(e, i)
    BY <1>10 DEF Block
  <2>2. \A e \in Devices : \A i \in LiveIDs(e) :
           Block(e, i) = b => e = d /\ i = id
    <3> TAKE e \in Devices
    <3> TAKE i \in LiveIDs(e)
    <3> HAVE Block(e, i) = b
    <3>1. Block(e, i).memory = Block(d, id).memory
      BY <1>2
    <3>2. allocations_by_id[e][i].memory = allocations_by_id[d][id].memory
      BY <3>1 DEF Block
    <3>3. QED
      BY <3>2, <1>s DEF MemoryInv
  <2>3. \A e \in Devices : \A i \in LiveIDs(e) :
           i \in LiveIDs(e)' \/ (e = d /\ i = id)
    BY <1>8, <1>9
  <2> DEFINE blocks == UNION {{Block(e, i)' : i \in LiveIDs(e)'} :
                                 e \in Devices}
  <2>4. \A x \in held' : x \in blocks
    <3> TAKE x \in held'
    <3>1. x \in held /\ x # b
      BY <1>4
    <3>2. PICK e \in Devices : \E i \in LiveIDs(e) : x = Block(e, i)
      BY <3>1, <1>s DEF BlocksInv
    <3>3. PICK i \in LiveIDs(e) : x = Block(e, i)
      BY <3>2
    <3>4. i \in LiveIDs(e)'
      BY <3>1, <3>3, <2>3, <1>2
    <3>5. x = Block(e, i)'
      BY <3>3, <3>4, <2>1
    <3>6. QED
      BY <3>4, <3>5
  <2>5. \A x \in blocks : x \in held'
    <3> TAKE x \in blocks
    <3>1. PICK e \in Devices : \E i \in LiveIDs(e)' : x = Block(e, i)'
      OBVIOUS
    <3>2. PICK i \in LiveIDs(e)' : x = Block(e, i)'
      BY <3>1
    <3>3. x = Block(e, i) /\ i \in LiveIDs(e) /\ ~(e = d /\ i = id)
      BY <3>2, <2>1, <1>10
    <3>4. x \in held /\ x # b
      BY <3>3, <2>2, <1>s DEF BlocksInv
    <3>5. QED
      BY <3>4, <1>4
  <2>6. held' = blocks
    BY <2>4, <2>5
  <2>7. QED
    BY <2>6 DEF BlocksInv
<1>19. QED
  BY <1>14, <1>15, <1>16, <1>17, <1>18 DEF IInv

LEMMA StepKeepsIInv == IInv /\ [Next]_vars => IInv'
<1> SUFFICES ASSUME IInv, [Next]_vars PROVE IInv'
  OBVIOUS
<1>1. CASE UNCHANGED vars
  <2>1. UNCHANGED <<devices, allocations_by_id, current_allocation_id,
                    free_allocation_ids, pc, allocation, held>>
    BY <1>1 DEF vars, allocatorVars
  <2>2. TypeInv' /\ PoolInv' /\ BlocksInv'
    BY <2>1 DEF IInv, TypeInv, PoolInv, BlocksInv, Block, LiveIDs, FreeIDs
  <2>3. RecordsInv' /\ MemoryInv'
    BY <2>1 DEF IInv, RecordsInv, MemoryInv, LiveIDs, Creating, Inserted
  <2>4. QED
    BY <2>2, <2>3 DEF IInv
<1>2. CASE Next
  BY <1>2, InsertStep, CreateStep, RegisterStep, RunsOutStep, FreeStep
     DEF Next
<1>3. QED
  BY <1>1, <1>2

(* The inductive invariant holds in every state, for any number of threads   *)
(* between creation and registration.                                        *)
THEOREM Invariance == Spec => []IInv
<1>1. QED
  BY InitIInv, StepKeepsIInv, PTL DEF Spec

-----------------------------------------------------------------------------
(* Threads that race between creation and registration neither share nor     *)
(* lose an ID.                                                               *)
THEOREM IDsAccountedFor == Spec => []IdInv
<1>1. IInv => IdInv
  <2> SUFFICES ASSUME IInv PROVE IdInv
    OBVIOUS
  <2>1. TypeOK
    BY DEF IInv, TypeInv, TypeOK, IDs
  <2>2. QED
    BY <2>1 DEF IInv, PoolInv, IdInv
<1>2. QED
  BY <1>1, Invariance, PTL

(* Every address of a block that is held leads to the block's own memory, at *)
(* its offset, however often IDs were reused since.                          *)
THEOREM AddressesResolve == Spec => []PointersResolve
<1>1. IInv => PointersResolve
  <2> SUFFICES ASSUME IInv, NEW b \in held, NEW off \in 0..(b.size - 1)
               PROVE  \E a \in Registered :
                         /\ ResolvesTo(b.ptr + off, b.size - off, a, off)
                         /\ a.memory = b.memory
    BY DEF PointersResolve
  <2>1. PICK d \in Devices : \E i \in LiveIDs(d) : b = Block(d, i)
    BY FreedBlock
  <2>2. PICK i \in LiveIDs(d) : b = Block(d, i)
    BY <2>1
  <2> DEFINE a == allocations_by_id[d][i]
  <2>3. b.ptr = Pack(d, i, 0) /\ b.size = a.size /\ b.memory = a.memory
    BY <2>2 DEF Block
  <2>4. Inserted(d) /\ IsAllocation(a, d)
    BY DEF IInv, RecordsInv
  <2>5. a \in Registered
    BY DEF Registered, Range, LiveIDs
  <2>6. /\ d \in 0..(DeviceIDLimit - 1) /\ d \in Nat
        /\ i \in Nat \ {0} /\ i \in 0..(AllocationIDLimit - 1)
    BY TagsDistinct
  <2> HIDE DEF a
  <2>7. /\ off \in Nat /\ b.size \in Nat /\ off < b.size
        /\ b.size <= OffsetLimit /\ OffsetLimit \in Nat
        /\ a.width \in Nat /\ b.size <= a.width
    BY <2>3, <2>4, LimitsAssumption DEF IsAllocation
  <2>8. off \in 0..(OffsetLimit - 1)
    BY <2>7
  <2>9. /\ b.ptr + off = Pack(d, i, off) /\ b.ptr \in Nat /\ b.ptr > 0
    BY <2>3, <2>6, <2>7, PackOffset
  <2>10. Unpack(b.ptr + off) = [device_id |-> d, allocation_id |-> i,
                                offset |-> off]
    BY <2>6, <2>8, <2>9, UnpackPack
  <2>11. /\ Unpack(b.ptr + off).device_id = d
         /\ Unpack(b.ptr + off).allocation_id = i
         /\ Unpack(b.ptr + off).offset = off
    BY <2>10
  <2>12. b.ptr + off # 0 /\ b.size - off # 0 /\ off < a.width
         /\ b.size - off <= a.width - off
    BY <2>7, <2>9
  <2>13. d < Len(devices) /\ GetDevice(d) = d + 1
    BY <2>4 DEF Inserted, GetDevice
  <2>14. i \in DOMAIN allocations_by_id[d] /\ a = allocations_by_id[d][i]
    BY DEF LiveIDs, a
  <2>15. ResolvesTo(b.ptr + off, b.size - off, a, off)
    BY <2>11, <2>12, <2>13, <2>14 DEF ResolvesTo
  <2>16. QED
    BY <2>3, <2>5, <2>15
<1>2. QED
  BY <1>1, Invariance, PTL

(* An offset is its tile and the rest, so the memory behind it determines    *)
(* it.                                                                       *)
LEMMA TilesAreDistinct ==
    ASSUME NEW i \in Nat, NEW j \in Nat,
           HeapTile(i \div TileSize)[1] = HeapTile(j \div TileSize)[1],
           HeapTile(i \div TileSize)[2] * TileSize + (i % TileSize)
              = HeapTile(j \div TileSize)[2] * TileSize + (j % TileSize)
    PROVE  i = j
<1> DEFINE N == TileSize
           M == MaxHeapTiles
           Q(x) == x \div N
           R(x) == x % N
           H(x) == Q(x) \div M
           O(x) == Q(x) % M
<1>1. N \in Nat \ {0} /\ M \in Nat \ {0}
  BY SizesAssumption
<1>2. \A x \in Nat : Q(x) \in Nat /\ R(x) \in 0..(N - 1) /\ x = N * Q(x) + R(x)
  BY <1>1
<1>3. \A x \in Nat : H(x) \in Nat /\ O(x) \in 0..(M - 1)
                     /\ Q(x) = M * H(x) + O(x)
  BY <1>1, <1>2
<1>4. H(i) = H(j) /\ O(i) * N + R(i) = O(j) * N + R(j)
  <2>1. 1 + H(i) = 1 + H(j) /\ O(i) * N + R(i) = O(j) * N + R(j)
    BY DEF HeapTile
  <2>2. H(i) \in Nat /\ H(j) \in Nat
    BY <1>3
  <2> HIDE DEF H
  <2>3. QED
    BY <2>1, <2>2
<1> HIDE DEF N, M, H, O, Q, R
<1>5. O(i) = O(j) /\ R(i) = R(j)
  <2>1. /\ (O(i) * N + R(i)) \div N = O(i) /\ (O(i) * N + R(i)) % N = R(i)
        /\ (O(j) * N + R(j)) \div N = O(j) /\ (O(j) * N + R(j)) % N = R(j)
    <3>1. R(i) \in 0..(N - 1) /\ R(j) \in 0..(N - 1)
      BY <1>2
    <3>2. O(i) \in 0..(M - 1) /\ O(j) \in 0..(M - 1)
      BY <1>3
    <3>3. O(i) \in Nat /\ O(j) \in Nat
      BY <1>1, <3>2
    <3>4. QED
      BY <1>1, <3>1, <3>3, DivMod
  <2>2. QED
    BY <1>4, <2>1
<1>6. Q(i) = Q(j)
  BY <1>3, <1>4, <1>5
<1>7. QED
  BY <1>2, <1>5, <1>6

(* No two offsets of live allocations share a byte, whatever the sizes of    *)
(* tiles and heaps: the mapping loop of TryCreateTiledAllocation gives every *)
(* tile of a resource a tile of its heaps, and no two the same.              *)
THEOREM MemoryIsDistinct == Spec => []DistinctMemory
<1>1. IInv => DistinctMemory
  <2> SUFFICES ASSUME IInv, NEW a \in Registered, NEW b \in Registered,
                      NEW i \in 0..(a.width - 1), NEW j \in 0..(b.width - 1),
                      Location(a, i) = Location(b, j)
               PROVE  a = b /\ i = j
    BY DEF DistinctMemory
  <2>1. PICK d \in Devices : \E k \in LiveIDs(d) : a = allocations_by_id[d][k]
    BY DEF Registered, Range, LiveIDs
  <2>1a. PICK k \in LiveIDs(d) : a = allocations_by_id[d][k]
    BY <2>1
  <2>2. PICK e \in Devices : \E l \in LiveIDs(e) : b = allocations_by_id[e][l]
    BY DEF Registered, Range, LiveIDs
  <2>2a. PICK l \in LiveIDs(e) : b = allocations_by_id[e][l]
    BY <2>2
  <2>3. IsAllocation(a, d) /\ IsAllocation(b, e)
    BY <2>1a, <2>2a DEF IInv, RecordsInv
  <2>4. a.memory = b.memory
    BY Zenon DEF Location
  <2>5. d = e /\ k = l
    BY <2>1a, <2>2a, <2>4 DEF IInv, MemoryInv
  <2>6. a = b
    BY <2>1a, <2>2a, <2>5
  <2>7. a.device = d /\ a.width \in Nat
    BY <2>3 DEF IsAllocation
  <2>8. CASE d \notin TiledDevices
    <3>1. /\ Location(a, i) = <<a.memory, 1, i>>
          /\ Location(a, j) = <<a.memory, 1, j>>
      BY <2>7, <2>8 DEF Location
    <3>2. QED
      BY <2>6, <3>1
  <2>9. CASE d \in TiledDevices
    <3>1. PICK T \in Nat : /\ a.width = T * TileSize
                           /\ a.tiles = [t \in 0..(T - 1) |-> HeapTile(t)]
      BY <2>3, <2>9 DEF IsAllocation
    <3>2. ASSUME NEW x \in 0..(T * TileSize - 1)
          PROVE  x \in Nat /\ a.tiles[x \div TileSize]
                                 = HeapTile(x \div TileSize)
      <4> DEFINE q == x \div TileSize
                 r == x % TileSize
      <4>1. TileSize \in Nat \ {0} /\ x \in Nat /\ T * TileSize \in Nat
        BY SizesAssumption
      <4>2. q \in Nat /\ r \in Nat /\ x = q * TileSize + r
        BY <4>1
      <4> HIDE DEF q, r
      <4>3. q < T
        <5>1. SUFFICES ASSUME q >= T PROVE FALSE
          BY <4>2
        <5>2. q * TileSize >= T * TileSize
          BY <4>1, <4>2, <5>1
        <5>3. QED
          BY <4>1, <4>2, <5>2
      <4>4. a.tiles[q] = HeapTile(q)
        BY <3>1, <4>2, <4>3
      <4>5. QED
        BY <4>1, <4>4 DEF q
    <3>3. ASSUME NEW x \in 0..(T * TileSize - 1)
          PROVE  Location(a, x)
                   = <<a.memory, HeapTile(x \div TileSize)[1],
                       HeapTile(x \div TileSize)[2] * TileSize
                         + (x % TileSize)>>
      BY <2>7, <2>9, <3>2, Zenon DEF Location
    <3>4. i \in 0..(T * TileSize - 1) /\ j \in 0..(T * TileSize - 1)
      BY <2>6, <3>1
    <3>5. /\ HeapTile(i \div TileSize)[1] = HeapTile(j \div TileSize)[1]
          /\ HeapTile(i \div TileSize)[2] * TileSize + (i % TileSize)
               = HeapTile(j \div TileSize)[2] * TileSize + (j % TileSize)
      BY <2>6, <3>3, <3>4
    <3>6. QED
      BY <2>6, <3>2, <3>4, <3>5, TilesAreDistinct
  <2>10. QED
    BY <2>6, <2>8, <2>9
<1>2. QED
  BY <1>1, Invariance, PTL

(* A registration gives the caller a block that it did not have, disjoint    *)
(* from all that are held.                                                   *)
LEMMA RegistrationGrants ==
    ASSUME IInv, NEW t \in Threads, AllocRegisters(t)
    PROVE  \E b \in held' \ held : Table!Grant(b)
<1>1. PICK d \in Devices, id \in IDs :
         /\ d = allocation[t].device /\ t \in Creating
         /\ id \notin LiveIDs(d)
         /\ held' = held \cup {[ptr |-> Pack(d, id, 0),
                                size |-> allocation[t].size,
                                memory |-> allocation[t].memory]}
  BY Registration
<1>2. PICK b : b = [ptr |-> Pack(d, id, 0), size |-> allocation[t].size,
                    memory |-> allocation[t].memory]
  OBVIOUS
<1>3. /\ b.ptr = Pack(d, id, 0) /\ b.size = allocation[t].size
      /\ b.memory = allocation[t].memory /\ held' = held \cup {b}
  BY <1>1, <1>2
<1>4. /\ Inserted(d) /\ b.size \in 1..OffsetLimit
  BY <1>1, <1>3 DEF IInv, RecordsInv, IsAllocation
<1>5. /\ OffsetLimit \in Nat \ {0} /\ AllocationIDLimit \in Nat
      /\ DeviceIDLimit \in Nat /\ NumMaxDevices <= DeviceIDLimit
      /\ NumMaxDevices \in Nat /\ d \in Nat
  BY LimitsAssumption, DevicesAssumption
<1>6. d \in 0..(DeviceIDLimit - 1)
  <2>1. Len(devices) \in Nat /\ Len(devices) <= NumMaxDevices
    BY LenProperties DEF IInv, TypeInv
  <2>2. d < Len(devices)
    BY <1>4 DEF Inserted
  <2>3. QED
    BY <2>1, <2>2, <1>5
<1>7. id \in Nat \ {0} /\ id \in 0..(AllocationIDLimit - 1)
  BY <1>5 DEF IDs
<1>8. b.ptr \in Nat /\ b.ptr > 0
  BY <1>3, <1>5, <1>7, PackOffset
<1>9. ASSUME NEW c \in held
      PROVE  Table!Addresses(b) \cap Table!Addresses(c) = {}
             /\ b.memory # c.memory
  <2>1. PICK e \in Devices : \E i \in LiveIDs(e) : c = Block(e, i)
    BY FreedBlock
  <2>2. PICK i \in LiveIDs(e) : c = Block(e, i)
    BY <2>1
  <2>3. /\ c.ptr = Pack(e, i, 0) /\ c.size = allocations_by_id[e][i].size
        /\ c.memory = allocations_by_id[e][i].memory
    BY <2>2 DEF Block
  <2>4. c.size \in 1..OffsetLimit
    BY <2>3 DEF IInv, RecordsInv, IsAllocation
  <2>5. /\ e \in 0..(DeviceIDLimit - 1) /\ e \in Nat
        /\ i \in Nat \ {0} /\ i \in 0..(AllocationIDLimit - 1)
    BY TagsDistinct
  <2>6. c.ptr \in Nat
    BY <2>3, <2>5, PackOffset
  <2>7. b.memory # c.memory
    BY <1>1, <1>3, <2>3 DEF IInv, MemoryInv
  <2>8. ASSUME NEW x \in Table!Addresses(b), x \in Table!Addresses(c)
        PROVE  FALSE
    <3>1. PICK k \in 0..(OffsetLimit - 1) : x = b.ptr + k
      <4>1. x \in b.ptr..(b.ptr + b.size - 1)
        BY DEF Table!Addresses
      <4>2. x - b.ptr \in 0..(OffsetLimit - 1) /\ x = b.ptr + (x - b.ptr)
        BY <4>1, <1>4, <1>5, <1>8
      <4>3. QED
        BY <4>2
    <3>2. PICK l \in 0..(OffsetLimit - 1) : x = c.ptr + l
      <4>1. x \in c.ptr..(c.ptr + c.size - 1)
        BY <2>8 DEF Table!Addresses
      <4>2. x - c.ptr \in 0..(OffsetLimit - 1) /\ x = c.ptr + (x - c.ptr)
        BY <4>1, <2>4, <2>6, <1>5
      <4>3. QED
        BY <4>2
    <3>3. k \in Nat /\ l \in Nat
      BY <1>5
    <3>4. x = Pack(d, id, k) /\ x = Pack(e, i, l)
      BY <3>1, <3>2, <3>3, <1>3, <1>5, <1>7, <2>3, <2>5, PackOffset
    <3>5. Unpack(x) = [device_id |-> d, allocation_id |-> id, offset |-> k]
      BY <3>4, <1>6, <1>7, UnpackPack
    <3>6. Unpack(x) = [device_id |-> e, allocation_id |-> i, offset |-> l]
      BY <3>4, <2>5, UnpackPack
    <3>7. d = e /\ id = i
      BY <3>5, <3>6
    <3>8. QED
      BY <3>7, <1>1, <2>2
  <2>9. QED
    BY <2>7, <2>8
<1>10. b \notin held
  BY <1>9
<1>11. b.size > 0 /\ 0 \notin Table!Addresses(b)
  BY <1>4, <1>5, <1>8 DEF Table!Addresses
<1>12. QED
  BY <1>3, <1>9, <1>10, <1>11 DEF Table!Grant

(* Alloc reports that the IDs are exhausted only when all of them are live.  *)
THEOREM NoIDLeak == Spec => ExhaustionIsReal
<1>1. ASSUME IInv, Next, NEW t \in Threads,
             pc[t] = "created", pc'[t] = "idle", held' = held
      PROVE  LiveIDs(allocation[t].device) = 1..(AllocationIDLimit - 1)
  <2>1. pc \in [Threads -> {"idle", "created"}]
    BY <1>1 DEF IInv, TypeInv
  <2>2. ASSUME NEW u \in Threads, AllocRegisters(u) PROVE FALSE
    BY <1>1, <2>2, RegistrationGrants
  <2>3. ASSUME NEW u \in Threads, AllocRunsOutOfIDs(u)
        PROVE  u = t
    BY <1>1, <2>1, <2>3 DEF AllocRunsOutOfIDs
  <2>4. ASSUME NEW d \in Devices, InsertDevice(d) PROVE FALSE
    BY <1>1, <2>4 DEF InsertDevice
  <2>5. ASSUME NEW u \in Threads, NEW d \in Devices, NEW size \in Sizes,
               AllocCreates(u, d, size)
        PROVE  FALSE
    BY <1>1, <2>1, <2>5 DEF AllocCreates
  <2>6. ASSUME NEW u \in Threads, NEW b \in held, Free(u, b) PROVE FALSE
    BY <1>1, <2>6 DEF Free
  <2>7. AllocRunsOutOfIDs(t)
    BY <1>1, <2>2, <2>3, <2>4, <2>5, <2>6 DEF Next
  <2>8. PICK d \in Devices : d = allocation[t].device
    BY <1>1 DEF IInv, RecordsInv, Creating
  <2>9. /\ free_allocation_ids[d] = << >>
        /\ current_allocation_id[d] = AllocationIDLimit - 1
    BY <2>7, <2>8 DEF AllocRunsOutOfIDs, IDLeft
  <2>10. FreeIDs(d) = {}
    BY <2>9 DEF FreeIDs, Range
  <2>11. LiveIDs(d) \cup FreeIDs(d) = 1..current_allocation_id[d]
    BY <1>1 DEF IInv, PoolInv
  <2>12. QED
    BY <2>8, <2>9, <2>10, <2>11
<1>2. IInv /\ [Next]_vars =>
        [\A t \in Threads :
            pc[t] = "created" /\ pc'[t] = "idle" /\ held' = held
              => LiveIDs(allocation[t].device)
                    = 1..(AllocationIDLimit - 1)]_vars
  BY <1>1
<1>3. QED
  BY <1>2, Invariance, PTL DEF Spec, ExhaustionIsReal

(* The heap allocator implements AllocationTable: blocks that are held never *)
(* overlap, never contain the null address and never share memory.           *)
THEOREM Refinement == Spec => TableSpec
<1>1. Init => Table!Init
  BY DEF Init, Table!Init
<1>2. IInv /\ [Next]_vars => [Table!Next]_held
  <2> SUFFICES ASSUME IInv, [Next]_vars, held' # held PROVE Table!Next
    OBVIOUS
  <2>1. Next
    BY DEF vars
  <2>2. ASSUME NEW t \in Threads, AllocRegisters(t) PROVE Table!Next
    BY <2>2, RegistrationGrants DEF Table!Next
  <2>3. ASSUME NEW t \in Threads, NEW b \in held, Free(t, b)
        PROVE  Table!Next
    BY <2>3 DEF Free, Table!Next, Table!Release
  <2>4. QED
    BY <2>1, <2>2, <2>3 DEF Next, InsertDevice, AllocCreates,
                            AllocRunsOutOfIDs
<1>3. QED
  BY <1>1, <1>2, Invariance, PTL DEF Spec, TableSpec, Table!Spec
=============================================================================

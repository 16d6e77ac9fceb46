---------------------------- MODULE HeapAllocator ----------------------------
(***************************************************************************)
(* D3D12HeapAllocator, one per device: an allocation is a set of heaps     *)
(* under one resource, known to callers by a tagged pointer.  The heaps    *)
(* and the resource are created without the allocator's mutex; the mutex   *)
(* is taken to reserve an allocation ID and to register the allocation.    *)
(* D3D12DescriptorHeapAllocator gives out IDs in the same way.             *)
(*                                                                         *)
(* The three resources of an allocation differ in their state only and are *)
(* mapped in the same way: one is modelled.  Callers (TensorFlow) free     *)
(* only what they were given, once, and use addresses inside a block.      *)
(***************************************************************************)
EXTENDS TaggedPointer, Sequences, FiniteSets, SequencesExt

CONSTANTS
    Threads,            \* callers of Alloc and Free
    Devices,            \* device ordinals
    TiledDevices,       \* the devices with tiling_enabled_
    Memory,             \* bound: identities of the memory of an allocation
    Sizes,              \* sizes asked for
    TileSize,           \* D3D12_TILED_RESOURCE_TILE_SIZE_IN_BYTES
    MaxHeapTiles,       \* max_heap_size_in_tiles_
    NumMaxDevices       \* DmlDeviceManager::kNumMaxDevices

ASSUME DevicesAssumption ==
    /\ Devices \subseteq Nat
    /\ TiledDevices \subseteq Devices
    /\ NumMaxDevices \in Nat
    /\ NumMaxDevices <= DeviceIDLimit

(* No resource is as large as the offsets of a tagged pointer allow. *)
ASSUME SizesAssumption ==
    /\ TileSize \in Nat \ {0}
    /\ MaxHeapTiles \in Nat \ {0}
    /\ Sizes \subseteq Nat
    /\ \A s \in Sizes : s + TileSize <= OffsetLimit

VARIABLES
    devices,                \* DmlDeviceManager::devices_, 0 for nullptr
    \* per device, guarded by mutex_
    allocations_by_id, current_allocation_id, free_allocation_ids,
    \* per thread
    pc,
    allocation,             \* the allocation that is not registered yet
    \* history
    held                    \* the blocks that callers were given

allocatorVars == <<allocations_by_id, current_allocation_id,
                   free_allocation_ids>>
vars == <<devices, allocatorVars, pc, allocation, held>>

NoAllocation == [device |-> 0]
EmptyMap == [i \in {} |-> 0]

Init ==
    /\ devices = << >>
    /\ allocations_by_id = [d \in Devices |-> EmptyMap]
    /\ current_allocation_id = [d \in Devices |-> 0]
    /\ free_allocation_ids = [d \in Devices |-> << >>]
    /\ pc = [t \in Threads |-> "idle"]
    /\ allocation = [t \in Threads |-> NoAllocation]
    /\ held = {}

-----------------------------------------------------------------------------
(* DmlDeviceManager; devices[i + 1] is the device of ordinal i. *)

GetDevice(device_id) == devices[device_id + 1]

Inserted(d) == d < Len(devices) /\ devices[d + 1] = d + 1

InsertDevice(d) ==
    /\ ~Inserted(d)
    /\ d < NumMaxDevices
    /\ devices' = [i \in 1..(IF d >= Len(devices) THEN d + 1 ELSE Len(devices))
                    |-> IF i = d + 1 THEN d + 1
                        ELSE IF i <= Len(devices) THEN devices[i] ELSE 0]
    /\ UNCHANGED <<allocatorVars, pc, allocation, held>>

-----------------------------------------------------------------------------
(* Creating heaps and resources. *)

CeilDiv(a, b) == 1 + (a - 1) \div b

(* Mutant: every region is mapped to the first heap. *)
MapHeapFirst(acc, i) ==
    LET n == IF acc.unmapped < MaxHeapTiles THEN acc.unmapped ELSE MaxHeapTiles
    IN  [start    |-> acc.start + n,
         unmapped |-> acc.unmapped - n,
         tiles    |-> [t \in DOMAIN acc.tiles \cup acc.start..(acc.start + n - 1)
                        |-> IF t \in DOMAIN acc.tiles THEN acc.tiles[t]
                            ELSE <<1, t - acc.start>>]]

(* Heap i takes the next tiles of the resource, up to its maximum size. *)
MapHeap(acc, i) ==
    LET n == IF acc.unmapped < MaxHeapTiles THEN acc.unmapped ELSE MaxHeapTiles
    IN  [start    |-> acc.start + n,
         unmapped |-> acc.unmapped - n,
         tiles    |-> [t \in DOMAIN acc.tiles \cup acc.start..(acc.start + n - 1)
                        |-> IF t \in DOMAIN acc.tiles THEN acc.tiles[t]
                            ELSE <<i, t - acc.start>>]]

(* The loop over the heaps of a resource with this many tiles. *)
MapHeaps(tiles, heap_count) ==
    LET mapped[i \in 0..heap_count] ==
            IF i = 0
            THEN [start |-> 0, unmapped |-> tiles, tiles |-> EmptyMap]
            ELSE MapHeap(mapped[i - 1], i)
    IN  mapped[heap_count]

(* A reserved resource of whole tiles, each mapped to a tile of a heap. *)
TiledAllocation(d, size, m) ==
    LET tiles == CeilDiv(size, TileSize)
        heap_count == CeilDiv(tiles, MaxHeapTiles)
    IN  [device |-> d, size |-> size, memory |-> m, width |-> tiles * TileSize,
         tiles |-> MapHeaps(tiles, heap_count).tiles]

(* A resource placed at the start of its only heap. *)
UntiledAllocation(d, size, m) ==
    [device |-> d, size |-> size, memory |-> m, width |-> size,
     tiles |-> EmptyMap]

(* The memory behind offset off of an allocation's resource. *)
Location(a, off) ==
    IF a.device \in TiledDevices
    THEN LET tile == a.tiles[off \div TileSize]
         IN  <<a.memory, tile[1], tile[2] * TileSize + (off % TileSize)>>
    ELSE <<a.memory, 1, off>>

-----------------------------------------------------------------------------
InUse ==
    {allocation[t].memory : t \in {u \in Threads : pc[u] = "created"}}
    \cup UNION {{allocations_by_id[d][i].memory :
                    i \in DOMAIN allocations_by_id[d]} : d \in Devices}

(* Alloc up to the lock: the heaps and the resource are created.  For size 0 *)
(* and when out of memory, Alloc returns nullptr and nothing changes.        *)
AllocCreates(t, d, size) ==
    /\ pc[t] = "idle"
    /\ Inserted(d)
    /\ size # 0
    /\ \E m \in Memory \ InUse :
          allocation' = [allocation EXCEPT ![t] =
                            IF d \in TiledDevices
                            THEN TiledAllocation(d, size, m)
                            ELSE UntiledAllocation(d, size, m)]
    /\ pc' = [pc EXCEPT ![t] = "created"]
    /\ UNCHANGED <<devices, allocatorVars, held>>

IDLeft(d) ==
    free_allocation_ids[d] # << >>
        \/ current_allocation_id[d] # AllocationIDLimit - 1

(* Mutant: an ID from the pool stays in the pool. *)
ReserveAllocationIDAgain(d) ==
    IF free_allocation_ids[d] # << >>
    THEN [id |-> Last(free_allocation_ids[d]),
          free |-> free_allocation_ids[d],
          current |-> current_allocation_id[d]]
    ELSE [id |-> current_allocation_id[d] + 1,
          free |-> << >>,
          current |-> current_allocation_id[d] + 1]

(* Mutant: IDs start at 0. *)
ReserveAllocationIDFromZero(d) ==
    IF free_allocation_ids[d] # << >>
    THEN [id |-> Last(free_allocation_ids[d]),
          free |-> Front(free_allocation_ids[d]),
          current |-> current_allocation_id[d]]
    ELSE [id |-> current_allocation_id[d],
          free |-> << >>,
          current |-> current_allocation_id[d] + 1]

(* TryReserveAllocationID, when there is one: the ID released last, or a new *)
(* one.                                                                      *)
ReserveAllocationID(d) ==
    IF free_allocation_ids[d] # << >>
    THEN [id |-> Last(free_allocation_ids[d]),
          free |-> Front(free_allocation_ids[d]),
          current |-> current_allocation_id[d]]
    ELSE [id |-> current_allocation_id[d] + 1,
          free |-> << >>,
          current |-> current_allocation_id[d] + 1]

(* Alloc under the lock: the allocation gets an ID, the caller a pointer.    *)
AllocRegisters(t) ==
    /\ pc[t] = "created"
    /\ LET d == allocation[t].device
           r == ReserveAllocationID(d)
       IN  /\ IDLeft(d)
           /\ current_allocation_id' =
                 [current_allocation_id EXCEPT ![d] = r.current]
           /\ free_allocation_ids' = [free_allocation_ids EXCEPT ![d] = r.free]
           /\ allocations_by_id' =
                 [allocations_by_id EXCEPT ![d] =
                    [i \in DOMAIN allocations_by_id[d] \cup {r.id} |->
                        IF i \in DOMAIN allocations_by_id[d]
                        THEN allocations_by_id[d][i] ELSE allocation[t]]]
           /\ held' = held \cup {[ptr |-> Pack(d, r.id, 0),
                                  size |-> allocation[t].size,
                                  memory |-> allocation[t].memory]}
    /\ pc' = [pc EXCEPT ![t] = "idle"]
    /\ allocation' = [allocation EXCEPT ![t] = NoAllocation]
    /\ UNCHANGED devices

(* No ID is left: the allocation is destroyed and Alloc returns nullptr. *)
AllocRunsOutOfIDs(t) ==
    /\ pc[t] = "created"
    /\ ~IDLeft(allocation[t].device)
    /\ pc' = [pc EXCEPT ![t] = "idle"]
    /\ allocation' = [allocation EXCEPT ![t] = NoAllocation]
    /\ UNCHANGED <<devices, allocatorVars, held>>

(* Mutant: the ID of a freed allocation is lost. *)
ReleaseNoAllocationID(d, id) == free_allocation_ids

ReleaseAllocationID(d, id) ==
    [free_allocation_ids EXCEPT ![d] = Append(@, id)]

(* Free, called on the allocator of the block's device. *)
Free(t, b) ==
    /\ pc[t] = "idle"
    /\ b \in held
    /\ LET tag == Unpack(b.ptr)
           d == tag.device_id
           id == tag.allocation_id
       IN  /\ tag.offset = 0
           /\ id \in DOMAIN allocations_by_id[d]
           /\ free_allocation_ids' = ReleaseAllocationID(d, id)
           /\ allocations_by_id' =
                 [allocations_by_id EXCEPT ![d] =
                    [i \in DOMAIN allocations_by_id[d] \ {id} |->
                        allocations_by_id[d][i]]]
    /\ held' = held \ {b}
    /\ UNCHANGED <<devices, current_allocation_id, pc, allocation>>

Next ==
    \/ \E d \in Devices : InsertDevice(d)
    \/ \E t \in Threads :
          \/ \E d \in Devices, size \in Sizes : AllocCreates(t, d, size)
          \/ AllocRegisters(t)
          \/ AllocRunsOutOfIDs(t)
          \/ \E b \in held : Free(t, b)

Spec == Init /\ [][Next]_vars

Symmetry == Permutations(Threads) \cup Permutations(Memory)

-----------------------------------------------------------------------------
(* CreateBufferRegion on the allocator of the device that the tag names; the *)
(* checks of D3D12BufferRegion are the conjuncts.                            *)
ResolvesTo(ptr, size, a, off) ==
    LET tag == Unpack(ptr)
    IN  /\ ptr # 0
        /\ tag.device_id < Len(devices)
        /\ GetDevice(tag.device_id) = tag.device_id + 1
        /\ tag.allocation_id \in DOMAIN allocations_by_id[tag.device_id]
        /\ a = allocations_by_id[tag.device_id][tag.allocation_id]
        /\ off = tag.offset
        /\ size # 0
        /\ off < a.width
        /\ size <= a.width - off

LiveIDs(d) == DOMAIN allocations_by_id[d]
FreeIDs(d) == Range(free_allocation_ids[d])
Registered == UNION {Range(allocations_by_id[d]) : d \in Devices}

TypeOK ==
    /\ pc \in [Threads -> {"idle", "created"}]
    /\ \A d \in Devices :
          /\ current_allocation_id[d] \in 0..(AllocationIDLimit - 1)
          /\ free_allocation_ids[d] \in Seq(1..(AllocationIDLimit - 1))

(* Every ID handed out so far names one live allocation or is in the pool    *)
(* exactly once, threads racing between creation and registration included.  *)
IdInv ==
    /\ TypeOK
    /\ \A d \in Devices :
          /\ LiveIDs(d) \cup FreeIDs(d) = 1..current_allocation_id[d]
          /\ LiveIDs(d) \cap FreeIDs(d) = {}
          /\ \A i, j \in 1..Len(free_allocation_ids[d]) :
                free_allocation_ids[d][i] = free_allocation_ids[d][j] => i = j

(* Every address of every block a caller holds resolves, through its device  *)
(* tag and allocation ID, to the block's own memory at the same offset, and  *)
(* the rest of the block from there fits its resource: an ID that is reused  *)
(* never redirects a pointer that is still held.                             *)
PointersResolve ==
    \A b \in held : \A off \in 0..(b.size - 1) :
        \E a \in Registered : /\ ResolvesTo(b.ptr + off, b.size - off, a, off)
                              /\ a.memory = b.memory

(* The heaps of tiled allocations back every offset of a resource exactly    *)
(* once: no two offsets of any two live allocations share a byte of memory.  *)
DistinctMemory ==
    \A a, b \in Registered : \A i \in 0..(a.width - 1), j \in 0..(b.width - 1) :
        Location(a, i) = Location(b, j) => a = b /\ i = j

(* An allocation fails for lack of IDs only while every ID of its device     *)
(* names a live allocation: IDs do not leak, however long the program runs.  *)
ExhaustionIsReal ==
    [][\A t \in Threads :
          pc[t] = "created" /\ pc'[t] = "idle" /\ held' = held
              => LiveIDs(allocation[t].device) = 1..(AllocationIDLimit - 1)]_vars

(* What callers see of the IDs, the tags and the heaps. *)
Table == INSTANCE AllocationTable WITH live <- held

(* Blocks that are held never overlap, across threads and devices, and never *)
(* contain the null address.                                                 *)
TableSpec == Table!Spec
=============================================================================

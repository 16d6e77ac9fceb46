----------------------------- MODULE PooledHeap -----------------------------
(***************************************************************************)
(* DmlPooledHeap: staging memory for copies between CPU and GPU.  A pool   *)
(* of chunks, each used as a ring buffer: an allocation goes after the     *)
(* most recent one of its chunk or, past the end of the chunk, at its      *)
(* beginning, and is released when its done event is signaled.             *)
(*                                                                         *)
(* Sizes and offsets are in units, of which Alignment make the 512 bytes   *)
(* of kAllocationAlignment.  The 64-bit overflow test of the code cannot   *)
(* succeed: both terms are at most the size of an existing resource.       *)
(***************************************************************************)
EXTENDS Integers, Sequences, FiniteSets, FiniteSetsExt

CONSTANTS
    Alignment,      \* kAllocationAlignment
    MinChunkSize    \* kMinChunkSize

ASSUME AlignmentAssumption == Alignment \in Nat \ {0}
ASSUME MinChunkSizeAssumption == MinChunkSize \in Nat \ {0}

VARIABLES
    chunks,         \* chunks_
    total_capacity, \* total_capacity_
    resources       \* history: the number of resources ever created

heapVars == <<chunks, total_capacity, resources>>

None == -1      \* absl::nullopt; no offset is negative

HeapInit ==
    /\ chunks = << >>
    /\ total_capacity = 0
    /\ resources = 0

Align(offset) == ((offset + Alignment - 1) \div Alignment) * Alignment

(* Mutant: a wrapped chunk is treated like one that has not wrapped. *)
FindOffsetIgnoringWrap(chunk, size) ==
    LET allocs == chunk.allocations
        first  == allocs[1]
        last   == allocs[Len(allocs)]
        begin  == Align(last.offset + last.size)
    IN  IF chunk.capacity < size THEN None
        ELSE IF allocs = << >> THEN 0
        ELSE IF begin + size <= chunk.capacity THEN begin
        ELSE IF size <= first.offset THEN 0
        ELSE None

(* The free space is at both ends of the chunk or, once the ring has wrapped *)
(* around, between the last and the first allocation.                        *)
FindOffsetForAllocation(chunk, size) ==
    LET allocs  == chunk.allocations
        first   == allocs[1]
        last    == allocs[Len(allocs)]
        begin   == Align(last.offset + last.size)
        wrapped == first.offset > last.offset
        limit   == IF wrapped THEN first.offset ELSE chunk.capacity
    IN  IF chunk.capacity < size THEN None
        ELSE IF allocs = << >> THEN 0
        ELSE IF begin + size <= limit THEN begin
        ELSE IF ~wrapped /\ size <= first.offset THEN 0
        ELSE None

(* Mutant: any chunk that is large enough is taken. *)
FittingWhenEmpty(cs, size) == {i \in DOMAIN cs : cs[i].capacity >= size}

(* The chunks that can accommodate an allocation. *)
Fitting(cs, size) ==
    {i \in DOMAIN cs : FindOffsetForAllocation(cs[i], size) # None}

(* At least double the capacity of the pool. *)
NewChunkSize(size) == Max({total_capacity, MinChunkSize, size})

CreateChunk(size) ==
    [resource |-> resources + 1, capacity |-> size, allocations |-> << >>]

(* The chunks after Reserve was called in a pool that holds the chunks cs:   *)
(* if none fits, one that does is added at the end.                          *)
Reserve(cs, size) ==
    IF Fitting(cs, size) # {} THEN cs
    ELSE Append(cs, CreateChunk(NewChunkSize(size)))

(* The first chunk that fits is the one reserved from. *)
ReservedChunk(cs, size) == Min(Fitting(Reserve(cs, size), size))

(* The memory reserved. *)
Region(cs, size) ==
    LET chunk == Reserve(cs, size)[ReservedChunk(cs, size)]
    IN  [resource |-> chunk.resource, size |-> size,
         offset   |-> FindOffsetForAllocation(chunk, size)]

(* Space is reserved and an entry added that `done` will release. *)
Allocate(cs, size, done) ==
    LET entry == [size   |-> size, done |-> done,
                  offset |-> Region(cs, size).offset]
        grown == Fitting(cs, size) = {}
    IN  /\ chunks' = [Reserve(cs, size) EXCEPT
                         ![ReservedChunk(cs, size)].allocations =
                             Append(@, entry)]
        /\ total_capacity' = total_capacity +
                                 (IF grown THEN NewChunkSize(size) ELSE 0)
        /\ resources' = resources + (IF grown THEN 1 ELSE 0)

(* A new chunk is needed and the device is out of memory. *)
ReserveFails(cs, size) ==
    /\ Fitting(cs, size) = {}
    /\ chunks' = cs
    /\ UNCHANGED <<total_capacity, resources>>

(* The allocations from the first whose event is not signaled. *)
Unreclaimed(allocs, completed) ==
    LET kept == {i \in DOMAIN allocs : allocs[i].done > completed}
    IN  IF kept = {} THEN << >> ELSE SubSeq(allocs, Min(kept), Len(allocs))

(* The chunks after ReclaimAllocations, given the value of the fence. *)
ReclaimAllocations(completed) ==
    [i \in DOMAIN chunks |->
        [chunks[i] EXCEPT !.allocations = Unreclaimed(@, completed)]]

CapacityOf(cs) ==
    LET sum[n \in 0..Len(cs)] ==
            IF n = 0 THEN 0 ELSE sum[n - 1] + cs[n].capacity
    IN  sum[Len(cs)]

(* Mutant: chunks that are in use are released as well. *)
TrimEverything(completed) ==
    /\ chunks' = << >>
    /\ total_capacity' = 0
    /\ UNCHANGED resources

(* Trim releases the chunks that have no allocations; the others keep their  *)
(* order.                                                                    *)
Trim(completed) ==
    LET cs    == ReclaimAllocations(completed)
        inUse == {i \in DOMAIN cs : cs[i].allocations # << >>}
    IN  /\ \E kept \in [1..Cardinality(inUse) -> inUse] :
              /\ \A j, k \in DOMAIN kept : j < k => kept[j] < kept[k]
              /\ chunks' = [j \in DOMAIN kept |-> cs[kept[j]]]
        /\ total_capacity' = CapacityOf(chunks')
        /\ UNCHANGED resources

-----------------------------------------------------------------------------
HeapTypeOK ==
    /\ total_capacity \in Nat
    /\ resources \in Nat
    /\ \A i \in DOMAIN chunks :
          /\ chunks[i].resource \in 1..resources
          /\ chunks[i].capacity \in Nat \ {0}
          /\ \A j \in DOMAIN chunks[i].allocations :
                LET a == chunks[i].allocations[j]
                IN  a.size \in Nat \ {0} /\ a.offset \in Nat /\ a.done \in Nat

Disjoint(a, b) == a.offset + a.size <= b.offset \/ b.offset + b.size <= a.offset

(* AssertInvariants, which the code checks in debug builds on entry to and   *)
(* exit from every operation: chunks are sorted by capacity, allocations by  *)
(* fence value; allocations are within their chunk, aligned and disjoint;    *)
(* and total_capacity is the sum of the capacities.                          *)
AssertInvariants ==
    /\ \A i, j \in DOMAIN chunks :
          i <= j => chunks[i].capacity <= chunks[j].capacity
    /\ \A i \in DOMAIN chunks :
          LET allocs == chunks[i].allocations
          IN  \A j, k \in DOMAIN allocs :
                 /\ allocs[j].offset + allocs[j].size <= chunks[i].capacity
                 /\ allocs[j].offset % Alignment = 0
                 /\ j < k => /\ allocs[j].done <= allocs[k].done
                             /\ Disjoint(allocs[j], allocs[k])
    /\ total_capacity = CapacityOf(chunks)
=============================================================================

---------------------------- MODULE BFCAllocator ----------------------------
(***************************************************************************)
(* The data structure of BFCAllocator: regions of memory cut into chunks,  *)
(* a chunk known by its handle, each chunk linked to its neighbours in the *)
(* region and the free ones in bins by size.  Every operator takes the     *)
(* state of the allocator as a record and returns the new one.             *)
(*                                                                         *)
(* No chunk has a timestamp in this program (freed_at_count is always 0,   *)
(* timestamped_chunks_ is always empty), garbage collection is off and the *)
(* sub-allocator does not coalesce regions.  A bin is the set of chunks    *)
(* with its bin_num; the handles of deleted chunks form a list.            *)
(***************************************************************************)
EXTENDS Naturals, Sequences, FiniteSetsExt, Functions

CONSTANTS
    MinAllocationSize,      \* kMinAllocationSize
    NumBins,                \* kNumBins
    InitialRegionSize,      \* the 2 MiB of the first region
    MaxAllocationSize,      \* max_allocation_size_bytes
    MemoryLimit,            \* memory_limit_
    MaxFragmentation,       \* max_internal_fragmentation_bytes
    RegionStride            \* the distance of the addresses of regions

ASSUME SizesAssumption ==
    /\ MinAllocationSize \in Nat \ {0}
    /\ NumBins \in Nat \ {0}
    /\ InitialRegionSize \in Nat \ {0}
    /\ MaxAllocationSize \in Nat \ {0}
    /\ MaxAllocationSize % MinAllocationSize = 0
    /\ MemoryLimit \in Nat \ {0}
    /\ MaxFragmentation \in Nat \ {0}
    /\ RegionStride \in Nat
    /\ RegionStride >= MaxAllocationSize

Invalid == 0        \* kInvalidChunkHandle
NoBin == NumBins    \* kInvalidBinNum

MinOf(a, b) == IF a < b THEN a ELSE b
MaxOf(a, b) == IF a > b THEN a ELSE b

RoundedBytes(bytes) ==
    MinAllocationSize *
        ((bytes + MinAllocationSize - 1) \div MinAllocationSize)

PowerOfTwo(k) ==
    LET power[i \in 0..k] == IF i = 0 THEN 1 ELSE 2 * power[i - 1]
    IN  power[k]

Log2Floor(n) ==
    CHOOSE b \in 0..n : PowerOfTwo(b) <= n /\ n < PowerOfTwo(b + 1)

(* No chunk is larger than MaxAllocationSize. *)
BinNumForSize ==
    [bytes \in 1..MaxAllocationSize |->
        MinOf(NumBins - 1,
              Log2Floor(MaxOf(bytes, MinAllocationSize) \div MinAllocationSize))]

(* The state of the allocator when it is created. *)
EmptyAllocator ==
    [chunks |-> << >>, free_list |-> << >>, handles |-> [p \in {} |-> 0],
     regions |-> << >>,
     curr_region |-> MinOf(RoundedBytes(MinOf(MemoryLimit, InitialRegionSize)),
                           MaxAllocationSize),
     total |-> 0, started_backpedal |-> FALSE]

-----------------------------------------------------------------------------
(* Chunks and bins. *)

DeletedChunk ==
    [ptr |-> 0, size |-> 0, in_use |-> FALSE, prev |-> Invalid,
     next |-> Invalid, bin_num |-> NoBin]

NewHandle(s) ==
    IF s.free_list # << >> THEN Head(s.free_list) ELSE Len(s.chunks) + 1

(* AllocateChunk and set_handle: chunk c at a handle from the list or at a   *)
(* new one.                                                                  *)
AllocateChunk(s, c) ==
    [s EXCEPT !.chunks = IF s.free_list # << >>
                         THEN [@ EXCEPT ![Head(s.free_list)] = c]
                         ELSE Append(@, c),
              !.free_list = IF @ # << >> THEN Tail(@) ELSE @,
              !.handles = [p \in DOMAIN @ \cup {c.ptr} |->
                            IF p = c.ptr THEN NewHandle(s) ELSE @[p]]]

(* DeleteChunk and DeallocateChunk. *)
DeleteChunk(s, h) ==
    [s EXCEPT !.chunks[h] = DeletedChunk,
              !.free_list = <<h>> \o @,
              !.handles = [p \in {q \in DOMAIN @ : @[q] # h} |-> @[p]]]

InBinOfSize(c) == [c EXCEPT !.bin_num = BinNumForSize[c.size]]

InsertFreeChunkIntoBin(s, h) == [s EXCEPT !.chunks[h] = InBinOfSize(@)]

RemoveFreeChunkFromBin(s, h) == [s EXCEPT !.chunks[h].bin_num = NoBin]

(* Mutant: the chunk behind the merged ones still points to the deleted one. *)
MergedUnlinked(chunks, h1, h2) ==
    [chunks EXCEPT ![h1].size = @ + chunks[h2].size,
                   ![h1].next = chunks[h2].next]

(* Chunk h2, the next one, becomes part of chunk h1: c1 <-> c2 <-> c3 is     *)
(* now c1 <-> c3.                                                            *)
Merged(chunks, h1, h2) ==
    [h \in DOMAIN chunks |->
        IF h = h1 THEN [chunks[h1] EXCEPT !.size = @ + chunks[h2].size,
                                          !.next = chunks[h2].next]
        ELSE IF h = chunks[h2].next THEN [chunks[h] EXCEPT !.prev = h1]
        ELSE chunks[h]]

Merge(s, h1, h2) ==
    DeleteChunk([s EXCEPT !.chunks = Merged(@, h1, h2)], h2)

IsFree(s, h) == h # Invalid /\ ~s.chunks[h].in_use

(* The chunk is merged with the free chunks on both sides and goes to a bin. *)
CoalesceAndInsert(s, h) ==
    LET next == s.chunks[h].next
        prev == s.chunks[h].prev
        s1 == IF IsFree(s, next)
              THEN Merge(RemoveFreeChunkFromBin(s, next), h, next) ELSE s
    IN  IF IsFree(s, prev)
        THEN InsertFreeChunkIntoBin(
                Merge(RemoveFreeChunkFromBin(s1, prev), prev, h), prev)
        ELSE InsertFreeChunkIntoBin(s1, h)

(* Mutant: the new chunk begins where the one that is split does. *)
SplitChunkAtStart(s, h, num_bytes) ==
    LET c == s.chunks[h]
        new == NewHandle(s)
        s1 == AllocateChunk(s, [ptr |-> c.ptr,
                                size |-> c.size - num_bytes,
                                in_use |-> FALSE, prev |-> h, next |-> c.next,
                                bin_num |-> NoBin])
        s2 == [s1 EXCEPT !.chunks[h] = [@ EXCEPT !.size = num_bytes,
                                                 !.next = new]]
        s3 == IF c.next = Invalid THEN s2
              ELSE [s2 EXCEPT !.chunks[c.next].prev = new]
    IN  InsertFreeChunkIntoBin(s3, new)

(* The first num_bytes of chunk h stay its own; the rest is a new chunk. *)
SplitChunk(s, h, num_bytes) ==
    LET c == s.chunks[h]
        new == NewHandle(s)
        s1 == AllocateChunk(s, [ptr |-> c.ptr + num_bytes,
                                size |-> c.size - num_bytes,
                                in_use |-> FALSE, prev |-> h, next |-> c.next,
                                bin_num |-> NoBin])
        s2 == [s1 EXCEPT !.chunks[h] = [@ EXCEPT !.size = num_bytes,
                                                 !.next = new]]
        s3 == IF c.next = Invalid THEN s2
              ELSE [s2 EXCEPT !.chunks[c.next].prev = new]
    IN  InsertFreeChunkIntoBin(s3, new)

-----------------------------------------------------------------------------
(* Finding a chunk. *)

InBins(s, first) ==
    {h \in 1..Len(s.chunks) : s.chunks[h].bin_num \in first..(NumBins - 1)}

(* The order of a search: by bin, in a bin by size, then by address. *)
Before(s, g, h) ==
    LET a == s.chunks[g]
        b == s.chunks[h]
    IN  \/ a.bin_num < b.bin_num
        \/ a.bin_num = b.bin_num /\ a.size < b.size
        \/ a.bin_num = b.bin_num /\ a.size = b.size /\ a.ptr <= b.ptr

FittingChunks(s, rounded_bytes) ==
    {h \in InBins(s, BinNumForSize[rounded_bytes]) :
        s.chunks[h].size >= rounded_bytes}

(* FindChunkPtr, when a chunk fits: the handle of the best one. *)
BestFit(s, rounded_bytes) ==
    CHOOSE h \in FittingChunks(s, rounded_bytes) :
        \A g \in FittingChunks(s, rounded_bytes) : Before(s, h, g)

(* FindChunkPtr takes chunk h: out of its bin, split if it is much larger.   *)
TakeChunk(s, h, rounded_bytes) ==
    LET size == s.chunks[h].size
        s1 == RemoveFreeChunkFromBin(s, h)
        s2 == IF size >= rounded_bytes * 2
                     \/ size - rounded_bytes >= MaxFragmentation
              THEN SplitChunk(s1, h, rounded_bytes) ELSE s1
    IN  [s2 EXCEPT !.chunks[h].in_use = TRUE]

(* Mutant: the chunk is marked free and goes to no bin. *)
FreeChunkLost(s, ptr) == [s EXCEPT !.chunks[s.handles[ptr]].in_use = FALSE]

(* DeallocateRawInternal. *)
FreeChunk(s, ptr) ==
    LET h == s.handles[ptr]
    IN  CoalesceAndInsert([s EXCEPT !.chunks[h].in_use = FALSE], h)

-----------------------------------------------------------------------------
(* Extending. *)

AvailableBytes(s) ==
    ((MemoryLimit - s.total) \div MinAllocationSize) * MinAllocationSize

(* The region size after the doubling that a request needs. *)
Doubled(curr, rounded_bytes) ==
    LET times == CHOOSE k \in 0..rounded_bytes :
                    /\ curr * PowerOfTwo(k) >= rounded_bytes
                    /\ k > 0 => curr * PowerOfTwo(k - 1) < rounded_bytes
    IN  curr * PowerOfTwo(times)

ExtendedRegion(s, rounded_bytes) ==
    MinOf(Doubled(s.curr_region, rounded_bytes), MaxAllocationSize)

BytesToExtend(s, rounded_bytes) ==
    MinOf(ExtendedRegion(s, rounded_bytes), AvailableBytes(s))

(* Mutant: the loop tries the same size again. *)
BackpedalSame(bytes) == bytes

(* One step of the backpedal loop.  kBackpedalFactor is 0.9. *)
Backpedal(bytes) == RoundedBytes((bytes * 9) \div 10)

(* Extend once the sub-allocator has returned memory: a new region of the    *)
(* given size that is one free chunk.                                        *)
AddRegion(s, rounded_bytes, bytes) ==
    LET ptr == (Len(s.regions) + 1) * RegionStride
        curr == ExtendedRegion(s, rounded_bytes)
        s1 == [s EXCEPT !.regions = Append(@, [ptr |-> ptr, size |-> bytes]),
                        !.total = @ + bytes,
                        !.curr_region =
                            IF rounded_bytes > s.curr_region THEN curr
                            ELSE MinOf(curr * 2, MaxAllocationSize)]
        s2 == AllocateChunk(s1, [ptr |-> ptr, size |-> bytes, in_use |-> FALSE,
                                 prev |-> Invalid, next |-> Invalid,
                                 bin_num |-> NoBin])
    IN  CoalesceAndInsert(s2, NewHandle(s1))
=============================================================================

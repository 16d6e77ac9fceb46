------------------------ MODULE DeviceContext_proofs ------------------------
(***************************************************************************)
(* Copies from the device are complete when their event is signaled and    *)
(* when their call returns, for any callers and all sizes of tensors.      *)
(***************************************************************************)
EXTENDS DeviceContext, PooledHeap_proofs

Regions == [resource : Nat, size : Nat \ {0}, offset : Nat]

Readbacks == 1..fence_value

TypeInv ==
    /\ issued \in Seq(Nat) /\ executed \in Seq(Nat) /\ signaled \in Nat
    /\ value \in Seq(Nat) /\ fired \in Seq(Nat)
    /\ status \in {"OK", "ResourceExhausted"}
    /\ fence_value \in Nat
    /\ readback_completed \in 0..fence_value
    /\ holder \in Callers \cup {Nobody}
    /\ command \in Seq(Nat) /\ Len(command) = fence_value
    /\ region \in Seq(Regions) /\ Len(region) = fence_value
    /\ received \in Seq(SUBSET Nat) /\ Len(received) = fence_value

(* The commands with signaled events are the executed ones.                  *)
StreamInv ==
    /\ Len(executed) <= Len(issued)
    /\ \A i \in 1..Len(issued) : issued[i] <= signaled <=> i <= Len(executed)
    /\ \A i, j \in 1..Len(issued) : i <= j => issued[i] <= issued[j]

(* Readbacks are numbered in the order of their commands.                    *)
CommandsInv ==
    /\ \A r \in Readbacks : command[r] \in 1..Len(issued)
    /\ \A r, q \in Readbacks : r < q => command[r] < command[q]

(* The callbacks are those of the readbacks, less one that is about to be    *)
(* enqueued; they are invoked in order, and signal their events.             *)
QueueInv ==
    /\ Len(value) = IF holder = Nobody THEN fence_value ELSE fence_value - 1
    /\ \A r \in 1..Len(value) : value[r] = issued[command[r]]
    /\ Len(fired) <= Len(value)
    /\ \A r \in 1..Len(fired) : fired[r] = r /\ value[r] <= signaled
    /\ readback_completed <= Len(fired)
    /\ status = "OK" => readback_completed = Len(fired)

(* No allocation waits for an event that was not handed out.                 *)
DoneInv ==
    \A i \in 1..Len(chunks) : \A j \in 1..Len(chunks[i].allocations) :
        chunks[i].allocations[j].done <= fence_value

AllocationOf(r) ==
    [size |-> region[r].size, done |-> r, offset |-> region[r].offset]

(* Until its event is signaled, the heap has the allocation of a readback,   *)
(* and once the GPU has executed it the memory has its data.                 *)
RegionInv ==
    \A r \in Readbacks : r > readback_completed =>
        Has(chunks, region[r].resource, AllocationOf(r))

MemoryInv ==
    \A r \in Readbacks :
        r > readback_completed /\ command[r] <= Len(executed) =>
            \A u \in Units(region[r]) : u \in DOMAIN memory /\ memory[u] = r

CoreInv ==
    /\ TypeInv /\ StreamInv /\ CommandsInv /\ QueueInv
    /\ PoolInv /\ DoneInv /\ RegionInv /\ MemoryInv
    /\ SignaledMeansFilled

Calls == [pc : {"idle", "copy", "enqueue", "sync", "wait"},
          left : 0..MaxTensors, copy_event : Nat]

(* A call that is between the two steps of a readback holds the mutex.       *)
CallsInv ==
    /\ call \in [Callers -> Calls]
    /\ \A c \in Callers : /\ call[c].copy_event <= fence_value
                          /\ call[c].pc = "enqueue" <=> holder = c
                          /\ call[c].pc = "enqueue" => call[c].left > 0

(* The readbacks of a call in progress are not after its copy_event, except  *)
(* the one that it is about to enqueue; those of a call that has returned    *)
(* have signaled events.                                                     *)
BuffersInv ==
    /\ buffer \in Seq(Callers \cup {"returned", "abandoned"})
    /\ Len(buffer) = fence_value
    /\ \A r \in Readbacks : \A c \in Callers : buffer[r] = c =>
          /\ call[c].pc # "idle"
          /\ \/ r <= call[c].copy_event
             \/ call[c].pc = "enqueue" /\ r = fence_value
    /\ \A r \in Readbacks : buffer[r] = "returned" => r <= readback_completed

IInv == CoreInv /\ CallsInv /\ BuffersInv

-----------------------------------------------------------------------------
LEMMA InitIInv == Init => IInv
<1> HAVE Init
<1>1. /\ HeapInit /\ issued = << >> /\ executed = << >> /\ signaled = 0
      /\ value = << >> /\ fired = << >> /\ status = "OK" /\ fence_value = 0
      /\ readback_completed = 0 /\ holder = Nobody /\ command = << >>
      /\ region = << >> /\ received = << >> /\ buffer = << >>
      /\ call = [c \in Callers |->
                    [pc |-> "idle", left |-> 0, copy_event |-> 0]]
  BY DEF Init, ReadbackInit, Stream!Init, NoEvent
<1>2. PoolInv
  BY <1>1, HeapInitPool
<1>3. Readbacks = {}
  BY <1>1 DEF Readbacks
<1>4. TypeInv
  BY <1>1 DEF TypeInv
<1>5. StreamInv /\ CommandsInv /\ QueueInv /\ RegionInv /\ MemoryInv
      /\ SignaledMeansFilled
  BY <1>1, <1>3 DEF StreamInv, CommandsInv, QueueInv, RegionInv, MemoryInv,
                    SignaledMeansFilled
<1>6. DoneInv
  BY <1>1 DEF DoneInv, HeapInit
<1>7. CallsInv
  <2>1. \A c \in Callers : c # Nobody
    BY CallersAssumption
  <2>2. 0 \in 0..MaxTensors
    BY BoundsAssumption
  <2>3. QED
    BY <1>1, <2>1, <2>2 DEF CallsInv, Calls
<1>8. BuffersInv
  BY <1>1, <1>3 DEF BuffersInv
<1>9. QED
  BY <1>2, <1>4, <1>5, <1>6, <1>7, <1>8 DEF IInv, CoreInv

(* The types of what the steps look at.                                      *)
LEMMA Types ==
    ASSUME TypeInv
    PROVE  /\ Len(issued) \in Nat /\ Len(executed) \in Nat
           /\ Len(value) \in Nat /\ Len(fired) \in Nat
           /\ \A i \in 1..Len(issued) : issued[i] \in Nat
           /\ \A r \in 1..Len(value) : value[r] \in Nat
           /\ readback_completed \in Nat
           /\ \A r \in Readbacks :
                 /\ r \in Nat /\ command[r] \in Nat /\ region[r] \in Regions
                 /\ region[r].resource \in Nat /\ region[r].offset \in Nat
                 /\ region[r].size \in Nat \ {0}
<1>1. /\ Len(issued) \in Nat /\ Len(executed) \in Nat
      /\ Len(value) \in Nat /\ Len(fired) \in Nat
      /\ \A i \in 1..Len(issued) : issued[i] \in Nat
      /\ \A r \in 1..Len(value) : value[r] \in Nat
  BY LenProperties, ElementOfSeq DEF TypeInv
<1>2. readback_completed \in Nat
  BY DEF TypeInv
<1>3. ASSUME NEW r \in Readbacks
      PROVE  /\ r \in Nat /\ command[r] \in Nat /\ region[r] \in Regions
             /\ region[r].resource \in Nat /\ region[r].offset \in Nat
             /\ region[r].size \in Nat \ {0}
  <2>1. r \in Nat /\ r \in 1..Len(command) /\ r \in 1..Len(region)
    BY DEF TypeInv, Readbacks
  <2>2. command[r] \in Nat /\ region[r] \in Regions
    BY <2>1, ElementOfSeq DEF TypeInv
  <2>3. QED
    BY <2>1, <2>2 DEF Regions
<1>4. QED
  BY <1>1, <1>2, <1>3

LEMMA DoneBound ==
    ASSUME DoneInv, NEW r, NEW b, Has(chunks, r, b)
    PROVE  b.done <= fence_value
<1>1. PICK i \in 1..Len(chunks) :
         \E j \in 1..Len(chunks[i].allocations) : chunks[i].allocations[j] = b
  BY DEF Has
<1>2. QED
  BY <1>1 DEF DoneInv

(* Regions that are disjoint in a resource have no unit in common.           *)
LEMMA DisjointUnits ==
    ASSUME NEW g \in Regions, NEW h \in Regions,
           g.resource = h.resource =>
              \/ g.offset + g.size <= h.offset
              \/ h.offset + h.size <= g.offset
    PROVE  Units(g) \cap Units(h) = {}
<1> SUFFICES ASSUME NEW u, u \in Units(g), u \in Units(h) PROVE FALSE
  OBVIOUS
<1>1. PICK x \in g.offset..(g.offset + g.size - 1) : u = <<g.resource, x>>
  BY DEF Units
<1>2. PICK y \in h.offset..(h.offset + h.size - 1) : u = <<h.resource, y>>
  BY DEF Units
<1>3. x = y /\ g.resource = h.resource
  BY <1>1, <1>2
<1>4. /\ g.offset \in Nat /\ g.size \in Nat
      /\ h.offset \in Nat /\ h.size \in Nat
  BY DEF Regions
<1>5. QED
  BY <1>3, <1>4

LEMMA NonemptyUnits ==
    ASSUME NEW g \in Regions
    PROVE  \E u : u \in Units(g)
<1>1. g.offset \in Nat /\ g.size \in Nat \ {0}
  BY DEF Regions
<1>2. g.offset \in g.offset..(g.offset + g.size - 1)
  BY <1>1
<1>3. QED
  BY <1>2 DEF Units

(* Two readbacks whose events are not signaled have different memory.        *)
LEMMA ReadbacksDisjoint ==
    ASSUME CoreInv, NEW r \in Readbacks, NEW q \in Readbacks, r # q,
           r > readback_completed, q > readback_completed
    PROVE  Units(region[r]) \cap Units(region[q]) = {}
<1>1. /\ Has(chunks, region[r].resource, AllocationOf(r))
      /\ Has(chunks, region[q].resource, AllocationOf(q))
  BY DEF CoreInv, RegionInv
<1>2. AllocationOf(r) # AllocationOf(q)
  BY DEF AllocationOf
<1>3. region[r].resource = region[q].resource =>
         Disjoint(AllocationOf(r), AllocationOf(q))
  BY <1>1, <1>2, DistinctAllocations DEF CoreInv, PoolInv
<1>4. region[r].resource = region[q].resource =>
         \/ region[r].offset + region[r].size <= region[q].offset
         \/ region[q].offset + region[q].size <= region[r].offset
  BY <1>3 DEF Disjoint, AllocationOf
<1>5. region[r] \in Regions /\ region[q] \in Regions
  BY Types DEF CoreInv
<1>6. QED
  BY <1>4, <1>5, DisjointUnits

-----------------------------------------------------------------------------
(* A step of the barriers alone. *)
LEMMA CoreFrame ==
    ASSUME CoreInv, UNCHANGED <<heapVars, issued, executed, signaled,
                                queueVars, status, fence_value,
                                readback_completed, holder, command, region,
                                memory, received>>
    PROVE  CoreInv'
<1>1. /\ chunks' = chunks /\ total_capacity' = total_capacity
      /\ resources' = resources /\ issued' = issued /\ executed' = executed
      /\ signaled' = signaled /\ value' = value /\ fired' = fired
      /\ status' = status /\ fence_value' = fence_value
      /\ readback_completed' = readback_completed /\ holder' = holder
      /\ command' = command /\ region' = region /\ memory' = memory
      /\ received' = received
  BY DEF heapVars, queueVars
<1>2. /\ TypeInv' /\ StreamInv' /\ CommandsInv' /\ QueueInv'
      /\ PoolInv' /\ DoneInv'
  BY <1>1 DEF CoreInv, TypeInv, StreamInv, CommandsInv, QueueInv, PoolInv,
              DoneInv, Readbacks
<1>3. RegionInv' /\ MemoryInv' /\ SignaledMeansFilled'
  BY <1>1 DEF CoreInv, RegionInv, MemoryInv, SignaledMeansFilled, Filled,
              Readbacks, AllocationOf, Units
<1>4. QED
  BY <1>2, <1>3 DEF CoreInv

(* A command gets an event that is not signaled and not before any other.    *)
LEMMA IssueStep ==
    ASSUME TypeInv, StreamInv, Stream!Issue
    PROVE  /\ issued' \in Seq(Nat)
           /\ Len(issued') = Len(issued) + 1
           /\ \A i \in 1..Len(issued) : issued'[i] = issued[i]
           /\ executed' = executed /\ signaled' = signaled
           /\ StreamInv'
<1> DEFINE n == Len(issued)
<1>1. PICK e \in {Stream!LastEvent, Stream!LastEvent + 1} :
         e > signaled /\ issued' = Append(issued, e)
  BY DEF Stream!Issue
<1>2. executed' = executed /\ signaled' = signaled
  BY DEF Stream!Issue
<1>3. /\ n \in Nat /\ signaled \in Nat /\ Len(executed) \in Nat
      /\ \A i \in 1..n : issued[i] \in Nat
  BY Types DEF TypeInv
<1>4. /\ Stream!LastEvent \in Nat
      /\ \A i \in 1..n : issued[i] <= Stream!LastEvent
  <2>1. CASE n = 0
    <3>1. issued = << >>
      BY <2>1, EmptySeq DEF TypeInv
    <3>2. QED
      BY <2>1, <3>1 DEF Stream!LastEvent
  <2>2. CASE n > 0
    <3>1. Stream!LastEvent = issued[n] /\ n \in 1..n
      BY <1>3, <2>2, EmptySeq DEF Stream!LastEvent, TypeInv
    <3>2. QED
      BY <1>3, <3>1 DEF StreamInv
  <2>3. QED
    BY <1>3, <2>1, <2>2
<1>5. e \in Nat /\ \A i \in 1..n : issued[i] <= e
  BY <1>1, <1>3, <1>4
<1>6. /\ issued' \in Seq(Nat) /\ Len(issued') = n + 1
      /\ issued'[n + 1] = e
      /\ \A i \in 1..n : issued'[i] = issued[i]
  BY <1>1, <1>5, AppendProperties DEF TypeInv
<1>7. StreamInv'
  <2>1. ASSUME NEW i \in 1..(n + 1)
        PROVE  issued'[i] <= signaled <=> i <= Len(executed)
    <3>1. CASE i \in 1..n
      BY <1>6, <3>1 DEF StreamInv
    <3>2. CASE i = n + 1
      BY <1>1, <1>3, <1>5, <1>6, <3>2 DEF StreamInv
    <3>3. QED
      BY <1>3, <3>1, <3>2
  <2>2. ASSUME NEW i \in 1..(n + 1), NEW j \in 1..(n + 1), i <= j
        PROVE  issued'[i] <= issued'[j]
    <3>1. CASE j = n + 1
      <4>1. i = n + 1 \/ i \in 1..n
        BY <1>3
      <4>2. QED
        BY <1>5, <1>6, <3>1, <4>1
    <3>2. CASE j # n + 1
      <4>1. j \in 1..n /\ i \in 1..n
        BY <1>3, <2>2, <3>2
      <4>2. QED
        BY <1>6, <2>2, <4>1 DEF StreamInv
    <3>3. QED
      BY <3>1, <3>2
  <2>3. Len(executed') <= Len(issued')
    BY <1>2, <1>3, <1>6 DEF StreamInv
  <2>4. QED
    BY <1>2, <1>6, <2>1, <2>2, <2>3 DEF StreamInv
<1>8. QED
  BY <1>2, <1>6, <1>7

LEMMA OtherCommandStep ==
    ASSUME CoreInv, OtherCommand
    PROVE  CoreInv'
<1> USE DEF CoreInv
<1>1. /\ issued' \in Seq(Nat)
      /\ Len(issued') = Len(issued) + 1
      /\ \A i \in 1..Len(issued) : issued'[i] = issued[i]
      /\ executed' = executed /\ signaled' = signaled
      /\ StreamInv'
  BY IssueStep DEF OtherCommand
<1>2. /\ chunks' = chunks /\ total_capacity' = total_capacity
      /\ resources' = resources /\ value' = value /\ fired' = fired
      /\ status' = status /\ fence_value' = fence_value
      /\ readback_completed' = readback_completed /\ holder' = holder
      /\ command' = command /\ region' = region /\ memory' = memory
      /\ received' = received
  BY DEF OtherCommand, heapVars, queueVars
<1>3. Readbacks' = Readbacks
  BY <1>2 DEF Readbacks
<1>4. Len(issued) \in Nat
  BY Types
<1>5. TypeInv' /\ PoolInv' /\ DoneInv'
  BY <1>1, <1>2 DEF TypeInv, PoolInv, DoneInv
<1>6. CommandsInv'
  BY <1>1, <1>2, <1>3, <1>4 DEF CommandsInv
<1>7. \A r \in 1..Len(value) : r \in Readbacks
  BY Types DEF QueueInv, Readbacks, TypeInv
<1>8. QueueInv'
  BY <1>1, <1>2, <1>7 DEF QueueInv, CommandsInv
<1>9. RegionInv' /\ MemoryInv' /\ SignaledMeansFilled'
  BY <1>1, <1>2, <1>3 DEF RegionInv, MemoryInv, SignaledMeansFilled, Filled,
                          AllocationOf, Units
<1>10. QED
  BY <1>1, <1>5, <1>6, <1>8, <1>9

LEMMA RecorderFailsStep ==
    ASSUME CoreInv, RecorderFails
    PROVE  CoreInv'
<1>1. /\ chunks' = chunks /\ total_capacity' = total_capacity
      /\ resources' = resources /\ issued' = issued /\ executed' = executed
      /\ signaled' = signaled /\ value' = value /\ fired' = fired
      /\ status' = "ResourceExhausted" /\ fence_value' = fence_value
      /\ readback_completed' = readback_completed /\ holder' = holder
      /\ command' = command /\ region' = region /\ memory' = memory
      /\ received' = received
  BY DEF RecorderFails, heapVars, queueVars, streamVars
<1>2. /\ TypeInv' /\ StreamInv' /\ CommandsInv' /\ QueueInv'
      /\ PoolInv' /\ DoneInv'
  BY <1>1 DEF CoreInv, TypeInv, StreamInv, CommandsInv, QueueInv, PoolInv,
              DoneInv, Readbacks
<1>3. RegionInv' /\ MemoryInv' /\ SignaledMeansFilled'
  BY <1>1 DEF CoreInv, RegionInv, MemoryInv, SignaledMeansFilled, Filled,
              Readbacks, AllocationOf, Units
<1>4. QED
  BY <1>2, <1>3 DEF CoreInv

(* Reclaiming keeps the allocations whose events are not signaled.           *)
LEMMA ReclaimStep ==
    ASSUME CoreInv, PoolInv',
           UNCHANGED <<streamVars, queueVars, status, fence_value,
                       readback_completed, holder, command, region, memory,
                       received>>,
           \A r, b : Has(chunks, r, b) /\ b.done > readback_completed =>
              Has(chunks', r, b),
           \A r, b : Has(chunks', r, b) => Has(chunks, r, b)
    PROVE  CoreInv'
<1> USE DEF CoreInv
<1>1. /\ issued' = issued /\ executed' = executed
      /\ signaled' = signaled /\ value' = value /\ fired' = fired
      /\ status' = status /\ fence_value' = fence_value
      /\ readback_completed' = readback_completed /\ holder' = holder
      /\ command' = command /\ region' = region /\ memory' = memory
      /\ received' = received
  BY DEF queueVars, streamVars
<1>2. TypeInv' /\ StreamInv' /\ CommandsInv' /\ QueueInv'
  BY <1>1 DEF TypeInv, StreamInv, CommandsInv, QueueInv, Readbacks
<1>3. MemoryInv' /\ SignaledMeansFilled'
  BY <1>1 DEF MemoryInv, SignaledMeansFilled, Filled, Readbacks, Units
<1>4. DoneInv'
  <2> SUFFICES ASSUME NEW i \in 1..Len(chunks'),
                      NEW j \in 1..Len(chunks'[i].allocations)
               PROVE  chunks'[i].allocations[j].done <= fence_value
    BY <1>1 DEF DoneInv
  <2>1. Has(chunks', chunks'[i].resource, chunks'[i].allocations[j])
    BY DEF Has
  <2>2. Has(chunks, chunks'[i].resource, chunks'[i].allocations[j])
    BY <2>1
  <2>3. QED
    BY <2>2, DoneBound
<1>5. RegionInv'
  <2> SUFFICES ASSUME NEW r \in Readbacks, r > readback_completed
               PROVE  Has(chunks', region'[r].resource, AllocationOf(r)')
    BY <1>1 DEF RegionInv, Readbacks
  <2>1. AllocationOf(r)' = AllocationOf(r) /\ AllocationOf(r).done = r
    BY <1>1 DEF AllocationOf
  <2>2. Has(chunks, region[r].resource, AllocationOf(r))
    BY DEF RegionInv
  <2>3. QED
    BY <1>1, <2>1, <2>2
<1>6. QED
  BY <1>2, <1>3, <1>4, <1>5

LEMMA TrimHeapStep ==
    ASSUME CoreInv, TrimHeap
    PROVE  CoreInv'
<1>1. PICK s \in Nat : s = readback_completed
  BY Types DEF CoreInv
<1>2. /\ Trim(s)
      /\ UNCHANGED <<streamVars, queueVars, status, fence_value,
                     readback_completed, holder, command, region, memory,
                     received>>
  BY <1>1 DEF TrimHeap, CompletedValue
<1>3. /\ PoolInv'
      /\ \A r, b : Has(chunks, r, b) /\ b.done > s => Has(chunks', r, b)
      /\ \A r, b : Has(chunks', r, b) => Has(chunks, r, b)
  BY <1>2, TrimStep DEF CoreInv
<1>4. QED
  BY <1>1, <1>2, <1>3, ReclaimStep

LEMMA ReadbackFailsStep ==
    ASSUME CoreInv, NEW size \in Sizes, ReadbackFails(size)
    PROVE  CoreInv'
<1>1. PICK s \in Nat : s = readback_completed
  BY Types DEF CoreInv
<1>2. /\ ReserveFails(ReclaimAllocations(s), size)
      /\ UNCHANGED <<streamVars, queueVars, status, fence_value,
                     readback_completed, holder, command, region, memory,
                     received>>
  BY <1>1 DEF ReadbackFails, CompletedValue
<1>3. /\ PoolInv'
      /\ \A r, b : Has(chunks, r, b) /\ b.done > s => Has(chunks', r, b)
      /\ \A r, b : Has(chunks', r, b) => Has(chunks, r, b)
  BY <1>2, ReserveFailsStep DEF CoreInv
<1>4. QED
  BY <1>1, <1>2, <1>3, ReclaimStep

(* A readback that the GPU has not executed has a callback to come.          *)
LEMMA UnexecutedUnfired ==
    ASSUME CoreInv, NEW r \in Readbacks, command[r] > Len(executed)
    PROVE  r > Len(fired) /\ r > readback_completed
<1> USE DEF CoreInv
<1>1. /\ r \in Nat /\ Len(fired) \in Nat /\ Len(executed) \in Nat
      /\ Len(value) \in Nat /\ readback_completed \in Nat
      /\ command[r] \in Nat
  BY Types
<1>2. command[r] \in 1..Len(issued)
  BY DEF CommandsInv
<1>3. ASSUME r <= Len(fired) PROVE FALSE
  <2>1. r \in 1..Len(fired) /\ r \in 1..Len(value)
    BY <1>1, <1>3 DEF QueueInv, Readbacks
  <2>2. issued[command[r]] <= signaled
    BY <2>1 DEF QueueInv
  <2>3. command[r] <= Len(executed)
    BY <1>2, <2>2 DEF StreamInv
  <2>4. QED
    BY <1>1, <2>3
<1>4. QED
  BY <1>1, <1>3 DEF QueueInv

LEMMA GpuSignalsStep ==
    ASSUME CoreInv, GpuSignals
    PROVE  CoreInv'
<1> USE DEF CoreInv
<1>1. PICK n \in (Len(executed) + 1)..Len(issued) :
         /\ \A i \in 1..Len(issued) : issued[i] <= signaled + 1 <=> i <= n
         /\ executed' = [i \in 1..n |-> i]
  BY DEF GpuSignals, Stream!Signal
<1>2. /\ chunks' = chunks /\ total_capacity' = total_capacity
      /\ resources' = resources /\ issued' = issued
      /\ signaled' = signaled + 1 /\ value' = value /\ fired' = fired
      /\ status' = status /\ fence_value' = fence_value
      /\ readback_completed' = readback_completed /\ holder' = holder
      /\ command' = command /\ region' = region /\ received' = received
  BY DEF GpuSignals, Stream!Signal, heapVars, queueVars
<1>3. /\ Len(issued) \in Nat /\ Len(executed) \in Nat /\ signaled \in Nat
      /\ n \in Nat /\ n \in 1..Len(issued) /\ n > Len(executed)
      /\ \A i \in 1..Len(issued) : issued[i] \in Nat
  BY <1>1, Types DEF TypeInv, StreamInv
<1>4. executed' \in Seq(Nat) /\ Len(executed') = n
  <2>1. executed' \in [1..n -> Nat]
    BY <1>1, <1>3
  <2>2. QED
    BY <1>3, <2>1, FunctionIsSeq
<1>5. Readbacks' = Readbacks
  BY <1>2 DEF Readbacks
<1>6. TypeInv' /\ CommandsInv' /\ PoolInv' /\ DoneInv'
  BY <1>2, <1>3, <1>4, <1>5 DEF TypeInv, CommandsInv, PoolInv, DoneInv
<1>7. StreamInv'
  BY <1>1, <1>2, <1>3, <1>4 DEF StreamInv
<1>8. QueueInv'
  <2>1. \A r \in 1..Len(fired) : r \in 1..Len(value)
    BY Types DEF QueueInv
  <2>2. \A r \in 1..Len(fired) : value[r] <= signaled + 1
    BY <1>3, <2>1, Types DEF QueueInv
  <2>3. QED
    BY <1>2, <2>2 DEF QueueInv
<1>9. RegionInv' /\ SignaledMeansFilled'
  BY <1>2, <1>5 DEF RegionInv, SignaledMeansFilled, Filled, AllocationOf
<1>10. MemoryInv'
  <2> DEFINE written == {r \in Readbacks : /\ command[r] > Len(executed)
                                           /\ command[r] <= n}
             last(u) == Max({r \in written : u \in Units(region[r])})
             units   == UNION {Units(region[r]) : r \in written}
  <2>1. memory' = [u \in units \cup DOMAIN memory |->
                      IF u \in units THEN last(u) ELSE memory[u]]
    BY <1>2, <1>4 DEF GpuSignals, Readbacks, TypeInv
  <2>2. /\ DOMAIN memory' = units \cup DOMAIN memory
        /\ \A u \in units : memory'[u] = last(u)
        /\ \A u \in DOMAIN memory : u \notin units => memory'[u] = memory[u]
    BY <2>1
  <2>3. \A r \in written : /\ r \in Readbacks /\ r \in Nat
                           /\ r > readback_completed
    BY UnexecutedUnfired, Types
  <2> SUFFICES ASSUME NEW r \in Readbacks, r > readback_completed,
                      command[r] <= n, NEW u \in Units(region[r])
               PROVE  u \in DOMAIN memory' /\ memory'[u] = r
    BY <1>2, <1>4, <1>5 DEF MemoryInv, Units
  <2>4. \A q \in written : q # r => u \notin Units(region[q])
    <3> SUFFICES ASSUME NEW q \in written, q # r
                 PROVE  u \notin Units(region[q])
      OBVIOUS
    <3>1. Units(region[r]) \cap Units(region[q]) = {}
      BY <2>3, ReadbacksDisjoint
    <3>2. QED
      BY <3>1
  <2>5. CASE command[r] > Len(executed)
    <3>1. r \in written /\ r \in Nat
      BY <2>5, Types
    <3>2. u \in units
      BY <3>1
    <3>3. {q \in written : u \in Units(region[q])} = {r}
      BY <2>4, <3>1
    <3>4. last(u) = r
      <4>1. Max({r}) = r
        BY <3>1 DEF Max
      <4>2. QED
        BY <3>3, <4>1
    <3>5. QED
      BY <2>2, <3>2, <3>4
  <2>6. CASE command[r] <= Len(executed)
    <3>1. u \in DOMAIN memory /\ memory[u] = r
      BY <2>6 DEF MemoryInv
    <3>2. command[r] \in Nat /\ Len(executed) \in Nat
      BY Types
    <3>3. r \notin written
      BY <2>6, <3>2
    <3>4. u \notin units
      BY <2>4, <3>3
    <3>5. QED
      BY <2>2, <3>1, <3>4
  <2>7. QED
    BY <1>3, <2>5, <2>6, Types
<1>11. QED
  BY <1>6, <1>7, <1>8, <1>9, <1>10

LEMMA ReadbackFromGpuStep ==
    ASSUME CoreInv, NEW c \in Callers, NEW size \in Sizes,
           ReadbackFromGpu(c, size)
    PROVE  CoreInv'
<1> USE DEF CoreInv
<1> DEFINE n == fence_value
<1>1. PICK s \in Nat : s = readback_completed
  BY Types
<1>2. PICK e \in Nat : e = fence_value' /\ e = n + 1
  BY DEF ReadbackFromGpu, TypeInv
<1>3. PICK g : g = Region(ReclaimAllocations(s), size)
  OBVIOUS
<1> DEFINE a == [size |-> size, done |-> e, offset |-> g.offset]
<1>4. /\ holder = Nobody /\ holder' = c /\ Stream!Issue
      /\ Allocate(ReclaimAllocations(s), size, e)
      /\ command' = Append(command, Len(issued) + 1)
      /\ region' = Append(region, g)
      /\ received' = Append(received, {})
      /\ value' = value /\ fired' = fired /\ status' = status
      /\ readback_completed' = readback_completed /\ memory' = memory
  BY <1>1, <1>2, <1>3 DEF ReadbackFromGpu, CompletedValue, DoneEvent, queueVars
<1>5. /\ issued' \in Seq(Nat)
      /\ Len(issued') = Len(issued) + 1
      /\ \A i \in 1..Len(issued) : issued'[i] = issued[i]
      /\ executed' = executed /\ signaled' = signaled
      /\ StreamInv'
  BY <1>4, IssueStep
<1>6. /\ n \in Nat /\ size \in Nat \ {0} /\ Len(issued) \in Nat
      /\ Len(executed) \in Nat /\ Len(value) \in Nat
  BY SizesAssumption, Types DEF TypeInv
<1>7. \A r, b : Has(chunks, r, b) => b.done <= n /\ b.done <= e
  <2> SUFFICES ASSUME NEW r, NEW b, Has(chunks, r, b)
               PROVE  b.done <= n /\ b.done <= e
    OBVIOUS
  <2>1. b.done <= n
    BY DoneBound
  <2>2. b.done \in Nat
    BY HasTypes DEF PoolInv, PoolOK
  <2>3. QED
    BY <1>2, <1>6, <2>1, <2>2
<1>8. /\ PoolInv'
      /\ g = [resource |-> g.resource, size |-> size, offset |-> g.offset]
      /\ g.resource \in Nat /\ g.offset \in Nat
      /\ Has(chunks', g.resource, a)
      /\ \A r, b : Has(chunks, r, b) /\ b.done > s => Has(chunks', r, b)
      /\ \A r, b : Has(chunks', r, b) => Has(chunks, r, b) \/ b = a
  BY <1>3, <1>4, <1>6, <1>7, AllocateStep
<1>9. g \in Regions /\ g.size = size
  BY <1>6, <1>8 DEF Regions
<1>10. /\ command' \in Seq(Nat) /\ Len(command') = e
       /\ command'[e] = Len(issued) + 1
       /\ \A r \in 1..n : command'[r] = command[r]
  <2>1. PICK m \in Nat : m = Len(issued) + 1
    BY <1>6
  <2>2. command' = Append(command, m) /\ command \in Seq(Nat)
        /\ Len(command) = n
    BY <1>4, <2>1 DEF TypeInv
  <2>3. QED
    BY <1>2, <2>1, <2>2, AppendProperties
<1>11. /\ region' \in Seq(Regions) /\ Len(region') = e
       /\ region'[e] = g
       /\ \A r \in 1..n : region'[r] = region[r]
  <2>1. region' = Append(region, g) /\ region \in Seq(Regions)
        /\ Len(region) = n
    BY <1>4 DEF TypeInv
  <2>2. QED
    BY <1>2, <1>9, <2>1, AppendProperties
<1>12. /\ received' \in Seq(SUBSET Nat) /\ Len(received') = e
       /\ \A r \in 1..n : received'[r] = received[r]
  <2>1. received' = Append(received, {}) /\ received \in Seq(SUBSET Nat)
        /\ Len(received) = n /\ {} \in SUBSET Nat
    BY <1>4 DEF TypeInv
  <2>2. QED
    BY <1>2, <2>1, AppendProperties
<1>13. /\ Readbacks = 1..n /\ Readbacks' = 1..e
       /\ \A r \in 1..e : r = e \/ r \in 1..n
  BY <1>2, <1>6 DEF Readbacks
<1>14. TypeInv'
  <2>1. readback_completed' \in 0..fence_value'
    BY <1>2, <1>4, <1>6 DEF TypeInv
  <2>2. QED
    BY <1>2, <1>4, <1>5, <1>10, <1>11, <1>12, <2>1 DEF TypeInv
<1>15. CommandsInv'
  <2>1. \A r \in 1..n : command[r] \in 1..Len(issued)
    BY <1>13 DEF CommandsInv
  <2>2. ASSUME NEW r \in 1..e PROVE command'[r] \in 1..(Len(issued) + 1)
    <3>1. CASE r = e
      BY <1>6, <1>10, <3>1
    <3>2. CASE r \in 1..n
      BY <1>6, <1>10, <2>1, <3>2
    <3>3. QED
      BY <1>13, <3>1, <3>2
  <2>3. ASSUME NEW r \in 1..e, NEW q \in 1..e, r < q
        PROVE  command'[r] < command'[q]
    <3>1. r \in 1..n
      BY <1>2, <1>6, <2>3
    <3>2. CASE q = e
      BY <1>6, <1>10, <2>1, <3>1, <3>2
    <3>3. CASE q \in 1..n
      BY <1>10, <1>13, <2>3, <3>1, <3>3 DEF CommandsInv
    <3>4. QED
      BY <1>13, <3>2, <3>3
  <2>4. QED
    BY <1>5, <1>13, <2>2, <2>3 DEF CommandsInv
<1>16. QueueInv'
  <2>1. Len(value) = n
    BY <1>4 DEF QueueInv
  <2>2. c # Nobody
    BY CallersAssumption
  <2>3. Len(value') = fence_value' - 1
    BY <1>2, <1>4, <1>6, <2>1
  <2>4. \A r \in 1..Len(value') : value'[r] = issued'[command'[r]]
    <3> TAKE r \in 1..Len(value')
    <3>1. r \in 1..n
      BY <1>4, <2>1
    <3>2. command'[r] = command[r] /\ command[r] \in 1..Len(issued)
      BY <1>10, <1>13, <3>1 DEF CommandsInv
    <3>3. QED
      BY <1>4, <1>5, <2>1, <3>1, <3>2 DEF QueueInv
  <2>5. QED
    BY <1>4, <1>5, <2>2, <2>3, <2>4 DEF QueueInv
<1>17. DoneInv'
  <2> SUFFICES ASSUME NEW i \in 1..Len(chunks'),
                      NEW j \in 1..Len(chunks'[i].allocations)
               PROVE  chunks'[i].allocations[j].done <= e
    BY <1>2 DEF DoneInv
  <2> DEFINE b == chunks'[i].allocations[j]
  <2>1. Has(chunks', chunks'[i].resource, b)
    BY DEF Has
  <2>2. CASE b = a
    BY <1>2, <2>2
  <2>3. CASE Has(chunks, chunks'[i].resource, b)
    BY <1>7, <2>3
  <2>4. QED
    BY <1>8, <2>1, <2>2, <2>3
<1>18. ASSUME NEW r \in 1..n
       PROVE  AllocationOf(r)' = AllocationOf(r)
  BY <1>11 DEF AllocationOf
<1>19. RegionInv'
  <2> SUFFICES ASSUME NEW r \in 1..e, r > readback_completed
               PROVE  Has(chunks', region'[r].resource, AllocationOf(r)')
    BY <1>4, <1>13 DEF RegionInv
  <2>1. CASE r = e
    <3>1. AllocationOf(r)' = a /\ region'[r].resource = g.resource
      BY <1>9, <1>11, <2>1 DEF AllocationOf
    <3>2. QED
      BY <1>8, <3>1
  <2>2. CASE r \in 1..n
    <3>1. Has(chunks, region[r].resource, AllocationOf(r))
      BY <1>13, <2>2 DEF RegionInv
    <3>2. AllocationOf(r).done > s
      BY <1>1 DEF AllocationOf
    <3>3. QED
      BY <1>8, <1>11, <1>18, <2>2, <3>1, <3>2
  <2>3. QED
    BY <1>13, <2>1, <2>2
<1>20. MemoryInv'
  <2> SUFFICES ASSUME NEW r \in 1..e, r > readback_completed,
                      command'[r] <= Len(executed),
                      NEW u \in Units(region'[r])
               PROVE  u \in DOMAIN memory /\ memory[u] = r
    BY <1>4, <1>5, <1>13 DEF MemoryInv, Units
  <2>1. r # e
    BY <1>6, <1>10 DEF StreamInv
  <2>2. r \in 1..n /\ command[r] <= Len(executed) /\ u \in Units(region[r])
    BY <1>10, <1>11, <1>13, <2>1
  <2>3. QED
    BY <1>13, <2>2 DEF MemoryInv
<1>21. SignaledMeansFilled'
  <2>1. \A r \in 1..readback_completed : r \in 1..n
    BY DEF TypeInv
  <2>2. QED
    BY <1>4, <1>12, <2>1 DEF SignaledMeansFilled, Filled
<1>22. QED
  BY <1>5, <1>8, <1>14, <1>15, <1>16, <1>17, <1>19, <1>20, <1>21

-----------------------------------------------------------------------------
(* The values of the callbacks are the events of commands in their order, so *)
(* the next callback to be invoked is the oldest one.                        *)
LEMMA NextCallback ==
    ASSUME CoreInv
    PROVE  /\ Callbacks!Unfired = (Len(fired) + 1)..Len(value)
           /\ \A r, q \in 1..Len(value) : r <= q => value[r] <= value[q]
<1> USE DEF CoreInv
<1>1. Len(fired) \in Nat /\ Len(value) \in Nat /\ Len(fired) <= Len(value)
  BY Types DEF QueueInv
<1>2. \A r \in 1..Len(value) : r \in Readbacks
  BY <1>1 DEF QueueInv, Readbacks, TypeInv
<1>3. \A r \in 1..Len(fired) : fired[r] = r
  BY DEF QueueInv
<1>4. Callbacks!Unfired = (Len(fired) + 1)..Len(value)
  <2>1. ASSUME NEW r \in 1..Len(value), \A i \in 1..Len(fired) : fired[i] # r
        PROVE  r \in (Len(fired) + 1)..Len(value)
    <3>1. r \notin 1..Len(fired)
      BY <1>3, <2>1
    <3>2. QED
      BY <1>1, <3>1
  <2>2. ASSUME NEW r \in (Len(fired) + 1)..Len(value)
        PROVE  r \in 1..Len(value) /\ \A i \in 1..Len(fired) : fired[i] # r
    BY <1>1, <1>3
  <2>3. QED
    BY <2>1, <2>2 DEF Callbacks!Unfired
<1>5. ASSUME NEW r \in 1..Len(value), NEW q \in 1..Len(value), r <= q
      PROVE  value[r] <= value[q]
  <2>1. command[r] \in 1..Len(issued) /\ command[q] \in 1..Len(issued)
    BY <1>2 DEF CommandsInv
  <2>2. command[r] <= command[q]
    <3>1. CASE r = q
      BY <2>1, <3>1
    <3>2. CASE r < q
      BY <1>2, <2>1, <3>2 DEF CommandsInv
    <3>3. QED
      BY <1>1, <1>5, <3>1, <3>2
  <2>3. issued[command[r]] <= issued[command[q]]
    BY <2>1, <2>2 DEF StreamInv
  <2>4. QED
    BY <2>3 DEF QueueInv
<1>6. QED
  BY <1>4, <1>5

(* The callback of the oldest readback finds the data of that readback.      *)
LEMMA CallbackStep ==
    ASSUME CoreInv, NEW r \in Readbacks, r = Len(fired) + 1,
           fired' = Append(fired, r),
           value' \in Seq(Nat), r <= Len(value'),
           \A q \in 1..Len(value') : value'[q] = issued[command[q]],
           value'[r] <= signaled,
           holder' \in Callers \cup {Nobody},
           Len(value') = IF holder' = Nobody THEN fence_value
                                             ELSE fence_value - 1,
           \A q \in 1..Len(value) : value'[q] = value[q],
           DoneCallback(r),
           UNCHANGED <<heapVars, streamVars, status, fence_value, command,
                       region, memory>>
    PROVE  CoreInv' /\ readback_completed <= readback_completed'
<1> USE DEF CoreInv
<1>1. /\ chunks' = chunks /\ total_capacity' = total_capacity
      /\ resources' = resources /\ issued' = issued /\ executed' = executed
      /\ signaled' = signaled /\ status' = status
      /\ fence_value' = fence_value /\ command' = command
      /\ region' = region /\ memory' = memory
  BY DEF heapVars, streamVars
<1>2. /\ r \in Nat /\ Len(fired) \in Nat /\ Len(executed) \in Nat
      /\ Len(value) \in Nat /\ readback_completed \in Nat
      /\ fence_value \in Nat /\ r \in 1..fence_value
      /\ region[r] \in Regions
  BY Types DEF Readbacks, TypeInv
<1>3. /\ fired' \in Seq(Nat) /\ Len(fired') = r
      /\ \A q \in 1..r : fired'[q] = q
  <2>1. fired \in Seq(Nat) /\ \A q \in 1..Len(fired) : fired[q] = q
    BY DEF TypeInv, QueueInv
  <2>2. /\ fired' \in Seq(Nat) /\ Len(fired') = r
        /\ fired'[r] = r
        /\ \A q \in 1..Len(fired) : fired'[q] = fired[q]
    BY <1>2, <2>1, AppendProperties
  <2>3. \A q \in 1..r : q = r \/ q \in 1..Len(fired)
    BY <1>2
  <2>4. QED
    BY <2>1, <2>2, <2>3
<1>4. command[r] <= Len(executed)
  <2>1. issued[command[r]] <= signaled
    <3>1. r \in 1..Len(value')
      BY <1>2, LenProperties
    <3>2. QED
      BY <3>1
  <2>2. command[r] \in 1..Len(issued)
    BY DEF CommandsInv
  <2>3. QED
    BY <2>1, <2>2 DEF StreamInv
<1>5. StreamInv' /\ CommandsInv' /\ PoolInv' /\ DoneInv'
  BY <1>1 DEF StreamInv, CommandsInv, PoolInv, DoneInv, Readbacks
<1>6. /\ readback_completed' \in Nat
      /\ readback_completed' \in {readback_completed, r}
      /\ status = "OK" => readback_completed' = r
      /\ received' \in Seq(SUBSET Nat) /\ Len(received') = fence_value
      /\ \A q \in 1..readback_completed' : received'[q] = {q}
  <2>1. CASE status # "OK"
    <3>1. received' = received /\ readback_completed' = readback_completed
      BY <2>1 DEF DoneCallback, SignalDone
    <3>2. QED
      BY <1>2, <2>1, <3>1 DEF TypeInv, SignaledMeansFilled, Filled
  <2>2. CASE status = "OK"
    <3>1. /\ readback_completed' = r
          /\ received' = [received EXCEPT ![r] =
                             {memory[u] : u \in Units(region[r])}]
      BY <2>2 DEF DoneCallback, SignalDone
    <3>2. readback_completed = Len(fired) /\ r > readback_completed
      BY <1>2, <2>2 DEF QueueInv
    <3>3. {memory[u] : u \in Units(region[r])} = {r}
      <4>1. \A u \in Units(region[r]) : memory[u] = r
        BY <1>4, <3>2 DEF MemoryInv
      <4>2. \E u : u \in Units(region[r])
        BY <1>2, NonemptyUnits
      <4>3. QED
        BY <4>1, <4>2
    <3>4. received' = [received EXCEPT ![r] = {r}]
      BY <3>1, <3>3
    <3>5. /\ received \in Seq(SUBSET Nat) /\ Len(received) = fence_value
          /\ r \in 1..Len(received) /\ {r} \in SUBSET Nat
      BY <1>2 DEF TypeInv
    <3>6. /\ received' \in Seq(SUBSET Nat)
          /\ Len(received') = fence_value
          /\ received'[r] = {r}
          /\ \A q \in 1..fence_value : q # r => received'[q] = received[q]
      BY <3>4, <3>5, ExceptSeq
    <3>7. ASSUME NEW q \in 1..r PROVE received'[q] = {q}
      <4>1. CASE q = r
        BY <3>6, <4>1
      <4>2. CASE q # r
        <5>1. q \in 1..readback_completed /\ q \in 1..fence_value
          BY <1>2, <3>2, <4>2
        <5>2. received[q] = {q}
          BY <5>1 DEF SignaledMeansFilled, Filled
        <5>3. QED
          BY <3>6, <4>2, <5>1, <5>2
      <4>3. QED
        BY <4>1, <4>2
    <3>8. QED
      BY <1>2, <3>1, <3>6, <3>7
  <2>3. QED
    BY <2>1, <2>2
<1>7. readback_completed <= readback_completed' /\ readback_completed' <= r
      /\ readback_completed' \in 0..fence_value
  BY <1>2, <1>6 DEF QueueInv
<1>8. TypeInv'
  BY <1>1, <1>3, <1>6, <1>7 DEF TypeInv
<1>9. QueueInv'
  <2>1. \A q \in 1..r : value'[q] <= signaled
    <3> TAKE q \in 1..r
    <3>1. CASE q = r
      BY <3>1
    <3>2. CASE q # r
      <4>1. q \in 1..Len(fired) /\ q \in 1..Len(value)
        BY <1>2, <3>2 DEF QueueInv
      <4>2. value[q] <= signaled /\ value'[q] = value[q]
        BY <4>1 DEF QueueInv
      <4>3. QED
        BY <4>2
    <3>3. QED
      BY <3>1, <3>2
  <2>2. QED
    BY <1>1, <1>3, <1>6, <1>7, <2>1 DEF QueueInv
<1>10. \A q \in Readbacks : q > readback_completed' => q > readback_completed
  BY <1>2, <1>6, <1>7, Types
<1>11. RegionInv' /\ MemoryInv'
  <2>1. Readbacks' = Readbacks
    BY <1>1 DEF Readbacks
  <2>2. RegionInv'
    BY <1>1, <1>10, <2>1 DEF RegionInv, AllocationOf
  <2>3. MemoryInv'
    BY <1>1, <1>10, <2>1, SMTT(30) DEF MemoryInv, Units
  <2>4. QED
    BY <2>2, <2>3
<1>12. SignaledMeansFilled'
  BY <1>6 DEF SignaledMeansFilled, Filled
<1>13. QED
  BY <1>5, <1>7, <1>8, <1>9, <1>11, <1>12

LEMMA FireCallbackStep ==
    ASSUME CoreInv, FireCallback
    PROVE  CoreInv' /\ readback_completed <= readback_completed'
<1> USE DEF CoreInv
<1>1. PICK r \in 1..Len(value) : Callbacks!Fire(r) /\ DoneCallback(r)
  BY DEF FireCallback
<1>2. /\ r \in Callbacks!Unfired /\ value[r] <= signaled
      /\ \A d \in Callbacks!Unfired : d < r => value[d] > value[r]
      /\ fired' = Append(fired, r) /\ value' = value
  BY <1>1 DEF Callbacks!Fire
<1>3. /\ Len(fired) \in Nat /\ Len(value) \in Nat
      /\ \A q \in 1..Len(value) : value[q] \in Nat
  BY Types
<1>4. r = Len(fired) + 1
  <2>1. r \in (Len(fired) + 1)..Len(value)
    BY <1>2, NextCallback
  <2>2. ASSUME r # Len(fired) + 1 PROVE FALSE
    <3> DEFINE d == Len(fired) + 1
    <3>1. d \in (Len(fired) + 1)..Len(value) /\ d < r /\ d \in 1..Len(value)
      BY <1>3, <2>1, <2>2
    <3>2. value[d] > value[r] /\ value[d] <= value[r]
      BY <1>2, <3>1, NextCallback
    <3>3. QED
      BY <1>3, <3>1, <3>2
  <2>3. QED
    BY <2>2
<1>5. r \in Readbacks
  BY <1>3 DEF QueueInv, Readbacks, TypeInv
<1>6. UNCHANGED <<heapVars, streamVars, status, fence_value, command,
                  region, memory>> /\ holder' = holder
  BY DEF FireCallback
<1>7. value' \in Seq(Nat) /\ r <= Len(value') /\ value'[r] <= signaled
  BY <1>2, <1>3 DEF TypeInv
<1>8. /\ \A q \in 1..Len(value') : value'[q] = issued[command[q]]
      /\ \A q \in 1..Len(value) : value'[q] = value[q]
      /\ holder' \in Callers \cup {Nobody}
      /\ Len(value') = IF holder' = Nobody THEN fence_value
                                           ELSE fence_value - 1
  BY <1>2, <1>6 DEF QueueInv, TypeInv
<1>9. QED
  BY <1>1, <1>2, <1>4, <1>5, <1>6, <1>7, <1>8, CallbackStep

(* Enqueue invokes the callback itself only if no callback is waiting.       *)
LEMMA EnqueueCallbackStep ==
    ASSUME CoreInv, NEW c \in Callers, EnqueueCallback(c)
    PROVE  /\ CoreInv' /\ readback_completed <= readback_completed'
           /\ holder' = Nobody /\ fence_value' = fence_value
<1> USE DEF CoreInv
<1> DEFINE v == issued[command[fence_value]]
<1>1. /\ holder = c /\ c # Nobody /\ holder' = Nobody
      /\ fence_value' = fence_value
      /\ UNCHANGED <<heapVars, streamVars, status, fence_value, command,
                     region, memory>>
  BY CallersAssumption DEF EnqueueCallback
<1>2. /\ Len(value) \in Nat /\ Len(fired) \in Nat /\ Len(fired) <= Len(value)
      /\ fence_value \in Nat /\ fence_value = Len(value) + 1
      /\ fence_value \in Readbacks
      /\ \A q \in 1..Len(value) : q \in Readbacks
  <2>1. Len(value) \in Nat /\ Len(fired) \in Nat
    BY Types
  <2>2. Len(fired) <= Len(value) /\ Len(value) = fence_value - 1
    BY <1>1 DEF QueueInv
  <2>3. fence_value \in Nat
    BY DEF TypeInv
  <2>4. QED
    BY <2>1, <2>2, <2>3 DEF Readbacks
<1>3. command[fence_value] \in 1..Len(issued) /\ v \in Nat
  BY <1>2, Types DEF CommandsInv
<1>4. PICK w \in Nat : w = v
  BY <1>3
<1>5. value' = Append(value, w)
  BY <1>4 DEF EnqueueCallback, Callbacks!Enqueue, Callbacks!EnqueueAndFire
<1>6. /\ value' \in Seq(Nat) /\ Len(value') = fence_value
      /\ value'[fence_value] = w
      /\ \A q \in 1..Len(value) : value'[q] = value[q]
  BY <1>2, <1>5, AppendProperties DEF TypeInv
<1>7. \A q \in 1..Len(value') : value'[q] = issued[command[q]]
  <2> TAKE q \in 1..Len(value')
  <2>1. CASE q = fence_value
    BY <1>4, <1>6, <2>1
  <2>2. CASE q \in 1..Len(value)
    BY <1>6, <2>2 DEF QueueInv
  <2>3. QED
    BY <1>2, <1>6, <2>1, <2>2
<1>8. CASE /\ fired' = fired /\ received' = received
           /\ readback_completed' = readback_completed
  <2>1. /\ chunks' = chunks /\ total_capacity' = total_capacity
        /\ resources' = resources /\ issued' = issued
        /\ executed' = executed /\ signaled' = signaled
        /\ status' = status /\ command' = command
        /\ region' = region /\ memory' = memory
    BY <1>1 DEF heapVars, streamVars
  <2>2. TypeInv' /\ StreamInv' /\ CommandsInv' /\ PoolInv' /\ DoneInv'
    BY <1>1, <1>6, <1>8, <2>1 DEF TypeInv, StreamInv, CommandsInv, PoolInv,
                                  DoneInv, Readbacks
  <2>3. RegionInv' /\ MemoryInv' /\ SignaledMeansFilled'
    BY <1>1, <1>8, <2>1 DEF RegionInv, MemoryInv, SignaledMeansFilled, Filled,
                            Readbacks, AllocationOf, Units
  <2>4. \A q \in 1..Len(fired) : fired[q] = q /\ value'[q] <= signaled
    <3> TAKE q \in 1..Len(fired)
    <3>1. q \in 1..Len(value)
      BY <1>2
    <3>2. value'[q] = value[q]
      BY <1>6, <3>1
    <3>3. QED
      BY <3>2 DEF QueueInv
  <2>5. Len(fired) <= fence_value
    BY <1>2
  <2>6. QueueInv'
    BY <1>1, <1>6, <1>7, <1>8, <2>1, <2>4, <2>5 DEF QueueInv
  <2>7. readback_completed <= readback_completed'
    BY <1>8, Types
  <2>8. QED
    BY <1>1, <2>2, <2>3, <2>6, <2>7
<1>9. CASE Callbacks!EnqueueAndFire(v) /\ DoneCallback(fence_value)
  <2>1. /\ v <= signaled
        /\ \A d \in Callbacks!Unfired : value[d] > v
        /\ fired' = Append(fired, Len(value) + 1)
    BY <1>9 DEF Callbacks!EnqueueAndFire
  <2>2. Len(fired) = Len(value)
    <3> SUFFICES ASSUME Len(fired) < Len(value) PROVE FALSE
      BY <1>2
    <3> DEFINE d == Len(value)
    <3>1. d \in (Len(fired) + 1)..Len(value) /\ d \in 1..Len(value)
      BY <1>2
    <3>2. value[d] > v
      BY <2>1, <3>1, NextCallback
    <3>3. command[d] < command[fence_value] /\ command[d] \in 1..Len(issued)
      BY <1>2, <3>1 DEF CommandsInv
    <3>4. issued[command[d]] <= v
      BY <1>3, <3>3 DEF StreamInv
    <3>5. value[d] = issued[command[d]] /\ value[d] \in Nat
      BY <3>1, Types DEF QueueInv
    <3>6. QED
      BY <1>3, <3>2, <3>4, <3>5
  <2>3. fence_value = Len(fired) + 1 /\ fired' = Append(fired, fence_value)
    BY <1>2, <2>1, <2>2
  <2>4. value'[fence_value] <= signaled /\ fence_value <= Len(value')
    BY <1>2, <1>4, <1>6, <2>1
  <2>5. /\ holder' \in Callers \cup {Nobody}
        /\ Len(value') = IF holder' = Nobody THEN fence_value
                                             ELSE fence_value - 1
    BY <1>1, <1>6
  <2>6. QED
    BY <1>1, <1>2, <1>6, <1>7, <1>9, <2>3, <2>4, <2>5, CallbackStep
<1>10. QED
  BY <1>8, <1>9 DEF EnqueueCallback, Callbacks!Enqueue

-----------------------------------------------------------------------------
(* The callers' part of the invariant is kept by steps of others. *)
LEMMA CallersFrame ==
    ASSUME CoreInv, CallsInv, BuffersInv, CoreInv',
           UNCHANGED <<call, buffer, fence_value, holder>>,
           readback_completed <= readback_completed'
    PROVE  CallsInv' /\ BuffersInv'
<1>1. /\ call' = call /\ buffer' = buffer /\ fence_value' = fence_value
      /\ holder' = holder
  OBVIOUS
<1>2. /\ readback_completed \in Nat /\ readback_completed' \in Nat
      /\ \A r \in Readbacks : r \in Nat
  BY DEF CoreInv, TypeInv, Readbacks
<1>3. CallsInv'
  BY <1>1 DEF CallsInv
<1>4. \A r \in Readbacks : buffer[r] = "returned" => r <= readback_completed'
  BY <1>2 DEF BuffersInv
<1>5. BuffersInv'
  BY <1>1, <1>4 DEF BuffersInv, Readbacks
<1>6. QED
  BY <1>3, <1>5

(* The call of c proceeds without a readback. *)
LEMMA ProceedStep ==
    ASSUME IInv, NEW c \in Callers, call[c].pc \notin {"idle", "enqueue"},
           call' \in [Callers -> Calls],
           \A d \in Callers : d # c => call'[d] = call[d],
           call'[c].pc \notin {"idle", "enqueue"},
           call'[c].copy_event = call[c].copy_event,
           UNCHANGED <<buffer, fence_value, holder, readback_completed>>
    PROVE  CallsInv' /\ BuffersInv'
<1>1. /\ buffer' = buffer /\ fence_value' = fence_value
      /\ holder' = holder /\ readback_completed' = readback_completed
  OBVIOUS
<1>2. CallsInv'
  <2> SUFFICES ASSUME NEW d \in Callers
               PROVE  /\ call'[d].copy_event <= fence_value
                      /\ call'[d].pc = "enqueue" <=> holder = d
                      /\ call'[d].pc = "enqueue" => call'[d].left > 0
    BY <1>1 DEF CallsInv
  <2>1. CASE d = c
    BY <2>1 DEF IInv, CallsInv
  <2>2. CASE d # c
    BY <2>2 DEF IInv, CallsInv
  <2>3. QED
    BY <2>1, <2>2
<1>3. ASSUME NEW r \in Readbacks, NEW d \in Callers, buffer[r] = d
      PROVE  /\ call'[d].pc # "idle"
             /\ \/ r <= call'[d].copy_event
                \/ call'[d].pc = "enqueue" /\ r = fence_value
  <2>1. CASE d = c
    BY <1>3, <2>1 DEF IInv, BuffersInv
  <2>2. CASE d # c
    BY <1>3, <2>2 DEF IInv, BuffersInv
  <2>3. QED
    BY <2>1, <2>2
<1>4. BuffersInv'
  BY <1>1, <1>3 DEF IInv, BuffersInv, Readbacks
<1>5. QED
  BY <1>2, <1>4

LEMMA ReturnStep ==
    ASSUME IInv, NEW c \in Callers, call[c].pc # "enqueue",
           NEW state \in {"returned", "abandoned"}, Return(c, state),
           state = "returned" =>
              \A r \in Readbacks : buffer[r] = c => r <= readback_completed,
           UNCHANGED <<fence_value, holder, readback_completed>>
    PROVE  CallsInv' /\ BuffersInv'
<1> USE DEF IInv
<1>1. /\ fence_value' = fence_value /\ holder' = holder
      /\ readback_completed' = readback_completed
  OBVIOUS
<1>2. /\ call' \in [Callers -> Calls]
      /\ \A d \in Callers : d # c => call'[d] = call[d]
      /\ call'[c].pc = "idle" /\ call'[c].copy_event = call[c].copy_event
  <2>1. call' = [call EXCEPT ![c].pc = "idle"] /\ call \in [Callers -> Calls]
    BY DEF Return, CallsInv
  <2>2. QED
    BY <2>1 DEF Calls
<1>3. /\ buffer \in Seq(Callers \cup {"returned", "abandoned"})
      /\ Len(buffer) = fence_value /\ DOMAIN buffer = 1..fence_value
      /\ Readbacks = 1..fence_value
      /\ fence_value \in Nat
  BY LenProperties DEF BuffersInv, CoreInv, TypeInv, Readbacks
<1>4. buffer' = [r \in 1..fence_value |->
                    IF buffer[r] = c THEN state ELSE buffer[r]]
  BY <1>3 DEF Return
<1>5. buffer' \in Seq(Callers \cup {"returned", "abandoned"})
      /\ Len(buffer') = fence_value
  <2>1. \A r \in 1..fence_value :
           buffer[r] \in Callers \cup {"returned", "abandoned"}
    BY <1>3, ElementOfSeq
  <2>2. buffer' \in [1..fence_value -> Callers \cup {"returned", "abandoned"}]
    BY <1>4, <2>1
  <2>3. QED
    BY <1>3, <2>2, FunctionIsSeq
<1>6. CallsInv'
  <2> SUFFICES ASSUME NEW d \in Callers
               PROVE  /\ call'[d].copy_event <= fence_value
                      /\ call'[d].pc = "enqueue" <=> holder = d
                      /\ call'[d].pc = "enqueue" => call'[d].left > 0
    BY <1>1, <1>2 DEF CallsInv
  <2>1. CASE d = c
    BY <1>2, <2>1 DEF CallsInv
  <2>2. CASE d # c
    BY <1>2, <2>2 DEF CallsInv
  <2>3. QED
    BY <2>1, <2>2
<1>7. ASSUME NEW r \in 1..fence_value, NEW d \in Callers, buffer'[r] = d
      PROVE  /\ call'[d].pc # "idle"
             /\ \/ r <= call'[d].copy_event
                \/ call'[d].pc = "enqueue" /\ r = fence_value
  <2>1. state # d
    BY CallersAssumption
  <2>2. d # c /\ buffer[r] = d
    BY <1>4, <1>7, <2>1
  <2>3. QED
    BY <1>2, <1>3, <2>2 DEF BuffersInv
<1>8. ASSUME NEW r \in 1..fence_value, buffer'[r] = "returned"
      PROVE  r <= readback_completed
  <2>1. CASE buffer[r] = c
    <3>1. state = "returned"
      BY <1>4, <1>8, <2>1
    <3>2. QED
      BY <1>3, <2>1, <3>1
  <2>2. CASE buffer[r] # c
    <3>1. buffer[r] = "returned"
      BY <1>4, <1>8, <2>2
    <3>2. QED
      BY <1>3, <3>1 DEF BuffersInv
  <2>3. QED
    BY <2>1, <2>2
<1>9. BuffersInv'
  BY <1>1, <1>5, <1>7, <1>8 DEF BuffersInv, Readbacks
<1>10. QED
  BY <1>6, <1>9

LEMMA CopyDeviceTensorsToCPUStep ==
    ASSUME IInv, NEW c \in Callers, NEW n \in 1..MaxTensors,
           CopyDeviceTensorsToCPU(c, n)
    PROVE  IInv'
<1> USE DEF IInv
<1>1. /\ call[c].pc = "idle" /\ buffer' = buffer
      /\ UNCHANGED readbackVars
      /\ call' = [call EXCEPT ![c] =
                     [pc |-> "copy", left |-> n, copy_event |-> 0]]
  BY DEF CopyDeviceTensorsToCPU, At, NoEvent
<1>2. /\ CoreInv' /\ fence_value' = fence_value /\ holder' = holder
      /\ readback_completed' = readback_completed
  BY <1>1, CoreFrame DEF readbackVars, streamVars
<1>3. /\ call' \in [Callers -> Calls]
      /\ \A d \in Callers : d # c => call'[d] = call[d]
      /\ call'[c].pc = "copy" /\ call'[c].copy_event = 0
  <2>1. n \in 0..MaxTensors /\ call \in [Callers -> Calls]
    BY BoundsAssumption DEF CallsInv
  <2>2. QED
    BY <1>1, <2>1 DEF Calls
<1>4. CallsInv'
  <2> SUFFICES ASSUME NEW d \in Callers
               PROVE  /\ call'[d].copy_event <= fence_value
                      /\ call'[d].pc = "enqueue" <=> holder = d
                      /\ call'[d].pc = "enqueue" => call'[d].left > 0
    BY <1>2, <1>3 DEF CallsInv
  <2>1. CASE d = c
    <3>1. holder # c
      BY <1>1 DEF CallsInv
    <3>2. 0 <= fence_value
      BY DEF CoreInv, TypeInv
    <3>3. QED
      BY <1>3, <2>1, <3>1, <3>2
  <2>2. CASE d # c
    BY <1>3, <2>2 DEF CallsInv
  <2>3. QED
    BY <2>1, <2>2
<1>5. ASSUME NEW r \in Readbacks, NEW d \in Callers, buffer[r] = d
      PROVE  /\ call'[d].pc # "idle"
             /\ \/ r <= call'[d].copy_event
                \/ call'[d].pc = "enqueue" /\ r = fence_value
  <2>1. d # c
    BY <1>1, <1>5 DEF BuffersInv
  <2>2. QED
    BY <1>3, <1>5, <2>1 DEF BuffersInv
<1>6. BuffersInv'
  BY <1>1, <1>2, <1>5 DEF BuffersInv, Readbacks
<1>7. QED
  BY <1>2, <1>4, <1>6

LEMMA CopyTensorStep ==
    ASSUME IInv, NEW c \in Callers, NEW size \in Sizes, CopyTensor(c, size)
    PROVE  IInv'
<1> USE DEF IInv
<1>1. /\ call[c].pc = "copy" /\ call[c].left > 0 /\ holder = Nobody
      /\ ReadbackFromGpu(c, size) /\ holder' = c
      /\ fence_value' = fence_value + 1
      /\ readback_completed' = readback_completed
      /\ call' = [call EXCEPT ![c].pc = "enqueue"]
      /\ buffer' = Append(buffer, c)
  BY DEF CopyTensor, ReadbackFromGpu, At
<1>2. CoreInv'
  BY <1>1, ReadbackFromGpuStep
<1>3. fence_value \in Nat /\ \A d \in Callers : call[d].copy_event \in Nat
  BY DEF CoreInv, TypeInv, CallsInv, Calls
<1>4. /\ call' \in [Callers -> Calls]
      /\ \A d \in Callers : d # c => call'[d] = call[d]
      /\ call'[c].pc = "enqueue" /\ call'[c].left = call[c].left
      /\ call'[c].copy_event = call[c].copy_event
  <2>1. call \in [Callers -> Calls]
    BY DEF CallsInv
  <2>2. QED
    BY <1>1, <2>1 DEF Calls
<1>5. \A d \in Callers : call[d].pc # "enqueue"
  BY <1>1, CallersAssumption DEF CallsInv
<1>6. CallsInv'
  <2> SUFFICES ASSUME NEW d \in Callers
               PROVE  /\ call'[d].copy_event <= fence_value + 1
                      /\ call'[d].pc = "enqueue" <=> c = d
                      /\ call'[d].pc = "enqueue" => call'[d].left > 0
    BY <1>1, <1>4 DEF CallsInv
  <2>1. call[d].copy_event <= fence_value + 1
    BY <1>3 DEF CallsInv
  <2>2. CASE d = c
    BY <1>1, <1>4, <2>1, <2>2
  <2>3. CASE d # c
    BY <1>4, <1>5, <2>1, <2>3
  <2>4. QED
    BY <2>2, <2>3
<1>7. /\ buffer' \in Seq(Callers \cup {"returned", "abandoned"})
      /\ Len(buffer') = fence_value + 1
      /\ buffer'[fence_value + 1] = c
      /\ \A r \in 1..fence_value : buffer'[r] = buffer[r]
  BY <1>1, AppendProperties DEF BuffersInv
<1>8. \A r \in 1..(fence_value + 1) :
         r = fence_value + 1 \/ (r \in Readbacks /\ r \in 1..fence_value)
  BY <1>3 DEF Readbacks
<1>9. ASSUME NEW r \in 1..(fence_value + 1), NEW d \in Callers,
             buffer'[r] = d
      PROVE  /\ call'[d].pc # "idle"
             /\ \/ r <= call'[d].copy_event
                \/ call'[d].pc = "enqueue" /\ r = fence_value + 1
  <2>1. CASE r = fence_value + 1
    BY <1>4, <1>7, <1>9, <2>1
  <2>2. CASE r \in Readbacks /\ r \in 1..fence_value
    <3>1. call[d].pc # "idle" /\ r <= call[d].copy_event
      BY <1>5, <1>7, <1>9, <2>2 DEF BuffersInv
    <3>2. CASE d = c
      BY <1>4, <3>1, <3>2
    <3>3. CASE d # c
      BY <1>4, <3>1, <3>3
    <3>4. QED
      BY <3>2, <3>3
  <2>3. QED
    BY <1>8, <2>1, <2>2
<1>10. ASSUME NEW r \in 1..(fence_value + 1), buffer'[r] = "returned"
       PROVE  r <= readback_completed
  <2>1. c # "returned"
    BY CallersAssumption
  <2>2. r \in Readbacks /\ buffer[r] = "returned"
    BY <1>7, <1>8, <1>10, <2>1
  <2>3. QED
    BY <2>2 DEF BuffersInv
<1>11. BuffersInv'
  BY <1>1, <1>7, <1>9, <1>10 DEF BuffersInv, Readbacks
<1>12. QED
  BY <1>2, <1>6, <1>11

LEMMA CopyTensorReturnsStep ==
    ASSUME IInv, NEW c \in Callers, CopyTensorReturns(c)
    PROVE  IInv'
<1> USE DEF IInv
<1> DEFINE k == [pc |-> "copy", left |-> call[c].left - 1,
                 copy_event |-> fence_value]
<1>1. /\ call[c].pc = "enqueue" /\ EnqueueCallback(c)
      /\ buffer' = buffer
      /\ call' = [call EXCEPT ![c] = [pc |-> "copy", left |-> @.left - 1,
                                      copy_event |-> fence_value]]
  BY DEF CopyTensorReturns, At
<1>2. /\ CoreInv' /\ readback_completed <= readback_completed'
      /\ holder' = Nobody /\ fence_value' = fence_value
  BY <1>1, EnqueueCallbackStep
<1>3. /\ fence_value \in Nat /\ call \in [Callers -> Calls]
      /\ call[c].left \in 0..MaxTensors /\ call[c].left > 0
      /\ readback_completed \in Nat /\ readback_completed' \in Nat
      /\ \A r \in Readbacks : r \in Nat /\ r <= fence_value
  BY <1>1, <1>2 DEF CoreInv, TypeInv, CallsInv, Calls, Readbacks
<1>4. /\ call' \in [Callers -> Calls]
      /\ \A d \in Callers : d # c => call'[d] = call[d]
      /\ call'[c].pc = "copy" /\ call'[c].copy_event = fence_value
  <2>1. call[c].left - 1 \in 0..MaxTensors
    BY <1>3, BoundsAssumption
  <2>2. k \in Calls
    BY <1>3, <2>1 DEF Calls
  <2>3. call' = [call EXCEPT ![c] = k]
    BY <1>1
  <2>4. QED
    BY <1>3, <2>2, <2>3
<1>5. holder = c
  BY <1>1 DEF CallsInv
<1>6. CallsInv'
  <2> SUFFICES ASSUME NEW d \in Callers
               PROVE  /\ call'[d].copy_event <= fence_value
                      /\ call'[d].pc # "enqueue" /\ d # Nobody
    BY <1>2, <1>4 DEF CallsInv
  <2>1. CASE d = c
    BY <1>3, <1>4, <2>1, CallersAssumption
  <2>2. CASE d # c
    BY <1>4, <1>5, <2>2, CallersAssumption DEF CallsInv
  <2>3. QED
    BY <2>1, <2>2
<1>7. ASSUME NEW r \in Readbacks, NEW d \in Callers, buffer[r] = d
      PROVE  /\ call'[d].pc # "idle"
             /\ r <= call'[d].copy_event
  <2>1. CASE d = c
    BY <1>3, <1>4, <2>1
  <2>2. CASE d # c
    <3>1. call[d].pc # "enqueue"
      BY <1>5, <2>2 DEF CallsInv
    <3>2. QED
      BY <1>4, <1>7, <2>2, <3>1 DEF BuffersInv
  <2>3. QED
    BY <2>1, <2>2
<1>8. \A r \in Readbacks : buffer[r] = "returned" => r <= readback_completed'
  BY <1>2, <1>3 DEF BuffersInv
<1>9. BuffersInv'
  BY <1>1, <1>2, <1>7, <1>8 DEF BuffersInv, Readbacks
<1>10. QED
  BY <1>2, <1>6, <1>9

(* The other steps of a caller. *)
LEMMA CallerStepKeeps ==
    ASSUME IInv, NEW c \in Callers, CallerStep(c)
    PROVE  IInv'
<1> USE DEF IInv
<1>1. /\ call \in [Callers -> Calls] /\ call[c] \in Calls
      /\ call[c].copy_event \in Nat /\ call[c].left \in 0..MaxTensors
      /\ \A r \in Readbacks : r \in Nat /\ r > 0
  BY DEF CallsInv, Calls, CoreInv, TypeInv, Readbacks
<1>2. readback_completed \in Nat
  BY Types DEF CoreInv
<1>3. ASSUME UNCHANGED readbackVars
      PROVE  /\ CoreInv' /\ fence_value' = fence_value /\ holder' = holder
             /\ readback_completed' = readback_completed
  BY <1>3, CoreFrame DEF readbackVars, streamVars
<1>4. CASE SkipTensor(c)
  <2>1. /\ call[c].pc = "copy" /\ call[c].left > 0 /\ buffer' = buffer
        /\ call' = [call EXCEPT ![c].left = @ - 1]
        /\ UNCHANGED readbackVars
    BY <1>4 DEF SkipTensor, At
  <2>2. call[c].left - 1 \in 0..MaxTensors
    BY <1>1, <2>1, BoundsAssumption
  <2>3. /\ call' \in [Callers -> Calls]
        /\ \A d \in Callers : d # c => call'[d] = call[d]
        /\ call'[c].pc = "copy" /\ call'[c].copy_event = call[c].copy_event
    BY <1>1, <2>1, <2>2 DEF Calls
  <2>4. QED
    BY <1>3, <2>1, <2>3, ProceedStep
<1>5. CASE CopyTensorReturns(c)
  BY <1>5, CopyTensorReturnsStep
<1>6. CASE NothingCopied(c)
  <2>1. /\ call[c].pc = "copy" /\ call[c].copy_event = 0
        /\ Return(c, "returned") /\ UNCHANGED readbackVars
    BY <1>6 DEF NothingCopied, At, NoEvent
  <2>2. \A r \in Readbacks : buffer[r] # c
    BY <1>1, <2>1 DEF BuffersInv
  <2>3. QED
    BY <1>3, <2>1, <2>2, ReturnStep
<1>7. ASSUME NEW p \in {"sync", "wait"}, call[c].pc \in {"copy", "sync"},
             call' = [call EXCEPT ![c].pc = p]
      PROVE  /\ call[c].pc \notin {"idle", "enqueue"}
             /\ call' \in [Callers -> Calls]
             /\ \A d \in Callers : d # c => call'[d] = call[d]
             /\ call'[c].pc \notin {"idle", "enqueue"}
             /\ call'[c].copy_event = call[c].copy_event
  BY <1>1, <1>7 DEF Calls
<1>8. CASE Sync(c)
  <2>1. /\ call[c].pc = "copy" /\ call' = [call EXCEPT ![c].pc = "sync"]
        /\ issued' = issued /\ executed' = executed /\ signaled' = signaled
        /\ UNCHANGED <<heapVars, queueVars, status, fence_value,
                       readback_completed, holder, command, region, memory,
                       received, buffer>>
    BY <1>8 DEF Sync, At, Stream!StartBarrier
  <2>2. CoreInv'
    BY <2>1, CoreFrame
  <2>3. CallsInv' /\ BuffersInv'
    BY <1>7, <2>1, ProceedStep
  <2>4. QED
    BY <2>2, <2>3
<1>9. CASE SyncReturns(c)
  <2>1. /\ call[c].pc = "sync" /\ call' = [call EXCEPT ![c].pc = "wait"]
        /\ issued' = issued /\ executed' = executed /\ signaled' = signaled
        /\ UNCHANGED <<heapVars, queueVars, status, fence_value,
                       readback_completed, holder, command, region, memory,
                       received, buffer>>
    BY <1>9 DEF SyncReturns, At, Stream!PassBarrier
  <2>2. CoreInv'
    BY <2>1, CoreFrame
  <2>3. CallsInv' /\ BuffersInv'
    BY <1>7, <2>1, ProceedStep
  <2>4. QED
    BY <2>2, <2>3
<1>10. CASE SkipSync(c)
  <2>1. /\ call[c].pc = "copy" /\ call' = [call EXCEPT ![c].pc = "wait"]
        /\ UNCHANGED readbackVars /\ buffer' = buffer
    BY <1>10 DEF SkipSync, At
  <2>2. CallsInv' /\ BuffersInv'
    BY <1>3, <1>7, <2>1, ProceedStep
  <2>3. QED
    BY <1>3, <2>1, <2>2
<1>11. CASE WaitReturns(c)
  <2>1. /\ call[c].pc = "wait" /\ readback_completed >= call[c].copy_event
        /\ Return(c, "returned") /\ UNCHANGED readbackVars
    BY <1>11 DEF WaitReturns, CopyEventSignaled, At
  <2>2. \A r \in Readbacks : buffer[r] = c => r <= readback_completed
    <3> SUFFICES ASSUME NEW r \in Readbacks, buffer[r] = c
                 PROVE  r <= readback_completed
      OBVIOUS
    <3>1. r <= call[c].copy_event
      BY <2>1 DEF BuffersInv
    <3>2. QED
      BY <1>1, <1>2, <2>1, <3>1
  <2>3. QED
    BY <1>3, <2>1, <2>2, ReturnStep
<1>12. ASSUME NEW size \in Sizes, CopyTensor(c, size) PROVE IInv'
  BY <1>12, CopyTensorStep
<1>13. ASSUME NEW size \in Sizes, CopyTensorFails(c, size) PROVE IInv'
  <2>1. /\ call[c].pc = "copy" /\ ReadbackFails(size)
        /\ Return(c, "abandoned")
    BY <1>13 DEF CopyTensorFails, At
  <2>2. /\ CoreInv'
        /\ UNCHANGED <<fence_value, holder, readback_completed>>
    BY <2>1, ReadbackFailsStep DEF ReadbackFails
  <2>3. QED
    BY <2>1, <2>2, ReturnStep
<1>14. QED
  BY <1>4, <1>5, <1>6, <1>8, <1>9, <1>10, <1>11, <1>12, <1>13
     DEF CallerStep

LEMMA NextIInv == IInv /\ [Next]_vars => IInv'
<1> SUFFICES ASSUME IInv, [Next]_vars PROVE IInv'
  OBVIOUS
<1> USE DEF IInv
<1>1. ASSUME NEW c \in Callers, NEW n \in 1..MaxTensors,
             CopyDeviceTensorsToCPU(c, n)
      PROVE  IInv'
  BY <1>1, CopyDeviceTensorsToCPUStep
<1>2. ASSUME NEW c \in Callers, CallerStep(c) PROVE IInv'
  BY <1>2, CallerStepKeeps
<1>3. ASSUME EnvironmentStep, UNCHANGED <<call, buffer, asked>> PROVE IInv'
  <2>1. readback_completed \in Nat
    BY Types DEF CoreInv
  <2>2. /\ CoreInv' /\ UNCHANGED <<fence_value, holder>>
        /\ readback_completed <= readback_completed'
    <3>1. CASE OtherCommand
      BY <2>1, <3>1, OtherCommandStep DEF OtherCommand
    <3>2. CASE FireCallback
      BY <3>2, FireCallbackStep DEF FireCallback
    <3>3. CASE GpuSignals
      BY <2>1, <3>3, GpuSignalsStep DEF GpuSignals
    <3>4. CASE RecorderFails
      BY <2>1, <3>4, RecorderFailsStep DEF RecorderFails
    <3>5. CASE TrimHeap
      BY <2>1, <3>5, TrimHeapStep DEF TrimHeap
    <3>6. QED
      BY <1>3, <3>1, <3>2, <3>3, <3>4, <3>5 DEF EnvironmentStep
  <2>3. QED
    BY <1>3, <2>2, CallersFrame
<1>4. CASE UNCHANGED vars
  <2>1. UNCHANGED readbackVars /\ UNCHANGED <<call, buffer>>
    BY <1>4 DEF vars
  <2>2. /\ CoreInv' /\ UNCHANGED <<fence_value, holder, readback_completed>>
    BY <2>1, CoreFrame DEF readbackVars, streamVars
  <2>3. readback_completed <= readback_completed'
    BY <2>2, Types DEF CoreInv
  <2>4. QED
    BY <2>1, <2>2, <2>3, CallersFrame
<1>5. QED
  BY <1>1, <1>2, <1>3, <1>4 DEF Next

(* The inductive invariant of copies from the device: callbacks run in the   *)
(* order of the readbacks, and until its callback has run a readback has     *)
(* staging memory of its own.                                                *)
THEOREM Invariance == Spec => []IInv
<1>1. Init => IInv
  BY InitIInv
<1>2. IInv /\ [Next]_vars => IInv'
  BY NextIInv
<1>3. QED
  BY <1>1, <1>2, PTL DEF Spec

(* The assertions of DmlPooledHeap hold in the readback heap, which reclaims *)
(* by a fence that its callbacks signal and not the GPU.                     *)
THEOREM HeapAssertions == Spec => []HeapInv
<1>1. IInv => HeapInv
  <2> HAVE IInv
  <2>1. HeapTypeOK /\ AssertInvariants
    BY PoolSafety DEF IInv, CoreInv
  <2>2. fence_value \in Nat /\ call \in [Callers -> Calls]
    BY DEF IInv, CoreInv, TypeInv, CallsInv
  <2>3. ASSUME NEW c \in Callers
        PROVE  /\ call[c].pc \in {"idle", "copy", "enqueue", "sync", "wait"}
               /\ call[c].left \in 0..MaxTensors
               /\ call[c].copy_event \in 0..fence_value
    BY <2>2 DEF IInv, CallsInv, Calls
  <2>4. TypeOK
    BY <2>1, <2>3 DEF TypeOK, IInv, CoreInv, TypeInv, BuffersInv
  <2>5. QED
    BY <2>1, <2>4 DEF HeapInv
<1>2. QED
  BY <1>1, Invariance, PTL

(* When the event of a readback is signaled, the destination holds exactly   *)
(* what the source held: staging memory is never reused between the GPU's    *)
(* write and the callback's read, and the events are signaled in order.      *)
THEOREM SignaledFilled == Spec => []SignaledMeansFilled
<1>1. IInv => SignaledMeansFilled
  BY DEF IInv, CoreInv
<1>2. QED
  BY <1>1, Invariance, PTL

(* CopyDeviceTensorsToCPU, though it waits for the event of its last tensor  *)
(* only, has filled all of its buffers when it returns without an error.     *)
THEOREM ReturnedFilled == Spec => []ReturnedMeansFilled
<1>1. IInv => ReturnedMeansFilled
  <2> HAVE IInv
  <2>1. DOMAIN buffer = 1..fence_value /\ Readbacks = 1..fence_value
    BY LenProperties DEF IInv, BuffersInv, Readbacks
  <2>2. SUFFICES ASSUME NEW r \in 1..fence_value, buffer[r] = "returned"
                 PROVE  Filled(r)
    BY <2>1 DEF ReturnedMeansFilled
  <2>3. r <= readback_completed
    BY <2>1, <2>2 DEF IInv, BuffersInv
  <2>4. r \in 1..readback_completed
    BY <2>3 DEF IInv, CoreInv, TypeInv
  <2>5. QED
    BY <2>4 DEF IInv, CoreInv, SignaledMeansFilled
<1>2. QED
  BY <1>1, Invariance, PTL
=============================================================================

-------------------------- MODULE UploadHeap_proofs --------------------------
(***************************************************************************)
(* Staging memory of uploads is neither overwritten nor freed before the   *)
(* GPU has read it, for all sizes of uploads, alignments and chunk sizes.  *)
(***************************************************************************)
EXTENDS UploadHeap, PooledHeap_proofs

Regions == [resource : Nat, size : Nat \ {0}, offset : Nat]

TypeInv ==
    /\ issued \in Seq(1..MaxCommands)
    /\ executed \in Seq(1..MaxCommands)
    /\ signaled \in 0..MaxCommands
    /\ status \in {"OK", "ResourceExhausted"}
    /\ DOMAIN region \subseteq 1..Len(issued)
    /\ \A c \in DOMAIN region : region[c] \in Regions
    /\ \A u \in DOMAIN memory : memory[u] \in DOMAIN region

(* Events number groups of consecutive commands, and the commands with       *)
(* signaled events are the executed ones.                                    *)
StreamInv ==
    /\ Len(issued) <= MaxCommands
    /\ Len(executed) <= Len(issued)
    /\ \A i \in 1..Len(issued) :
          /\ issued[i] <= i
          /\ issued[i] <= signaled <=> i <= Len(executed)
    /\ \A i, j \in 1..Len(issued) : i <= j => issued[i] <= issued[j]

(* No allocation waits for an event that was not handed out.                 *)
DoneInv ==
    \A i \in 1..Len(chunks) : \A j \in 1..Len(chunks[i].allocations) :
        \E c \in 1..Len(issued) : chunks[i].allocations[j].done <= issued[c]

(* The allocation that the upload c has made.                                *)
AllocationOf(c) ==
    [size |-> region[c].size, done |-> issued[c], offset |-> region[c].offset]

(* Until the GPU has executed it, the heap has the allocation of an upload.  *)
RegionInv ==
    \A c \in Unread : Has(chunks, region[c].resource, AllocationOf(c))

MemoryInv ==
    \A c \in Unread : \A u \in Units(region[c]) :
        u \in DOMAIN memory /\ memory[u] = c

IInv == TypeInv /\ StreamInv /\ PoolInv /\ DoneInv /\ RegionInv /\ MemoryInv

-----------------------------------------------------------------------------
LEMMA DoneBound ==
    ASSUME DoneInv, NEW r, NEW b, Has(chunks, r, b)
    PROVE  \E c \in 1..Len(issued) : b.done <= issued[c]
<1>1. PICK i \in 1..Len(chunks) :
         \E j \in 1..Len(chunks[i].allocations) : chunks[i].allocations[j] = b
  BY DEF Has
<1>2. PICK j \in 1..Len(chunks[i].allocations) : chunks[i].allocations[j] = b
  BY <1>1
<1>3. \E c \in 1..Len(issued) : chunks[i].allocations[j].done <= issued[c]
  BY DEF DoneInv
<1>4. QED
  BY <1>2, <1>3

LEMMA InitIInv == Init => IInv
<1> HAVE Init
<1>1. /\ issued = << >> /\ executed = << >> /\ signaled = 0 /\ status = "OK"
      /\ region = << >> /\ memory = << >> /\ HeapInit
  BY DEF Init
<1>2. PoolInv
  BY <1>1, HeapInitPool
<1>3. /\ Len(issued) = 0 /\ Len(executed) = 0
      /\ DOMAIN region = {} /\ DOMAIN memory = {}
      /\ issued \in Seq(1..MaxCommands) /\ executed \in Seq(1..MaxCommands)
  BY <1>1, EmptySeq
<1>4. TypeInv /\ StreamInv
  BY <1>1, <1>3, MaxCommandsAssumption DEF TypeInv, StreamInv
<1>5. DoneInv
  BY <1>1 DEF DoneInv, HeapInit
<1>6. Unread = {}
  BY <1>3 DEF Unread
<1>7. QED
  BY <1>2, <1>4, <1>5, <1>6 DEF IInv, RegionInv, MemoryInv

(* A command gets an event that is not signaled and not before any other.    *)
LEMMA IssueStep ==
    ASSUME TypeInv, StreamInv, Len(issued) < MaxCommands, Stream!Issue
    PROVE  /\ issued' \in Seq(1..MaxCommands)
           /\ Len(issued') = Command
           /\ \A i \in 1..Len(issued) : issued'[i] = issued[i]
           /\ issued'[Command] \in Nat
           /\ \A i \in 1..Len(issued) : issued[i] <= issued'[Command]
           /\ executed' = executed /\ signaled' = signaled
           /\ StreamInv'
<1> DEFINE n == Len(issued)
<1>1. PICK e \in {Stream!LastEvent, Stream!LastEvent + 1} :
         e > signaled /\ issued' = Append(issued, e)
  BY DEF Stream!Issue
<1>2. executed' = executed /\ signaled' = signaled
  BY DEF Stream!Issue
<1>3. /\ n \in Nat /\ MaxCommands \in Nat /\ signaled \in Nat
      /\ Len(executed) \in Nat
      /\ \A i \in 1..n : issued[i] \in Nat
  BY MaxCommandsAssumption, LenProperties, ElementOfSeq DEF TypeInv
<1>4. /\ Stream!LastEvent \in Nat /\ Stream!LastEvent <= n
      /\ \A i \in 1..n : issued[i] <= Stream!LastEvent
  <2>1. CASE n = 0
    <3>1. issued = << >>
      BY <2>1, EmptySeq DEF TypeInv
    <3>2. QED
      BY <2>1, <3>1 DEF Stream!LastEvent
  <2>2. CASE n > 0
    <3>1. Stream!LastEvent = issued[n] /\ n \in 1..n
      BY <1>3, <2>2, EmptySeq DEF Stream!LastEvent, TypeInv
    <3>2. QED
      BY <1>3, <3>1 DEF StreamInv
  <2>3. QED
    BY <1>3, <2>1, <2>2
<1>5. /\ e \in 1..MaxCommands /\ e <= n + 1
      /\ \A i \in 1..n : issued[i] <= e
  BY <1>1, <1>3, <1>4
<1>6. /\ issued' \in Seq(1..MaxCommands) /\ Len(issued') = n + 1
      /\ issued'[n + 1] = e
      /\ \A i \in 1..n : issued'[i] = issued[i]
  BY <1>1, <1>5, AppendProperties DEF TypeInv
<1>7. StreamInv'
  <2>1. ASSUME NEW i \in 1..(n + 1)
        PROVE  /\ issued'[i] <= i
               /\ issued'[i] <= signaled <=> i <= Len(executed)
    <3>1. CASE i \in 1..n
      BY <1>6, <3>1 DEF StreamInv
    <3>2. CASE i = n + 1
      BY <1>1, <1>3, <1>5, <1>6, <3>2 DEF StreamInv
    <3>3. QED
      BY <1>3, <3>1, <3>2
  <2>2. ASSUME NEW i \in 1..(n + 1), NEW j \in 1..(n + 1), i <= j
        PROVE  issued'[i] <= issued'[j]
    <3>1. CASE j = n + 1
      <4>1. i = n + 1 \/ i \in 1..n
        BY <1>3
      <4>2. QED
        BY <1>5, <1>6, <3>1, <4>1
    <3>2. CASE j # n + 1
      <4>1. j \in 1..n /\ i \in 1..n
        BY <1>3, <2>2, <3>2
      <4>2. QED
        BY <1>6, <2>2, <4>1 DEF StreamInv
    <3>3. QED
      BY <3>1, <3>2
  <2>3. Len(issued') <= MaxCommands /\ Len(executed') <= Len(issued')
    BY <1>2, <1>3, <1>6 DEF StreamInv
  <2>4. QED
    BY <1>2, <1>6, <2>1, <2>2, <2>3 DEF StreamInv
<1>8. QED
  BY <1>2, <1>5, <1>6, <1>7 DEF Command

(* What of the invariant depends on the stream is kept while it only grows.  *)
LEMMA OtherCommandStep ==
    ASSUME IInv, OtherCommand
    PROVE  IInv'
<1> USE DEF IInv
<1>1. /\ Len(issued) < MaxCommands /\ Stream!Issue
      /\ UNCHANGED <<heapVars, status, region, memory>>
  BY DEF OtherCommand
<1>2. /\ issued' \in Seq(1..MaxCommands)
      /\ Len(issued') = Command
      /\ \A i \in 1..Len(issued) : issued'[i] = issued[i]
      /\ executed' = executed /\ signaled' = signaled
      /\ StreamInv'
  BY <1>1, IssueStep
<1>3. Len(issued) \in Nat /\ Len(issued') = Len(issued) + 1
  BY <1>2, LenProperties DEF TypeInv, Command
<1>4. \A i \in 1..Len(issued) : i \in 1..Len(issued')
  BY <1>3
<1>5. /\ region' = region /\ memory' = memory /\ status' = status
      /\ chunks' = chunks /\ resources' = resources
      /\ total_capacity' = total_capacity
  BY <1>1 DEF heapVars
<1>6. TypeInv'
  BY <1>2, <1>4, <1>5 DEF TypeInv
<1>7. PoolInv'
  BY <1>5 DEF PoolInv
<1>8. DoneInv'
  BY <1>2, <1>4, <1>5 DEF DoneInv
<1>9. Unread' = Unread
  BY <1>2, <1>5 DEF Unread
<1>10. RegionInv'
  <2> SUFFICES ASSUME NEW c \in Unread
               PROVE  Has(chunks', region'[c].resource, AllocationOf(c)')
    BY <1>9 DEF RegionInv
  <2>1. c \in 1..Len(issued)
    BY DEF Unread, TypeInv
  <2>2. AllocationOf(c)' = AllocationOf(c)
    BY <1>2, <1>5, <2>1 DEF AllocationOf
  <2>3. QED
    BY <1>5, <2>2 DEF RegionInv
<1>11. MemoryInv'
  BY <1>5, <1>9 DEF MemoryInv, Units
<1>12. QED
  BY <1>2, <1>6, <1>7, <1>8, <1>10, <1>11

LEMMA GpuSignalsStep ==
    ASSUME IInv, GpuSignals
    PROVE  IInv'
<1> USE DEF IInv
<1>1. PICK n \in (Len(executed) + 1)..Len(issued) :
         /\ \A i \in 1..Len(issued) : issued[i] <= signaled + 1 <=> i <= n
         /\ executed' = [i \in 1..n |-> i]
  BY DEF GpuSignals, Stream!Signal
<1>2. /\ signaled' = signaled + 1 /\ issued' = issued
      /\ region' = region /\ memory' = memory /\ status' = status
      /\ chunks' = chunks /\ resources' = resources
      /\ total_capacity' = total_capacity
  BY DEF GpuSignals, Stream!Signal, heapVars
<1>3. /\ Len(issued) \in Nat /\ Len(executed) \in Nat /\ signaled \in Nat
      /\ MaxCommands \in Nat
      /\ \A i \in 1..Len(issued) : issued[i] \in 1..MaxCommands
  BY MaxCommandsAssumption, LenProperties, ElementOfSeq DEF TypeInv
<1>4. n \in 1..Len(issued) /\ n > Len(executed) /\ n \in Nat
      /\ n <= MaxCommands
  BY <1>1, <1>3 DEF StreamInv
<1>5. executed' \in Seq(1..MaxCommands) /\ Len(executed') = n
  <2>1. executed' \in [1..n -> 1..MaxCommands]
    BY <1>1, <1>3, <1>4
  <2>2. QED
    BY <1>4, <2>1, FunctionIsSeq
<1>6. signaled' \in 0..MaxCommands
  <2>1. issued[n] <= signaled + 1 /\ ~(issued[n] <= signaled)
    BY <1>1, <1>3, <1>4 DEF StreamInv
  <2>2. QED
    BY <1>2, <1>3, <1>4, <2>1
<1>7. TypeInv'
  BY <1>2, <1>5, <1>6 DEF TypeInv
<1>8. StreamInv'
  BY <1>1, <1>2, <1>4, <1>5 DEF StreamInv
<1>9. PoolInv' /\ DoneInv'
  BY <1>2 DEF PoolInv, DoneInv
<1>10. \A c \in Unread' : c \in Unread
  <2> TAKE c \in Unread'
  <2>1. c \in DOMAIN region /\ c > n
    BY <1>2, <1>5 DEF Unread
  <2>2. c \in Nat
    BY <1>3, <2>1 DEF TypeInv
  <2>3. QED
    BY <1>3, <1>4, <2>1, <2>2 DEF Unread
<1>11. RegionInv'
  BY <1>2, <1>10 DEF RegionInv, AllocationOf
<1>12. MemoryInv'
  BY <1>2, <1>10 DEF MemoryInv, Units
<1>13. QED
  BY <1>7, <1>8, <1>9, <1>11, <1>12

LEMMA UnreadEvent ==
    ASSUME TypeInv, StreamInv, NEW c \in Unread
    PROVE  c \in 1..Len(issued) /\ issued[c] > signaled
<1>1. /\ c \in 1..Len(issued) /\ c > Len(executed)
      /\ Len(executed) \in Nat /\ signaled \in Nat /\ issued[c] \in Nat
  BY MaxCommandsAssumption, LenProperties, ElementOfSeq DEF Unread, TypeInv
<1>2. ~(issued[c] <= signaled)
  BY <1>1 DEF StreamInv
<1>3. QED
  BY <1>1, <1>2

(* Reclaiming keeps the invariant: an upload that is not executed has an     *)
(* event that is not signaled.                                               *)
LEMMA ReclaimStep ==
    ASSUME IInv, PoolInv', UNCHANGED <<streamVars, status, region, memory>>,
           \A r, b : Has(chunks, r, b) /\ b.done > signaled =>
              Has(chunks', r, b),
           \A r, b : Has(chunks', r, b) => Has(chunks, r, b)
    PROVE  IInv'
<1> USE DEF IInv
<1>1. /\ issued' = issued /\ executed' = executed /\ signaled' = signaled
      /\ status' = status /\ region' = region /\ memory' = memory
  BY DEF streamVars
<1>2. TypeInv' /\ StreamInv'
  BY <1>1 DEF TypeInv, StreamInv
<1>3. Unread' = Unread
  BY <1>1 DEF Unread
<1>4. MemoryInv'
  BY <1>1, <1>3 DEF MemoryInv, Units
<1>5. DoneInv'
  <2> SUFFICES ASSUME NEW i \in 1..Len(chunks'),
                      NEW j \in 1..Len(chunks'[i].allocations)
               PROVE  \E c \in 1..Len(issued) :
                         chunks'[i].allocations[j].done <= issued[c]
    BY <1>1 DEF DoneInv
  <2>1. Has(chunks', chunks'[i].resource, chunks'[i].allocations[j])
    BY DEF Has
  <2>2. Has(chunks, chunks'[i].resource, chunks'[i].allocations[j])
    BY <2>1
  <2>3. QED
    BY <2>2, DoneBound
<1>6. RegionInv'
  <2> SUFFICES ASSUME NEW c \in Unread
               PROVE  Has(chunks', region'[c].resource, AllocationOf(c)')
    BY <1>3 DEF RegionInv
  <2>1. AllocationOf(c)' = AllocationOf(c)
    BY <1>1 DEF AllocationOf
  <2>2. AllocationOf(c).done > signaled
    BY UnreadEvent DEF AllocationOf
  <2>3. Has(chunks, region[c].resource, AllocationOf(c))
    BY DEF RegionInv
  <2>4. QED
    BY <1>1, <2>1, <2>2, <2>3
<1>7. QED
  BY <1>2, <1>4, <1>5, <1>6

LEMMA TrimHeapStep ==
    ASSUME IInv, TrimHeap
    PROVE  IInv'
<1>1. PICK s \in Nat : s = signaled
  BY MaxCommandsAssumption DEF IInv, TypeInv
<1>2. Trim(s) /\ UNCHANGED <<streamVars, status, region, memory>>
  BY <1>1 DEF TrimHeap
<1>3. /\ PoolInv'
      /\ \A r, b : Has(chunks, r, b) /\ b.done > s => Has(chunks', r, b)
      /\ \A r, b : Has(chunks', r, b) => Has(chunks, r, b)
  BY <1>2, TrimStep DEF IInv
<1>4. QED
  BY <1>1, <1>2, <1>3, ReclaimStep

LEMMA UploadFailsStep ==
    ASSUME IInv, NEW size \in Sizes, UploadFails(size)
    PROVE  IInv'
<1>1. PICK s \in Nat : s = signaled
  BY MaxCommandsAssumption DEF IInv, TypeInv
<1>2. /\ ReserveFails(ReclaimAllocations(s), size)
      /\ UNCHANGED <<streamVars, status, region, memory>>
  BY <1>1 DEF UploadFails
<1>3. /\ PoolInv'
      /\ \A r, b : Has(chunks, r, b) /\ b.done > s => Has(chunks', r, b)
      /\ \A r, b : Has(chunks', r, b) => Has(chunks, r, b)
  BY <1>2, ReserveFailsStep DEF IInv
<1>4. QED
  BY <1>1, <1>2, <1>3, ReclaimStep

(* Regions that are disjoint in a resource have no unit in common.           *)
LEMMA DisjointUnits ==
    ASSUME NEW g \in Regions, NEW h \in Regions,
           g.resource = h.resource =>
              \/ g.offset + g.size <= h.offset
              \/ h.offset + h.size <= g.offset
    PROVE  Units(g) \cap Units(h) = {}
<1> SUFFICES ASSUME NEW u, u \in Units(g), u \in Units(h) PROVE FALSE
  OBVIOUS
<1>1. PICK x \in g.offset..(g.offset + g.size - 1) : u = <<g.resource, x>>
  BY DEF Units
<1>2. PICK y \in h.offset..(h.offset + h.size - 1) : u = <<h.resource, y>>
  BY DEF Units
<1>3. x = y /\ g.resource = h.resource
  BY <1>1, <1>2
<1>4. /\ g.offset \in Nat /\ g.size \in Nat
      /\ h.offset \in Nat /\ h.size \in Nat
  BY DEF Regions
<1>5. QED
  BY <1>3, <1>4

LEMMA BeginUploadStep ==
    ASSUME IInv, NEW size \in Sizes, BeginUploadToGpu(size)
    PROVE  IInv'
<1> USE DEF IInv
<1> DEFINE n == Len(issued)
<1>1. PICK s \in Nat : s = signaled
  BY MaxCommandsAssumption DEF TypeInv
<1>2. /\ Len(issued) < MaxCommands /\ Stream!Issue /\ status' = status
      /\ Allocate(ReclaimAllocations(s), size, issued'[Command])
      /\ WriteStaging(Region(ReclaimAllocations(s), size))
  BY <1>1 DEF BeginUploadToGpu, DoneEvent
<1>3. /\ issued' \in Seq(1..MaxCommands)
      /\ Len(issued') = Command
      /\ \A i \in 1..Len(issued) : issued'[i] = issued[i]
      /\ issued'[Command] \in Nat
      /\ \A i \in 1..Len(issued) : issued[i] <= issued'[Command]
      /\ executed' = executed /\ signaled' = signaled
      /\ StreamInv'
  BY <1>2, IssueStep
<1>4. PICK e \in Nat : e = issued'[Command]
  BY <1>3
<1>5. Allocate(ReclaimAllocations(s), size, e)
  BY <1>2, <1>4
<1>6. PICK g : g = Region(ReclaimAllocations(s), size)
  OBVIOUS
<1> DEFINE a == [size |-> size, done |-> e, offset |-> g.offset]
<1>7. size \in Nat \ {0} /\ n \in Nat /\ Command = n + 1
      /\ \A i \in 1..n : issued[i] \in Nat
  <2>1. size \in Nat \ {0}
    BY SizesAssumption
  <2>2. n \in Nat /\ \A i \in 1..n : issued[i] \in 1..MaxCommands
    BY LenProperties, ElementOfSeq DEF TypeInv
  <2>3. QED
    BY <2>1, <2>2 DEF Command
<1>8. \A r, b : Has(chunks, r, b) => b.done <= e
  <2> SUFFICES ASSUME NEW r, NEW b, Has(chunks, r, b) PROVE b.done <= e
    OBVIOUS
  <2>1. PICK c \in 1..n : b.done <= issued[c]
    BY DoneBound
  <2>2. issued[c] <= e /\ issued[c] \in Nat
    BY <1>3, <1>4, <1>7
  <2>3. b.done \in Nat
    BY HasTypes DEF PoolInv, PoolOK
  <2>4. QED
    BY <2>1, <2>2, <2>3
<1>9. /\ PoolInv'
      /\ g = [resource |-> g.resource, size |-> size, offset |-> g.offset]
      /\ g.resource \in Nat /\ g.offset \in Nat
      /\ Has(chunks', g.resource, a)
      /\ \A r, b : Has(chunks, r, b) /\ b.done > s =>
            /\ Has(chunks', r, b)
            /\ r = g.resource => Disjoint(b, a)
      /\ \A r, b : Has(chunks', r, b) => Has(chunks, r, b) \/ b = a
  BY <1>5, <1>6, <1>7, <1>8, AllocateStep
<1>10. g \in Regions /\ g.size = size
  BY <1>7, <1>9 DEF Regions
<1>11. /\ region' = [c \in DOMAIN region \cup {Command} |->
                        IF c = Command THEN g ELSE region[c]]
       /\ memory' = [u \in DOMAIN memory \cup Units(g) |->
                        IF u \in Units(g) THEN Command ELSE memory[u]]
  BY <1>2, <1>6 DEF WriteStaging
<1>12. /\ DOMAIN region' = DOMAIN region \cup {Command}
       /\ region'[Command] = g
       /\ \A c \in DOMAIN region : c # Command => region'[c] = region[c]
  BY <1>11
<1>13. /\ DOMAIN memory' = DOMAIN memory \cup Units(g)
       /\ \A u \in Units(g) : memory'[u] = Command
       /\ \A u \in DOMAIN memory : u \notin Units(g) => memory'[u] = memory[u]
  BY <1>11
<1>14. \A c \in DOMAIN region : c \in 1..n /\ c # Command /\ c \in 1..(n + 1)
  BY <1>7 DEF TypeInv
<1>15. TypeInv'
  <2>1. DOMAIN region' \subseteq 1..Len(issued')
    BY <1>3, <1>7, <1>12, <1>14
  <2>2. \A c \in DOMAIN region' : region'[c] \in Regions
    BY <1>10, <1>12, <1>14 DEF TypeInv
  <2>3. \A u \in DOMAIN memory' : memory'[u] \in DOMAIN region'
    BY <1>12, <1>13 DEF TypeInv
  <2>4. QED
    BY <1>2, <1>3, <2>1, <2>2, <2>3 DEF TypeInv
<1>16. \A c \in Unread' : c = Command \/ c \in Unread
  BY <1>3, <1>12 DEF Unread
<1>17. DoneInv'
  <2> SUFFICES ASSUME NEW i \in 1..Len(chunks'),
                      NEW j \in 1..Len(chunks'[i].allocations)
               PROVE  \E c \in 1..Len(issued') :
                         chunks'[i].allocations[j].done <= issued'[c]
    BY DEF DoneInv
  <2> DEFINE b == chunks'[i].allocations[j]
  <2>1. Has(chunks', chunks'[i].resource, b)
    BY DEF Has
  <2>2. CASE b = a
    <3>1. b.done = e /\ e <= e
      BY <2>2
    <3>2. Command \in 1..Len(issued') /\ issued'[Command] = e
      BY <1>3, <1>4, <1>7
    <3>3. QED
      BY <3>1, <3>2
  <2>3. CASE Has(chunks, chunks'[i].resource, b)
    <3>1. PICK c \in 1..n : b.done <= issued[c]
      BY <2>3, DoneBound
    <3>2. c \in 1..Len(issued') /\ issued'[c] = issued[c]
      BY <1>3, <1>7
    <3>3. QED
      BY <3>1, <3>2
  <2>4. QED
    BY <1>9, <2>1, <2>2, <2>3
<1>18. ASSUME NEW c \in Unread
       PROVE  /\ c \in 1..n /\ region'[c] = region[c]
              /\ AllocationOf(c)' = AllocationOf(c)
              /\ AllocationOf(c).done > s
              /\ Has(chunks, region[c].resource, AllocationOf(c))
              /\ region[c] \in Regions
  <2>1. c \in DOMAIN region /\ c \in 1..n /\ issued[c] > s
    BY <1>1, UnreadEvent DEF Unread
  <2>2. region'[c] = region[c] /\ issued'[c] = issued[c]
    BY <1>3, <1>12, <1>14, <2>1
  <2>3. QED
    BY <2>1, <2>2 DEF AllocationOf, RegionInv, TypeInv
<1>19. RegionInv'
  <2> SUFFICES ASSUME NEW c \in Unread'
               PROVE  Has(chunks', region'[c].resource, AllocationOf(c)')
    BY DEF RegionInv
  <2>1. CASE c = Command
    <3>1. AllocationOf(c)' = a /\ region'[c].resource = g.resource
      BY <1>4, <1>10, <1>12, <2>1 DEF AllocationOf
    <3>2. QED
      BY <1>9, <3>1
  <2>2. CASE c \in Unread
    BY <1>9, <1>18, <2>2
  <2>3. QED
    BY <1>16, <2>1, <2>2
<1>20. MemoryInv'
  <2> SUFFICES ASSUME NEW c \in Unread', NEW u \in Units(region'[c])
               PROVE  u \in DOMAIN memory' /\ memory'[u] = c
    BY DEF MemoryInv, Units
  <2>1. CASE c = Command
    BY <1>12, <1>13, <2>1
  <2>2. CASE c \in Unread
    <3>1. u \in DOMAIN memory /\ memory[u] = c /\ u \in Units(region[c])
      BY <1>18, <2>2 DEF MemoryInv
    <3>2. region[c].resource = g.resource => Disjoint(AllocationOf(c), a)
      BY <1>9, <1>18, <2>2
    <3>3. region[c].resource = g.resource =>
             \/ region[c].offset + region[c].size <= g.offset
             \/ g.offset + g.size <= region[c].offset
      BY <1>10, <3>2 DEF Disjoint, AllocationOf
    <3>4. u \notin Units(g)
      BY <1>10, <1>18, <2>2, <3>1, <3>3, DisjointUnits
    <3>5. QED
      BY <1>13, <3>1, <3>4
  <2>3. QED
    BY <1>16, <2>1, <2>2
<1>21. QED
  BY <1>3, <1>9, <1>15, <1>17, <1>19, <1>20

LEMMA NextIInv == IInv /\ [Next]_vars => IInv'
<1> SUFFICES ASSUME IInv, [Next]_vars PROVE IInv'
  OBVIOUS
<1>1. ASSUME NEW size \in Sizes, BeginUploadToGpu(size) PROVE IInv'
  BY <1>1, BeginUploadStep
<1>2. ASSUME NEW size \in Sizes, UploadFails(size) PROVE IInv'
  BY <1>2, UploadFailsStep
<1>3. CASE TrimHeap
  BY <1>3, TrimHeapStep
<1>4. CASE OtherCommand
  BY <1>4, OtherCommandStep
<1>5. CASE GpuSignals
  BY <1>5, GpuSignalsStep
<1>6. CASE RecorderFails
  <2>1. /\ issued' = issued /\ executed' = executed /\ signaled' = signaled
        /\ region' = region /\ memory' = memory /\ chunks' = chunks
        /\ resources' = resources /\ total_capacity' = total_capacity
        /\ status' \in {"OK", "ResourceExhausted"}
    BY <1>6 DEF RecorderFails, heapVars, streamVars
  <2>2. Unread' = Unread
    BY <2>1 DEF Unread
  <2>3. TypeInv' /\ StreamInv' /\ PoolInv' /\ DoneInv'
    BY <2>1 DEF IInv, TypeInv, StreamInv, PoolInv, DoneInv
  <2>4. RegionInv' /\ MemoryInv'
    BY <2>1, <2>2 DEF IInv, RegionInv, MemoryInv, Units, AllocationOf
  <2>5. QED
    BY <2>3, <2>4 DEF IInv
<1>7. CASE UNCHANGED vars
  <2>1. /\ issued' = issued /\ executed' = executed /\ signaled' = signaled
        /\ region' = region /\ memory' = memory /\ chunks' = chunks
        /\ resources' = resources /\ total_capacity' = total_capacity
        /\ status' = status
    BY <1>7 DEF vars, heapVars, streamVars
  <2>2. Unread' = Unread
    BY <2>1 DEF Unread
  <2>3. TypeInv' /\ StreamInv' /\ PoolInv' /\ DoneInv'
    BY <2>1 DEF IInv, TypeInv, StreamInv, PoolInv, DoneInv
  <2>4. RegionInv' /\ MemoryInv'
    BY <2>1, <2>2 DEF IInv, RegionInv, MemoryInv, Units, AllocationOf
  <2>5. QED
    BY <2>3, <2>4 DEF IInv
<1>8. QED
  BY <1>1, <1>2, <1>3, <1>4, <1>5, <1>6, <1>7 DEF Next

(* Every allocation of an upload that the GPU has not executed stays in the  *)
(* ring, whatever is reclaimed, trimmed or allocated: the inductive          *)
(* invariant of DmlUploadHeap.                                               *)
THEOREM Invariance == Spec => []IInv
<1>1. Init => IInv
  BY InitIInv
<1>2. IInv /\ [Next]_vars => IInv'
  BY NextIInv
<1>3. QED
  BY <1>1, <1>2, PTL DEF Spec

(* The assertions that debug builds make on entry to and exit from every     *)
(* operation of DmlPooledHeap hold: in particular, allocations are within    *)
(* their chunk, aligned and disjoint, however the ring has wrapped around.   *)
THEOREM HeapAssertions == Spec => []HeapInv
<1>1. IInv => HeapInv
  <2> HAVE IInv
  <2>1. HeapTypeOK /\ AssertInvariants
    BY PoolSafety DEF IInv
  <2>2. DOMAIN issued = 1..Len(issued)
    BY LenProperties DEF IInv, TypeInv
  <2>3. TypeOK
    BY <2>1, <2>2 DEF TypeOK, IInv, TypeInv
  <2>4. QED
    BY <2>1, <2>3 DEF HeapInv
<1>2. QED
  BY <1>1, Invariance, PTL

(* BeginUploadToGpu never writes to staging memory from which the GPU has    *)
(* yet to copy.                                                              *)
THEOREM UploadsIntact == Spec => []StagingIntact
<1>1. IInv => StagingIntact
  BY DEF IInv, MemoryInv, StagingIntact
<1>2. QED
  BY <1>1, Invariance, PTL

(* Trim never releases a resource from which the GPU has yet to copy.        *)
THEOREM UploadsAlive == Spec => []StagingAlive
<1>1. IInv => StagingAlive
  <2> HAVE IInv
  <2>1. DOMAIN chunks = 1..Len(chunks)
    BY ChunkFields DEF IInv, PoolInv, PoolOK
  <2>2. QED
    BY <2>1 DEF IInv, RegionInv, Has, StagingAlive
<1>2. QED
  BY <1>1, Invariance, PTL
=============================================================================

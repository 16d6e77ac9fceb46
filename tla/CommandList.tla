----------------------------- MODULE CommandList -----------------------------
(***************************************************************************)
(* DmlCommandList with its ring of command allocators and its descriptor   *)
(* pool, as the execution thread drives it: open, record, close, execute.  *)
(*                                                                         *)
(* Copies and barriers are recorded without changing any state of the      *)
(* wrapper; what matters of the other commands is the descriptor heap that *)
(* is set on the list and the descriptors that the GPU will read.          *)
(***************************************************************************)
EXTENDS CommandQueue, Integers, FiniteSets

CONSTANTS
    AllocatorCount, \* allocator_count, 2 in DmlCommandList
    HeapCapacity,   \* initial_heap_capacity_ of the pool
    OpHeaps,        \* descriptor heaps that operators are bound with
    MaxRecorded,    \* bound: commands recorded in one list
    MaxLists        \* bound: lists opened in a behaviour

ASSUME AllocatorCountAssumption == AllocatorCount \in Nat \ {0, 1}
ASSUME HeapCapacityAssumption == HeapCapacity \in Nat \ {0}
ASSUME BoundsAssumption == MaxRecorded \in Nat /\ MaxLists \in Nat

VARIABLES
    state,                      \* of the list: "closed", "open" ...
    \* DmlCommandAllocatorRing
    completion_event, current_command_allocator,
    \* DmlDescriptorPool
    heaps,                      \* heaps_, each [shader_visible, size, event]
    \* DmlCommandList
    current_descriptor_heap,
    entries,                    \* the commands in the list
    \* external: the D3D12 command list and allocators
    bound_heap,                 \* the heap set on the D3D12 list
    allocator,                  \* the allocator the list records into
    opened                      \* history: lists opened

ringVars == <<completion_event, current_command_allocator>>
listVars == <<state, current_descriptor_heap, entries, bound_heap,
              allocator, opened>>
allVars == <<queueVars, ringVars, heaps, listVars>>

Null == 0       \* nullptr; the heaps of the pool are numbered from 1
NoFence == -1   \* a DmlGpuEvent that has no fence
Allocators == 0..(AllocatorCount - 1)

CreateHeap(hs, shader_visible) ==
    Append(hs, [shader_visible |-> shader_visible, size |-> 0,
                event |-> NoFence])

ListInit ==
    /\ QueueInit
    /\ state = "closed"
    /\ completion_event = [a \in Allocators |-> GetCurrentCompletionEvent]
    /\ current_command_allocator = 0
    /\ heaps = CreateHeap(<< >>, TRUE)
    /\ current_descriptor_heap = Null
    /\ entries = << >>
    /\ bound_heap = Null
    /\ allocator = 0
    /\ opened = 0

-----------------------------------------------------------------------------
(* DmlCommandAllocatorRing *)

(* Mutant: the other allocator is taken whether or not it is in use. *)
AlternateAllocator == (current_command_allocator + 1) % AllocatorCount

(* The other allocator is reset and used if the GPU is done with it;         *)
(* otherwise the current one goes on growing.                                *)
NextAllocator ==
    LET other == (current_command_allocator + 1) % AllocatorCount
    IN  IF IsSignaled(completion_event[other]) THEN other
        ELSE current_command_allocator

(* Mutant: the event of the list submitted last. *)
CurrentCompletion == GetCurrentCompletionEvent

(* The event the list that is opened will signal. *)
NextCompletion == GetNextCompletionEvent

GetNextAllocator ==
    /\ current_command_allocator' = NextAllocator
    /\ completion_event' = [completion_event EXCEPT
                               ![NextAllocator] = NextCompletion]
    /\ allocator' = NextAllocator

Open ==
    /\ state = "closed"
    /\ opened < MaxLists
    /\ GetNextAllocator
    /\ state' = "open"
    /\ entries' = << >>
    /\ bound_heap' = Null
    /\ opened' = opened + 1
    /\ UNCHANGED <<queueVars, heaps, current_descriptor_heap>>

-----------------------------------------------------------------------------
(* DmlDescriptorPool *)

(* Mutant: the event of the list submitted last. *)
LastListEvent == GetCurrentCompletionEvent

(* current_completion_event_, which the command list passes for the          *)
(* descriptors it takes: it is never given a fence.                          *)
DescriptorEvent == NoFence

(* The descriptors of a heap that count as taken: none when the event given  *)
(* with the latest ones is signaled.                                         *)
SizeNow(heap) ==
    IF heap.event # NoFence /\ IsSignaled(heap.event) THEN 0 ELSE heap.size

(* TryAllocDescriptors of one descriptor finds space in heap h. *)
TryAllocDescriptors(hs, h, shader_visible) ==
    hs[h].shader_visible = shader_visible /\ SizeNow(hs[h]) < HeapCapacity

HeapsWithSpace(hs, shader_visible) ==
    {h \in DOMAIN hs : TryAllocDescriptors(hs, h, shader_visible)}

(* The heaps among which AllocDescriptors finds space. *)
Prepared(hs, shader_visible) ==
    IF HeapsWithSpace(hs, shader_visible) = {}
    THEN CreateHeap(hs, shader_visible) ELSE hs

(* The first heap with space, and the descriptor at its end. *)
AllocDescriptors(hs, shader_visible) ==
    LET ps == Prepared(hs, shader_visible)
        h  == CHOOSE h \in HeapsWithSpace(ps, shader_visible) :
                 \A g \in HeapsWithSpace(ps, shader_visible) : h <= g
    IN  [heaps |-> [ps EXCEPT ![h].size = SizeNow(ps[h]) + 1,
                              ![h].event = DescriptorEvent],
         slot  |-> [heap |-> h, index |-> SizeNow(ps[h]) + 1]]

-----------------------------------------------------------------------------
(* Recording *)

(* SetDescriptorHeap: the heap is set only when it is not the one set last. *)
SetDescriptorHeap(heap) ==
    IF heap # Null /\ heap # current_descriptor_heap
    THEN current_descriptor_heap' = heap /\ bound_heap' = heap
    ELSE UNCHANGED <<current_descriptor_heap, bound_heap>>

(* A command that reads the given descriptors through the given heap. *)
Record(heap, slots) ==
    /\ state = "open"
    /\ Len(entries) < MaxRecorded
    /\ SetDescriptorHeap(heap)
    /\ entries' = Append(entries, [wants     |-> heap,
                                   bound     |-> bound_heap',
                                   slots     |-> slots,
                                   allocator |-> allocator])
    /\ UNCHANGED <<queueVars, ringVars, state, allocator, opened>>

(* InitializeOperator and ExecuteOperator; an operator may need no heap. *)
Dispatch(heap) ==
    /\ Record(heap, {})
    /\ UNCHANGED heaps

(* A descriptor of each kind is taken from the pool. *)
FillBufferWithPattern ==
    LET cpu == AllocDescriptors(heaps, FALSE)
        gpu == AllocDescriptors(cpu.heaps, TRUE)
    IN  /\ Record(gpu.slot.heap, {cpu.slot, gpu.slot})
        /\ heaps' = gpu.heaps

(* Mutant: the heap that was set is remembered for the next list. *)
KeepDescriptorHeap == UNCHANGED current_descriptor_heap

(* The heap must be set again when the list is opened the next time. *)
ForgetDescriptorHeap == current_descriptor_heap' = Null

Close ==
    /\ state = "open"
    /\ state' = "recorded"
    /\ ForgetDescriptorHeap
    /\ UNCHANGED <<queueVars, ringVars, heaps, entries, bound_heap, allocator,
                   opened>>

(* Close reports that the driver is out of memory; the thread stops. *)
CloseOutOfMemory ==
    /\ state = "open"
    /\ state' = "failed"
    /\ UNCHANGED <<queueVars, ringVars, heaps, current_descriptor_heap,
                   entries, bound_heap, allocator, opened>>

(* The thread gives the list to the queue; only then is it opened again. *)
Execute ==
    /\ state = "recorded"
    /\ ExecuteCommandLists(entries)
    /\ state' = "closed"
    /\ UNCHANGED <<ringVars, heaps, current_descriptor_heap, entries,
                   bound_heap, allocator, opened>>

Gpu ==
    /\ GpuCompletes
    /\ UNCHANGED <<ringVars, heaps, listVars>>

ListNext ==
    \/ Open
    \/ \E heap \in OpHeaps \cup {Null} : Dispatch(heap)
    \/ FillBufferWithPattern
    \/ Close
    \/ CloseOutOfMemory
    \/ Execute
    \/ Gpu

ListSpec == ListInit /\ [][ListNext]_allVars

-----------------------------------------------------------------------------
(* The lists the GPU has not finished. *)
InFlight == {in_flight[k].commands : k \in DOMAIN in_flight}

(* The descriptors that the open list or the GPU will still read. *)
Used(commands) == UNION {commands[i].slots : i \in DOMAIN commands}
UsedByGpu == UNION {Used(commands) : commands \in InFlight}
UsedByList == IF state = "closed" THEN {} ELSE Used(entries)

ListTypeOK ==
    /\ state \in {"closed", "open", "recorded", "failed"}
    /\ completion_event \in [Allocators -> Nat]
    /\ current_command_allocator \in Allocators
    /\ allocator \in Allocators
    /\ current_descriptor_heap \in OpHeaps \cup {Null} \cup DOMAIN heaps
    /\ bound_heap \in OpHeaps \cup {Null} \cup DOMAIN heaps
    /\ opened \in 0..MaxLists
    /\ \A h \in DOMAIN heaps : heaps[h].size \in 0..HeapCapacity

(* The ring's events cover everything recorded into an allocator: the events *)
(* of allocators other than the current one are older, and the assertion in  *)
(* GetNextAllocator holds.                                                   *)
RingInv ==
    /\ ListTypeOK
    /\ \A k \in DOMAIN in_flight : \A i \in DOMAIN in_flight[k].commands :
          completion_event[in_flight[k].commands[i].allocator]
              >= in_flight[k].signal
    /\ state = "closed" => LET other == (current_command_allocator + 1)
                                            % AllocatorCount
                           IN  \/ ~IsSignaled(completion_event
                                                  [current_command_allocator])
                               \/ IsSignaled(completion_event[other])

(* An allocator is reset only when the GPU has finished every list recorded  *)
(* into it: D3D12 frees the memory of those commands.                        *)
NoResetInUse ==
    [][Open /\ current_command_allocator' # current_command_allocator
          => \A commands \in InFlight : \A i \in DOMAIN commands :
                commands[i].allocator # current_command_allocator']_allVars

(* Whatever the cached pointer saved, each dispatch finds its own descriptor *)
(* heap set on the D3D12 list.                                               *)
HeapIsBound ==
    \A i \in DOMAIN entries :
        entries[i].wants # Null => entries[i].bound = entries[i].wants

(* A descriptor that is written for a fill is not one that an earlier        *)
(* command, recorded or in flight, still reads.                              *)
DescriptorsNotReused ==
    [][FillBufferWithPattern =>
          entries'[Len(entries')].slots \cap (UsedByGpu \cup UsedByList)
              = {}]_allVars

(* "If the most recent completion event is signaled, then all previous       *)
(* allocations have completed; the entire capacity is available to use."     *)
(* The pool grows only while descriptors of some heap are in use.            *)
HeapsAreRecycled ==
    [][Len(heaps') > Len(heaps) /\ HeapsWithSpace(heaps, TRUE) = {} =>
          \E slot \in UsedByGpu \cup UsedByList :
              heaps[slot.heap].shader_visible]_allVars
=============================================================================

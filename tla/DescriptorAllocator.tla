------------------------- MODULE DescriptorAllocator -------------------------
(***************************************************************************)
(* Descriptors for kernels: DmlKernel::Compute allocates a range from      *)
(* DmlDescriptorAllocator (a BFCAllocator over descriptor heaps, with      *)
(* AllocatorRetry around it), binds it, submits the work, and enqueues a   *)
(* callback that releases the range once the GPU is done.                  *)
(*                                                                         *)
(* Three locks meet here: lock_ of the allocator, held over the            *)
(* sub-allocator's calls; mu_ of the retry helper; and the event queue's   *)
(* mutex, held while callbacks run, and with it while a callback waits for *)
(* lock_.  mu_ is never held over a step of the model.                     *)
(***************************************************************************)
EXTENDS BFCAllocator, FiniteSets

CONSTANTS
    Threads,            \* threads that compute kernels
    Sizes,              \* RequiredDescriptorCount of the kernels
    DescriptorMemory,   \* external: descriptors that the device has memory for
    MaxHeld             \* bound: ranges in use when another kernel starts

Events == "events"      \* the thread of the event queue
Actors == Threads \cup {Events}
NoOne == "no one"

(* Alloc does not ask for an empty range, and memory_limit_, which is        *)
(* kMaxTotalDescriptors, is more than any device has memory for.             *)
ASSUME DescriptorsAssumption ==
    /\ Sizes \subseteq Nat \ {0}
    /\ DescriptorMemory \in Nat
    /\ DescriptorMemory + MaxAllocationSize <= MemoryLimit
    /\ Events \notin Threads
    /\ NoOne \notin Threads

VARIABLES
    \* BFCAllocator
    bfc, lock,          \* the state under lock_, and the holder of lock_
    \* AllocateRaw, per thread
    pc, size,
    attempt,            \* which call of AllocateRawInternal this is
    deadline,           \* "none" until the first failure in the retry loop
    bytes,              \* the size that the backpedal loop tried last
    \* the release of ranges
    block,              \* per thread: the address it binds or releases
    callbacks,          \* the addresses that queued callbacks will release
    batch,              \* the callbacks that the event thread still has to run
    queue_mutex,
    gpu,                \* external: the work submitted, by descriptor address
    \* history
    held                \* the ranges allocated and not released

bfcVars == <<bfc, lock>>
callVars == <<size, attempt, deadline, bytes>>
queueVars == <<callbacks, batch, queue_mutex>>
vars == <<bfcVars, pc, callVars, block, queueVars, gpu, held>>

Init ==
    /\ bfc = EmptyAllocator
    /\ lock = NoOne
    /\ pc = [a \in Actors |-> "idle"]
    /\ size = [t \in Threads |-> 0]
    /\ attempt = [t \in Threads |-> "first"]
    /\ deadline = [t \in Threads |-> "none"]
    /\ bytes = [t \in Threads |-> 0]
    /\ block = [t \in Threads |-> 0]
    /\ callbacks = {}
    /\ batch = {}
    /\ queue_mutex = NoOne
    /\ gpu = << >>
    /\ held = {}

-----------------------------------------------------------------------------
(* AllocateRaw *)

(* Alloc: AllocateRawInternalWithRetry makes its first attempt next. *)
ComputeStarts(t, n) ==
    /\ pc[t] = "idle"
    /\ Cardinality(held) <= MaxHeld
    /\ pc' = [pc EXCEPT ![t] = "attempt"]
    /\ size' = [size EXCEPT ![t] = n]
    /\ UNCHANGED <<bfcVars, attempt, deadline, bytes, block, queueVars, gpu,
                   held>>

(* External: the sub-allocator can create a descriptor heap of n. *)
SubAllocates(n) == bfc.total + n <= DescriptorMemory

Rounded(t) == RoundedBytes(size[t])

(* A chunk that fits is taken from state s and returned to the caller. *)
Return(t, s) ==
    \E h \in {BestFit(s, Rounded(t))} :
        \E taken \in {TakeChunk(s, h, Rounded(t))} :
            \E c \in {taken.chunks[h]} :
                /\ bfc' = taken
                /\ held' = held \cup {[ptr |-> c.ptr, size |-> c.size,
                                       memory |-> c.ptr]}
                /\ block' = [block EXCEPT ![t] = c.ptr]
                /\ pc' = [pc EXCEPT ![t] = "bind"]
                /\ size' = [size EXCEPT ![t] = 0]
                /\ attempt' = [attempt EXCEPT ![t] = "first"]
                /\ deadline' = [deadline EXCEPT ![t] = "none"]
                /\ bytes' = [bytes EXCEPT ![t] = 0]

(* The allocator gets a region of n and the caller a chunk of it. *)
ReturnFromNewRegion(t, n) ==
    \E s \in {AddRegion(bfc, Rounded(t), n)} : Return(t, s)

(* Mutant: the retry loop never looks at its deadline. *)
FailForever(t) ==
    /\ attempt' = [attempt EXCEPT ![t] = "retry"]
    /\ deadline' = [deadline EXCEPT ![t] = "set"]
    /\ pc' = [pc EXCEPT ![t] = IF attempt[t] = "first" THEN "attempt"
                               ELSE "failed"]
    /\ UNCHANGED size

(* AllocateRawInternal returned nullptr.  In the retry loop the first such   *)
(* failure sets the deadline, and one after the deadline leaves the loop for *)
(* a last attempt; nullptr is returned to the caller when that fails.        *)
Fail(t) ==
    \/ /\ attempt[t] = "first"
       /\ attempt' = [attempt EXCEPT ![t] = "retry"]
       /\ pc' = [pc EXCEPT ![t] = "attempt"]
       /\ UNCHANGED <<size, deadline>>
    \/ /\ attempt[t] = "retry"
       /\ deadline[t] # "passed"
       /\ deadline' = [deadline EXCEPT ![t] = "set"]
       /\ pc' = [pc EXCEPT ![t] = "failed"]
       /\ UNCHANGED <<size, attempt>>
    \/ /\ attempt[t] = "retry"
       /\ deadline[t] = "passed"
       /\ attempt' = [attempt EXCEPT ![t] = "last"]
       /\ pc' = [pc EXCEPT ![t] = "attempt"]
       /\ UNCHANGED <<size, deadline>>
    \/ /\ attempt[t] = "last"
       /\ pc' = [pc EXCEPT ![t] = "idle"]
       /\ size' = [size EXCEPT ![t] = 0]
       /\ attempt' = [attempt EXCEPT ![t] = "first"]
       /\ deadline' = [deadline EXCEPT ![t] = "none"]

Attempting(t) == pc[t] = "attempt" /\ lock = NoOne

NothingFits(t) == FittingChunks(bfc, Rounded(t)) = {}

MayExtend(t) ==
    /\ size[t] <= MaxAllocationSize
    /\ Rounded(t) <= AvailableBytes(bfc)

(* AllocateRawInternal finds a chunk. *)
AllocateFinds(t) ==
    /\ Attempting(t)
    /\ size[t] <= MaxAllocationSize
    /\ ~NothingFits(t)
    /\ Return(t, bfc)
    /\ UNCHANGED <<lock, queueVars, gpu>>

(* It extends the allocator by a region. *)
AllocateExtends(t) ==
    /\ Attempting(t)
    /\ MayExtend(t)
    /\ NothingFits(t)
    /\ SubAllocates(BytesToExtend(bfc, Rounded(t)))
    /\ ReturnFromNewRegion(t, BytesToExtend(bfc, Rounded(t)))
    /\ UNCHANGED <<lock, queueVars, gpu>>

(* The sub-allocator fails for the first time: the loop that tries smaller   *)
(* regions begins, with lock_ held.                                          *)
AllocateBackpedals(t) ==
    /\ Attempting(t)
    /\ MayExtend(t)
    /\ NothingFits(t)
    /\ ~SubAllocates(BytesToExtend(bfc, Rounded(t)))
    /\ ~bfc.started_backpedal
    /\ bfc' = [bfc EXCEPT !.started_backpedal = TRUE,
                          !.curr_region = ExtendedRegion(bfc, Rounded(t))]
    /\ bytes' = [bytes EXCEPT ![t] = BytesToExtend(bfc, Rounded(t))]
    /\ lock' = t
    /\ pc' = [pc EXCEPT ![t] = "backpedal"]
    /\ UNCHANGED <<size, attempt, deadline, block, queueVars, gpu, held>>

(* There is no memory, or the request is larger than any region. *)
AllocateFails(t) ==
    /\ Attempting(t)
    /\ \/ size[t] > MaxAllocationSize /\ UNCHANGED bfc
       \/ /\ size[t] <= MaxAllocationSize
          /\ ~MayExtend(t)
          /\ NothingFits(t)
          /\ UNCHANGED bfc
       \/ /\ MayExtend(t)
          /\ NothingFits(t)
          /\ ~SubAllocates(BytesToExtend(bfc, Rounded(t)))
          /\ bfc.started_backpedal
          /\ bfc' = [bfc EXCEPT !.curr_region = ExtendedRegion(bfc, Rounded(t))]
    /\ Fail(t)
    /\ UNCHANGED <<lock, bytes, block, queueVars, gpu, held>>

(* One turn of the backpedal loop, with lock_ held throughout. *)
BackpedalGivesUp(t) ==
    /\ pc[t] = "backpedal"
    /\ Backpedal(bytes[t]) < Rounded(t)
    /\ lock' = NoOne
    /\ Fail(t)
    /\ bytes' = [bytes EXCEPT ![t] = 0]
    /\ UNCHANGED <<bfc, block, queueVars, gpu, held>>

BackpedalExtends(t) ==
    /\ pc[t] = "backpedal"
    /\ Backpedal(bytes[t]) >= Rounded(t)
    /\ SubAllocates(Backpedal(bytes[t]))
    /\ lock' = NoOne
    /\ ReturnFromNewRegion(t, Backpedal(bytes[t]))
    /\ UNCHANGED <<queueVars, gpu>>

BackpedalContinues(t) ==
    /\ pc[t] = "backpedal"
    /\ Backpedal(bytes[t]) >= Rounded(t)
    /\ ~SubAllocates(Backpedal(bytes[t]))
    /\ bytes' = [bytes EXCEPT ![t] = Backpedal(bytes[t])]
    /\ UNCHANGED <<bfcVars, pc, size, attempt, deadline, block, queueVars, gpu,
                   held>>

-----------------------------------------------------------------------------
(* AllocatorRetry *)

(* The loop takes mu_ and waits; a notification before this is not seen. *)
RetryWaits(t) ==
    /\ pc[t] = "failed"
    /\ pc' = [pc EXCEPT ![t] = "waiting"]
    /\ UNCHANGED <<bfcVars, callVars, block, queueVars, gpu, held>>

(* wait_for returns at the deadline, or spuriously before. *)
RetryWakes(t) ==
    /\ pc[t] = "waiting"
    /\ pc' = [pc EXCEPT ![t] = "attempt"]
    /\ UNCHANGED <<bfcVars, callVars, block, queueVars, gpu, held>>

RetryTimesOut(t) == deadline[t] = "passed" /\ RetryWakes(t)

(* External: the ten seconds are over. *)
DeadlinePasses(t) ==
    /\ deadline[t] = "set"
    /\ deadline' = [deadline EXCEPT ![t] = "passed"]
    /\ UNCHANGED <<bfcVars, pc, size, attempt, bytes, block, queueVars, gpu,
                   held>>

-----------------------------------------------------------------------------
(* Compute with its descriptor range, and the release of ranges. *)

(* The work is bound to the range and submitted. *)
ComputeSubmits(t) ==
    /\ pc[t] = "bind"
    /\ gpu' = Append(gpu, block[t])
    /\ pc' = [pc EXCEPT ![t] = "enqueue"]
    /\ UNCHANGED <<bfcVars, callVars, block, queueVars, held>>

(* No memory for a temporary buffer: Compute returns and its range goes.    *)
ComputeFails(t) ==
    /\ pc[t] = "bind"
    /\ pc' = [pc EXCEPT ![t] = "release"]
    /\ UNCHANGED <<bfcVars, callVars, block, queueVars, gpu, held>>

Signaled(ptr) == \A i \in 1..Len(gpu) : gpu[i] # ptr

(* EnqueueCallbackForGpuEvent: the callback is queued. *)
EnqueueQueues(t) ==
    /\ pc[t] = "enqueue"
    /\ queue_mutex = NoOne
    /\ callbacks' = callbacks \cup {block[t]}
    /\ block' = [block EXCEPT ![t] = 0]
    /\ pc' = [pc EXCEPT ![t] = "idle"]
    /\ UNCHANGED <<bfcVars, callVars, batch, queue_mutex, gpu, held>>

(* The queue has moved past the event: Enqueue invokes the callback itself,  *)
(* holding the mutex.                                                        *)
EnqueueInvokes(t) ==
    /\ pc[t] = "enqueue"
    /\ queue_mutex = NoOne
    /\ Signaled(block[t])
    /\ queue_mutex' = t
    /\ pc' = [pc EXCEPT ![t] = "release"]
    /\ UNCHANGED <<bfcVars, callVars, block, callbacks, batch, gpu, held>>

(* Mutant: all queued events are taken, whether signaled or not. *)
ReachedAll == callbacks

Reached == {p \in callbacks : Signaled(p)}

(* The event thread takes the callbacks that were reached, and the mutex. *)
EventsTakes ==
    /\ pc[Events] = "idle"
    /\ queue_mutex = NoOne
    /\ Reached # {}
    /\ batch' = Reached
    /\ callbacks' = callbacks \ Reached
    /\ queue_mutex' = Events
    /\ pc' = [pc EXCEPT ![Events] = "release"]
    /\ UNCHANGED <<bfcVars, callVars, block, gpu, held>>

EventsUnlocks ==
    /\ pc[Events] = "release"
    /\ batch = {}
    /\ queue_mutex' = NoOne
    /\ pc' = [pc EXCEPT ![Events] = "idle"]
    /\ UNCHANGED <<bfcVars, callVars, block, callbacks, batch, gpu, held>>

(* DeallocateRaw, which takes lock_. *)
DeallocateRaw(ptr) ==
    /\ lock = NoOne
    /\ \E s \in {FreeChunk(bfc, ptr)} : bfc' = s
    /\ held' = {b \in held : b.ptr # ptr}
    /\ UNCHANGED <<lock, callVars, gpu>>

(* Reset, in the thread that computes. *)
ThreadReleases(t) ==
    /\ pc[t] = "release"
    /\ DeallocateRaw(block[t])
    /\ block' = [block EXCEPT ![t] = 0]
    /\ pc' = [pc EXCEPT ![t] = "notify"]
    /\ UNCHANGED queueVars

(* Reset, in the next callback of the event thread. *)
EventsReleases ==
    /\ pc[Events] = "release"
    /\ \E p \in batch : DeallocateRaw(p) /\ batch' = batch \ {p}
    /\ pc' = [pc EXCEPT ![Events] = "notify"]
    /\ UNCHANGED <<block, callbacks, queue_mutex>>

(* NotifyDealloc wakes every thread that waits; the caller returns. *)
NotifyDealloc(a) ==
    [b \in Actors |-> IF b = a THEN IF a = Events THEN "release" ELSE "idle"
                      ELSE IF pc[b] = "waiting" THEN "attempt"
                      ELSE pc[b]]

Notifies(a) ==
    /\ pc[a] = "notify"
    /\ pc' = NotifyDealloc(a)
    /\ queue_mutex' = IF a # Events /\ queue_mutex = a THEN NoOne
                      ELSE queue_mutex
    /\ UNCHANGED <<bfcVars, callVars, block, callbacks, batch, gpu, held>>

(* External: the GPU completes the work in order. *)
GpuCompletes ==
    /\ gpu # << >>
    /\ gpu' = Tail(gpu)
    /\ UNCHANGED <<bfcVars, pc, callVars, block, queueVars, held>>

-----------------------------------------------------------------------------
Allocates(t) ==
    \/ AllocateFinds(t) \/ AllocateExtends(t) \/ AllocateBackpedals(t)
    \/ AllocateFails(t) \/ BackpedalGivesUp(t) \/ BackpedalExtends(t)
    \/ BackpedalContinues(t) \/ RetryWaits(t) \/ RetryTimesOut(t)

Uses(t) ==
    \/ ComputeSubmits(t) \/ ComputeFails(t)
    \/ EnqueueQueues(t) \/ EnqueueInvokes(t)

KernelThread(t) ==
    Allocates(t) \/ Uses(t) \/ ThreadReleases(t) \/ Notifies(t)

EventThread ==
    EventsTakes \/ EventsReleases \/ Notifies(Events) \/ EventsUnlocks

Next ==
    \/ \E t \in Threads :
          \/ \E n \in Sizes : ComputeStarts(t, n)
          \/ KernelThread(t)
          \/ RetryWakes(t)
          \/ DeadlinePasses(t)
    \/ EventThread
    \/ GpuCompletes

Spec == Init /\ [][Next]_vars

(* The operating system runs every thread and time passes; the GPU may hang. *)
FairSpec ==
    /\ Spec
    /\ \A t \in Threads : WF_vars(KernelThread(t)) /\ WF_vars(DeadlinePasses(t))
    /\ WF_vars(EventThread)

-----------------------------------------------------------------------------
Handles == {h \in 1..Len(bfc.chunks) : bfc.chunks[h] # DeletedChunk}
End(c) == c.ptr + c.size

TotalSize(regions) ==
    LET total[i \in 0..Len(regions)] ==
            IF i = 0 THEN 0 ELSE total[i - 1] + regions[i].size
    IN  total[Len(regions)]

TypeOK ==
    /\ lock \in Threads \cup {NoOne}
    /\ queue_mutex \in Actors \cup {NoOne}
    /\ pc \in [Actors -> {"idle", "attempt", "backpedal", "failed", "waiting",
                          "bind", "enqueue", "release", "notify"}]
    /\ attempt \in [Threads -> {"first", "retry", "last"}]
    /\ deadline \in [Threads -> {"none", "set", "passed"}]

(* The chunks of the live handles tile the regions: each is linked to the    *)
(* one that begins where it ends, and its address leads back to its handle.  *)
ChunksTileRegions ==
    /\ \A h \in Handles :
          LET c == bfc.chunks[h]
          IN  /\ c.size > 0
              /\ bfc.handles[c.ptr] = h
              /\ IF c.next = Invalid
                 THEN \E r \in Range(bfc.regions) : End(c) = End(r)
                 ELSE /\ bfc.chunks[c.next].ptr = End(c)
                      /\ bfc.chunks[c.next].prev = h
              /\ c.prev = Invalid => \E r \in Range(bfc.regions) : c.ptr = r.ptr
    /\ DOMAIN bfc.handles = {bfc.chunks[h].ptr : h \in Handles}
    /\ bfc.total = TotalSize(bfc.regions)

(* A chunk is in the bin of its size exactly when it is free, no two free    *)
(* chunks are neighbours, and the chunks in use are the ranges held, each    *)
(* of them wholly owned by its holder.                                       *)
BinsHoldFreeChunks ==
    /\ \A h \in Handles :
          LET c == bfc.chunks[h]
          IN  /\ c.bin_num = IF c.in_use THEN NoBin ELSE BinNumForSize[c.size]
              /\ ~c.in_use => ~IsFree(bfc, c.next)
    /\ {[ptr |-> bfc.chunks[h].ptr, size |-> bfc.chunks[h].size] :
            h \in {g \in Handles : bfc.chunks[g].in_use}}
         = {[ptr |-> b.ptr, size |-> b.size] : b \in held}

(* Between any two critical sections the allocator's structure is whole. *)
BfcInv == TypeOK /\ ChunksTileRegions /\ BinsHoldFreeChunks

(* A range that the GPU may still read is held, and nobody is about to       *)
(* release it.                                                               *)
DescriptorsOutliveWork ==
    \A i \in 1..Len(gpu) :
        /\ \E b \in held : b.ptr = gpu[i]
        /\ gpu[i] \notin batch
        /\ \A t \in Threads : pc[t] = "release" => block[t] # gpu[i]

(* nullptr is returned only after the deadline, and only when at that moment *)
(* no free chunk is large enough and there is no memory for another region   *)
(* of the size that a request may need at most.                              *)
FailureIsReal ==
    [][\A t \in Threads :
          pc[t] \in {"attempt", "backpedal"} /\ pc'[t] = "idle"
              => /\ deadline[t] = "passed"
                 /\ \A h \in Handles : IsFree(bfc, h)
                                           => bfc.chunks[h].size < size[t]
                 /\ size[t] <= MaxAllocationSize
                       => bfc.total + MaxAllocationSize > DescriptorMemory]_vars

(* What kernels see of chunks, bins and regions. *)
Table == INSTANCE AllocationTable WITH live <- held

(* Ranges that are in use never overlap, whatever was split, merged and      *)
(* handed out before.                                                        *)
TableSpec == Table!Spec

(* "wait up to 'max_millis_to_wait' milliseconds, retrying each time ...,    *)
(* until either a good pointer is returned or the deadline is exhausted":    *)
(* an allocation returns.  (Threads are interchangeable: one stands for all.)*)
AllocationReturns ==
    LET t == CHOOSE u \in Threads : TRUE
    IN  pc[t] = "attempt" ~> pc[t] \in {"bind", "idle"}

(* A callback that frees descriptors waits for lock_ while it holds the      *)
(* event queue's mutex: the mutex is released again, and no kernel that      *)
(* enqueues a callback is locked out for ever.                               *)
QueueMutexReturns == queue_mutex # NoOne ~> queue_mutex = NoOne
=============================================================================

# TLA+ specifications of the DirectML plugin for TensorFlow

The repository is a TensorFlow pluggable device: kernels that TensorFlow calls
on its own threads are translated to DirectML operators, which are recorded
into Direct3D 12 command lists and executed by a GPU later. The interesting
part of the code is what happens between those threads, the plugin's two
background threads and the GPU: who may touch which memory when, what an event
that was handed out early really promises, and what happens when memory runs
out on the way. That is what these modules are about. The numeric meaning of
the operators is not.

## Inventory

| Component | State | Operations | Hard because | Correct when |
|---|---|---|---|---|
| `DmlCommandQueue`, `DmlGpuEvent` | the last fence value enqueued | `ExecuteCommandLists`, current and next completion event, `IsSignaled`, `WaitForSignal` | the GPU is asynchronous | fence values follow the lists without gaps |
| `DmlExecutionContext` | two batches of commands, index of the one being written, event of the next flush, flush and exit requests, status | six calls that submit a command, `Flush`, destructor; a thread that swaps, records and executes | submitters, `Sync` callers and the thread interleave; the thread reads its batch without the lock; recording may run out of memory | commands are executed once and in order, an event is signaled exactly with its command, `Sync` is a barrier and returns |
| `DmlEventQueue` | callbacks by fence value, the awaited value | `Enqueue`, destructor; a thread that waits for the fence and invokes callbacks | `Enqueue` races the thread over the awaited value; a removed device makes the fence `UINT64_MAX` | each callback is invoked once, after its value, in order, and eventually |
| `DmlPooledHeap`, `DmlUploadHeap` | chunks used as ring buffers, capacity | `Reserve`, `ReclaimAllocations`, `Trim`, `BeginUploadToGpu` | wrap-around, alignment, release by GPU events | staging memory is not reused or freed before the GPU has read it |
| `DmlReadbackHeap` | the same, and its own fence | `ReadbackFromGpu`, a callback that copies and signals | the fence is signaled by callbacks of another queue | the fence implies that data has arrived |
| `DMLDeviceContext`, `DmlDevice`, the plugin's copy callbacks | none of their own | copies in all directions, `Sync`, binding and execution of operators | several copies, one wait; errors half way | buffers are filled on return and not written later |
| `DmlCommandList`, `DmlCommandAllocatorRing`, `DmlDescriptorPool` | allocators with events, descriptor heaps, the heap set last | `Open`, recording, `Close` | the GPU lags behind recording; cached pointers | no allocator or descriptor is reused while the GPU needs it |
| `DmlKernelManager`, `DmlKernelWrapper`, `DmlKernel` | cache, LRU list, queued references | lookup, creation, eviction, execution, release | creation without the lock, eviction, errors half way | kernels live as long as the GPU uses them; what is executed was initialized |
| `D3D12HeapAllocator`, `TaggedPointer`, `DmlBuffer` | allocations by ID, free IDs | `Alloc`, `Free`, `CreateBufferRegion` | pointers made of numbers; IDs are reused | a pointer resolves to its own allocation |
| `D3D12DescriptorHeapAllocator`, `DmlDescriptorAllocator` | heaps by ID; ranges in use | `Alloc`, `Free`, handles, release by a callback | ranges are released by the event queue's thread, under its mutex | a range is held until the GPU is done with it |
| `BFCAllocator`, `AllocatorRetry` | regions, chunks, bins; a deadline | allocate, deallocate, extend, merge, split, wait and retry | a large mutable structure; waiting for returned memory | chunks tile their regions, bins hold the free ones; an allocation returns and fails only for a reason |
| kernels that use resource variables, `VariableLock`, cached helpers | a tensor and a reader-writer lock per variable (TensorFlow's), helpers in the kernel cache | lock, look up, compute, copy back, unlock; assignment | read-modify-write by several commands; what an error or the cache leaves behind | updates are neither lost nor half done; locks are released |
| kernel keys, tensor descriptions, broadcasting, shapes | none | pure functions | many cases | agree with their definitions |
| graph optimizers | a mutable view of a graph | mutations, remapping, removal of transposes | consistency of fanins and fanouts | the graph stays equivalent |
| kernels (84 files), operator definitions, tracing, adapters | little | - | numeric, generated or I/O | - |

Interaction: a kernel is found or created by the kernel manager and submits
its initialization and execution to the execution context. The execution
context's thread records them through the command list and gives the list to
the command queue. Its events release kernels (queued references), staging
memory (upload heap) and descriptors, and trigger the event queue's callbacks,
among them the one that finishes a readback. `DmlDevice::Sync` flushes, waits
and releases kernels. Descriptors for an execution come from a BFC allocator
over descriptor heaps, buffers from one over the heap allocator, whose tagged
pointers the plugin resolves again for every binding.

Lock order in the code: readback heap, then event queue, then either batch
state, or the allocator's `lock_` followed by the retry helper's `mu_`. The
last two are taken by callbacks, with the event queue's mutex held
(`QueueMutexReturns`).

## Modules

| Module | Models | Uses |
|---|---|---|
| `CommandQueue` | `DmlCommandQueue`, the GPU and its fence (external) | |
| `CommandStream` | abstract: what the execution context promises | |
| `ExecutionContext` | `DmlExecutionContext`, `DmlDevice::Sync` | `CommandQueue`; implements `CommandStream` |
| `CallbackQueue` | abstract: what the event queue promises | |
| `EventQueue` | `DmlEventQueue` | implements `CallbackQueue` |
| `PooledHeap` | `DmlPooledHeap` | |
| `UploadHeap` | `DmlUploadHeap` | `PooledHeap`, `CommandStream` |
| `ReadbackHeap` | `DmlReadbackHeap` | `PooledHeap`, `CommandStream`, `CallbackQueue` |
| `DeviceContext` | copies to the CPU, the plugin's blocking copies | `ReadbackHeap` |
| `CommandList` | `DmlCommandList`, allocator ring, descriptor pool | `CommandQueue` |
| `KernelManager` | `DmlKernelManager`, `ComputeImpl`, `DmlKernel::Initialize` and `Compute` | `CommandStream` |
| `AllocationTable` | abstract: a table of disjoint blocks of memory | |
| `TaggedPointer` | packing and unpacking of `TaggedPointer` | |
| `HeapAllocator` | `D3D12HeapAllocator`, the device manager's table | `TaggedPointer`; implements `AllocationTable` |
| `BFCAllocator` | `BFCAllocator`: chunks, bins, regions, as operators on its state | |
| `DescriptorAllocator` | `DmlDescriptorAllocator`, `AllocatorRetry`, `DmlKernel::Compute`'s descriptors, the event queue's callbacks | `BFCAllocator`; implements `AllocationTable` |
| `VariableOps` | kernels that use resource variables, `VariableLock`, cached helpers | |
| `UploadHeap_proofs`, `DeviceContext_proofs`, `HeapAllocator_proofs`, `DescriptorAllocator_proofs`, `VariableOps_proofs` | theorems about the module of that name | |
| `CommandExecution_proofs` | theorems about `ExecutionContext` and `CommandList`, a command's way to the GPU | |
| `DeferredWork_proofs` | theorems about `KernelManager` and `EventQueue`, what waits for events | |
| `PooledHeap_proofs` | lemmas about `PooledHeap` that both heaps use | |

`CommandStream` and `CallbackQueue` are what makes the compositions small: the
heaps, the copies and the kernel manager run over `CommandStream` and
`CallbackQueue`, which the detailed modules are proved to implement, instead of
over batches and threads.

How state and actions correspond to the code, module by module:

* **ExecutionContext.** `batches`, `write_batch_index`, `next_flush_event`,
  `exit_requested`, `flush_requested` and `status` are the members of
  `BatchState`. A critical section is one action; the thread's work between two
  critical sections is split into the steps other threads can observe or that
  can fail (`ThreadOpens`, `ThreadRecords` per command, `ThreadCloses` or
  `ThreadClosesOutOfMemory`, `ThreadExecutes`, `ThreadClears`). The six
  submitting calls differ only in the closure they append and are one action,
  `Submit`; a command is the number of its call. `Flush` and `SyncReturns` are
  the two halves of `DmlDevice::Sync`. Time is one bit, whether the flush time
  has passed since the last flush; the thread samples it at the top of its loop
  (`elapsed`), before it takes the lock. `point`, `issued` and `executed` are
  history.
* **EventQueue.** The multimap is the set `events` with the order `IsFirst`;
  the thread holds the mutex while `pc = "process"`, so `Enqueue` and the
  destructor wait. Fence arithmetic is modulo `UMax + 1`, and a removed device
  sets the fence to `UMax`.
* **PooledHeap.** Chunks and allocations as in the code, sizes in units.
  `Reserve`, `FindOffsetForAllocation` and `ReclaimAllocations` are operators
  on chunks, `Allocate` and `Trim` the actions. `Trim` has no caller in the
  repository; it is a public operation and part of the model. `StagingAlive`
  says what its future callers rely on: nothing else frees a chunk.
* **UploadHeap, ReadbackHeap, DeviceContext.** Memory is a function from
  staging units to the copy whose bytes they hold, so that overwriting can be
  seen. `BeginUploadToGpu` is one step (it holds the mutex throughout);
  `ReadbackFromGpu` is two, because the GPU may finish between the submission of
  the copy and `Enqueue`, which then invokes the callback itself. A call of
  `CopyDeviceTensorsToCPU` is a sequence of steps per tensor, then `Sync`, then
  the wait; the copies of one tensor are the case of one, and the copy between
  devices waits without `Sync` (`SkipSync`).
* **CommandList.** `completion_event` and `current_command_allocator` are the
  ring, `heaps` the pool, `bound_heap` what D3D12 has set on the list as opposed
  to `current_descriptor_heap`, what the wrapper believes.
* **KernelManager.** `ComputeImpl` is split where other threads may interleave:
  lookup (locked), construction (unlocked), insertion (locked), the status
  check, execution, queueing the reference (locked). A kernel is alive while
  the cache, a queued reference or a running call has it.
* **HeapAllocator.** One allocator per device in `devices`. `Alloc` is two
  steps, because heaps and resource are created without the mutex and
  registered with it; a failure of the device may come in the first, the end of
  the IDs in the second. The tiles of a resource are mapped to heaps as in the
  code. A pointer is a number, packed from a device, an ID and an offset whose
  widths are constants; `held` is what callers were given.
* **BFCAllocator, DescriptorAllocator.** The allocator's state is one record
  (chunks by handle, regions, total); a chunk's bin is a field of the chunk.
  Splitting, merging, the choice of a chunk and of a region's size are
  operators that follow the code's order. A thread goes through the attempts of
  `AllocateRawInternalWithRetry` (first, retries until the deadline, a last
  one); the loop that tries smaller regions is one step per size with `lock_`
  held. The range is then bound, submitted and given to a callback, which the
  enqueuing thread or the event queue's thread runs. `kBackpedalFactor`, 0.9 in
  floating point, is the integer quotient 9/10. The sub-allocator is a limit on
  descriptors.
* **VariableOps.** The GPU executes commands in the order of submission, so a
  tensor's `contents` are what it will hold after the commands submitted so
  far, as the set of operations whose updates it incorporates. An operation is
  a record (variables, lock, whether it looks up its tensors before it locks,
  and the plan of its commands); each kernel that uses a variable is one of
  these. `lost` records which update of which tensor was overwritten by whom.
  TensorFlow's locks are taken at once, since it takes them in one order.
  A `ResourceGatherNd` that finds its kernel in the cache has the helper of the
  call that created it, so that its cleanup, on success or on an error, releases
  that call's lock too if it still computes (`HeldByHelper`). A computation into
  intermediate buffers gets any of them or none (`Compute`): nobody looks
  whether they could be allocated, and the copy back from one that could not has
  no bytes. What DirectML makes of an empty output binding is outside the
  model, which takes it that nothing is written. Two assumptions on TensorFlow,
  whose source is not in the repository: to look up a variable's tensor is a
  pure read (`GetInputTensorFromVariable` passes it a function that copies
  tensors, with which it could replace the tensor when its buffer is shared),
  and `AssignVariableOp` replaces the tensor under the variable's lock. Two
  concurrent calls of `Unlock` on one helper are unsynchronised in the code and
  atomic in the model.

## Runs

| Run | Expect | Shows |
|---|---|---|
| `ExecutionContext` | pass | inductive invariant, order, exact events, `Sync` as a barrier, stability of the taken batch, refinement of `CommandStream`; `Sync` returns unless the recorder stops, without help of the timer; with the timer, commands are executed without any flush |
| `EventQueue` | pass | inductive invariant, exactly once, after the value, in order, refinement of `CallbackQueue`; callbacks whose value is reached are invoked |
| `UploadHeap` | pass | the heap's assertions; staging memory is neither overwritten nor freed early |
| `DeviceContext` | pass | signaled and returned copies are filled although a call waits for its last event only; copies return unless the recorder fails |
| `CommandList` | pass | allocators, descriptor heaps and descriptors are not reused early |
| `CommandListDescriptors` | violation | descriptors are never recycled |
| `KernelManager` | pass | cache consistency; kernels outlive their executions |
| `HeapAllocator` | pass | IDs are neither lost nor duplicated, also when they run out; every address a caller holds resolves to its own bytes; no two offsets share memory; refinement of `AllocationTable` |
| `DescriptorAllocator` | pass | chunks tile regions and bins are exact after every split, merge and extension; ranges outlive the GPU's use; an allocation fails only with nothing left after the deadline; refinement of `AllocationTable`; allocations return and the event queue's mutex is released |
| `DescriptorAllocatorBackpedal` | violation | with too little memory for the smallest region the backpedal loop never ends |
| `VariableOps` | pass | locked tensors are current, unless a cache hit has released the lock; an update under a unique lock is first lost only to an operation that computes unlocked (which may bring the update back with a late copy, for anyone to lose again); an operation that fails has updated nothing, one that succeeds all that it computed a result for; operations get their locks and return unless a cached helper keeps one |
| `VariableOpsCached` | violation | a cached `ResourceGatherNd` kernel gathers from another variable |

The violations are disagreements between the code and what its comments say;
each is described under "findings" in `PROJECT.json`. What else was seen while
modelling is under "Observations" below.

**Bounds.** `MaxCommands = 4` with `BatchFlushSize = 2` lets one batch be in
flight, one be recorded and one be written, full or not, with two callers of
`Sync`; three batches are all that can exist at once apart from the queue.
`EventQueue` has fence values up to 3, four callbacks, so that two share a
value or all differ, and a counter of three bits. `UploadHeap` uses an
alignment of 2, chunks of 5 units (not a multiple of the alignment) and sizes 1, 3 and 6: smaller than the
alignment, forcing a wrap, and larger than the minimal chunk; five commands
suffice to fill, wrap, reclaim and grow. `DeviceContext` has two callers, at
most two tensors per call and three commands in all, copies and others, so that
one call holds two readbacks while another interferes. `CommandList` opens three
lists of up to two commands, one more list than there are allocators, over heaps
of two descriptors. `KernelManager` has two threads, two cached keys and one
that is never cached, and a cache of one entry, so that every insertion of the
other key evicts. `HeapAllocator` has a tiled and an untiled device, four IDs
each, sizes 0, 1 and 5 with tiles of 2 and heaps of two tiles (nothing, part of
a tile, and two heaps of which the second is smaller), and offsets that end
where the largest block does; IDs run out and are reused in another order.
`DescriptorAllocator` has regions of at most 14 descriptors in granules of 2 and
memory for 24: the first region takes 14, and the backpedal loop fails with 12
and ends with 10 for the second, or gives up when more is needed. Kernels take 3
or 12 (4 or 12 when rounded), so that chunks are split, merged on either side
and exhausted. With memory for 22 the loop stays at 10, which is the violation.
`VariableOps` starts three operations on two threads over one variable, or two
for a training operation, with one assignment, the fewest for one operation to
lose an update of a second or work on a tensor that was replaced, and enough
for a hit to release the lock of the call that created the kernel and the
assignment to replace that call's tensor. Symmetry is
used for threads, cached keys and identities of memory, which nothing orders,
and only in runs without liveness.

**Deadlock** is not checked in runs whose system may stop: bounds on calls,
destruction, or an execution thread that has failed.

**Fairness.** Weak fairness of the two threads' own steps (the operating system
schedules them; a mutex that is free again and again is assumed to be obtained
in the end), of the GPU finishing a list it was given, and of a waiter whose
fence is signaled. The timer is assumed to expire only in
`CommandsExecuteUnlessStopped`. In `DescriptorAllocator` every thread
runs and deadlines pass, but the GPU may hang. In `VariableOps` an operation
that has started goes on and gets a lock that stays free (TensorFlow's locks are
handed over); errors, evictions and assignments need not happen. Nothing
is assumed of callers: they need not submit, flush or destroy. Spurious wakeups
happen or not.

## Theorems

`CommandExecution_proofs`, about `ExecutionContext`, for every set of callers,
every positive flush size and every bound on commands:

* `Invariance`: `Spec => []IInv`. The properties are not inductive: that events
  are exact depends on where each command is. `IInv` says that executed
  commands, the lists in flight, the batch the thread has taken and the write
  batch are consecutive pieces of the sequence of all commands (`OrderInv`),
  that fence values number those pieces without gaps (`FencesInv`,
  `EventsInv`), that the thread's batch is the other one and the other one is
  empty when it has none (`BatchesInv`), what has been recorded (`RecordedInv`)
  and that a waiting `Sync` holds an event no older than the commands before it
  (`SyncInv`). One lemma per kind of step: `SubmitStep`, `SyncStep`,
  `SwapStep`, `ExecuteStep`, `ClearStep`, `GpuKeepsIInv`, and
  `QuietStepKeepsIInv` for steps that move no command.
* `InOrder`, `EventsAreExact`, `SyncCoversEarlierCommands`,
  `TakenBatchStability` follow from it.
* `Refinement`: `Spec => StreamSpec`. `Submit` is `Issue`, a step of the GPU is
  `Signal`, `Flush` and `SyncReturns` are the barrier; everything else stutters.

`DeferredWork_proofs`, for every number of callbacks and every `MaxFence < UMax`:

* `QueueInvariance` (`QueueInv`: the thread awaits at most the value after the fence's,
  the multimap holds no value the thread has moved past, events are in
  processing only under the mutex, and the three guarantees themselves);
  `InvokedAfterSignal`, `InvokedOnce` and `MultimapOrder`, the three guarantees;
  and `QueueRefinement`: `QueueSpec => CallbackSpec`.

`CommandExecution_proofs`, about `CommandList` (its specification is `ListSpec`),
for every number of allocators from 2 on and every positive capacity of a
descriptor heap:

* `ListInvariance`. `ListInv` says that the lists in flight have consecutive
  fence values (`SignalsInv`), that the current allocator has the newest event
  and is the one of the open list (`RingEventsInv`), that an allocator's event is not older
  than any list in flight with commands in it (`CoveredInv`), that the heap the
  wrapper believes to be set is set (`BoundInv`), and that the descriptors of
  recorded commands count in the size of their heap (`SlotsInv`).
* `RingSafety`, `HeapBound`, `NoReset` and `DescriptorsFresh`: `RingInv`,
  `HeapIsBound`, `NoResetInUse` and `DescriptorsNotReused`. `NoResetInUse` is
  why `CoveredInv` is needed: before a reset the code tests one event, while
  several lists in flight may have commands in the allocator.

`DeferredWork_proofs`, for any threads and keys and every size of the cache:

* `Invariance`. `IInv`: the commands with signaled events are the executed ones
  (`StreamInv`); the cache has kernels of its keys and the LRU list has these
  keys, once each (`MapInv`); a call has a kernel from its creation on, at first
  one of its key (`CallsInv`); references and commands name kernels that exist
  (`NamesInv`); and until its event is signaled, the kernel of an execution is
  held for that event by the call that submitted it or by the reference that
  call left (`HeldInv`).
* `CacheSafety` (`CacheInv`) and `KernelLifetime` (`KernelsOutliveExecution`).

`PooledHeap_proofs`, lemmas for every alignment, minimal size of a chunk and
sequence of sizes, of a pool in which

* the allocations of a chunk lie in a row, or in two with the newer row before
  the older one (`Ring`): that is what the choice of an offset, which looks at
  the first and the last allocation only, rests on (`OffsetFits`);
* chunks are sorted, because a new one is as large as all the others together:
  `CapacityOf`, the sum of the capacities, is at least each of them
  (`CapacityBound`);
* reclaiming leaves an end of each chunk's allocations with all those whose
  events are not signaled (`UnreclaimedSuffix`), and `Trim` keeps every chunk
  that has one (`TrimStep`);
* an allocation is disjoint from all that are kept (`AllocateStep`).

`UploadHeap_proofs`, for any sizes and any number of commands:

* `Invariance`. `IInv`: the pool is as above (`PoolInv`); no allocation has an
  event that was not handed out (`DoneInv`), so that each chunk stays sorted by
  event; an upload that the GPU has not executed has its allocation in the pool
  (`RegionInv`) and its data in memory (`MemoryInv`). `RegionInv` is what makes
  it inductive: the event of such an upload is not signaled, so its allocation
  is not reclaimed, and every new one is disjoint from it.
* `HeapAssertions` (`HeapInv`), `UploadsIntact` (`StagingIntact`) and
  `UploadsAlive` (`StagingAlive`).

`DeviceContext_proofs`, for any callers, sizes and tensors in a call, over any
behaviour of the stream and of the event queue that `CommandStream` and
`CallbackQueue` allow:

* `Invariance`. `IInv`: readbacks are numbered in the order of their commands
  (`CommandsInv`), callbacks are invoked in that order, and each signals its
  event unless the recorder has failed (`QueueInv`); a readback whose event
  is not signaled has its allocation, and its data in memory once the GPU has
  executed it (`RegionInv`, `MemoryInv`); a call between the two steps of a
  readback holds the mutex (`CallsInv`); and the readbacks of a call in progress
  are at most its `copy_event`, except the one it is about to enqueue
  (`BuffersInv`).
* `NextCallback`: `CallbackQueue` orders callbacks by value only, but since
  commands have ascending events, the next one is the oldest readback, and
  `Enqueue` invokes a callback itself only if none is waiting.
* `HeapAssertions` (`HeapInv`), `SignaledFilled` (`SignaledMeansFilled`) and
  `ReturnedFilled` (`ReturnedMeansFilled`).

`HeapAllocator_proofs`, for any devices, widths of the parts of a pointer,
limits, sizes of heaps and tiles:

* `Invariance`. `IInv`: each ID given out so far is live or in the pool, not
  both, and in the pool once (`PoolInv`); allocations, registered or not, are of
  inserted devices and fit in a pointer's offset (`RecordsInv`); what callers
  hold is exactly the blocks registered (`BlocksInv`); no memory is used twice
  (`MemoryInv`).
* `IDsAccountedFor` (`IdInv`); `NoIDLeak` (`ExhaustionIsReal`: an allocation
  fails for want of an ID only when all are in use); `AddressesResolve`
  (`PointersResolve`), which rests on lemmas about the division and remainder
  that unpack a `TaggedPointer`; and `Refinement`: `Spec => TableSpec`.
* `MemoryIsDistinct` (`DistinctMemory`). The loop that maps tiles to heaps is a
  recursive function, `MapHeaps`. Its closed form, `After`, satisfies the
  recursion (`MapHeapStep`), so the recursion has a solution, and a solution that
  differed would differ first at some number of heaps (`MapHeapsResult`): this
  induction by a least counterexample takes the place of the library's, which
  the provers cannot instantiate. All tiles are mapped when the loop ends, which
  the code asserts (`TilesMapped`), and no two to the same place
  (`TilesAreDistinct`). `RecordsInv` keeps the mapping of every allocation.

`DescriptorAllocator_proofs`, for any threads, deadlines, bins, sizes of requests
and of regions, and any memory of the device:

* `Invariance`. `IInv`: between two critical sections the allocator is sound
  (`Sound`), the ranges held are those of the chunks in use (`HeldInv`), an
  address to be released has one owner among the threads, the queued callbacks
  and the callbacks that run, and what the GPU reads is owned by one that waits
  for it (`OwnersInv`), and a thread in the backpedal loop has the lock and found
  neither a chunk nor memory for the largest region (`RequestsInv`).
* `Sound` is stronger than `BfcInv`, which is not inductive: that each chunk
  begins where the one before ends says nothing of two chunks that are not
  linked, and a merge or a split could join them. `Structure` adds that live
  chunks are pairwise disjoint (`Disjoint`), that linked ones are in one region
  with links both ways (`Placed`), that the index by address is exact
  (`Indexed`), and that the list of deleted handles has each once (`Spare`), or
  `AllocateChunk` would give one handle to two chunks.
* One lemma for each operator of `BFCAllocator`: `MergeKeeps`, `SplitKeeps`,
  `Coalescing`, `Freeing`, `AddingRegion` and `Taking`. Within them `Structure`
  holds at every step; the bins are right except for the chunk in hand (`Ready`,
  `Tidy`).
* A region just added serves the request: the search that follows a successful
  `Extend` finds a chunk, which the code tests for but never has to handle. For
  this the size of a region is a multiple of the smallest allocation (`Granular`) that is at
  least the request, and bins are monotonic in the size. `PowerOfTwo` and
  `TotalSize` are recursive functions, whose recursions have one solution
  (`RecursionExists`, `RecursionUnique`, by a least counterexample as for
  `MapHeaps`).
* `Allocator` (`BfcInv`), `Outliving` (`DescriptorsOutliveWork`),
  `RealFailures` (`FailureIsReal`) and `TableRefinement`: `Spec => TableSpec`, in
  which returning a range is `Grant`, releasing it is `Release`, and extending,
  splitting and merging stutter.

`VariableOps_proofs`, for any threads, any finite set of variables and any
sequence of calls:

* `Invariance`. `IInv`: a call in progress has an operation of its own
  (`CallsInv`), and the rest of its plan is the end of its kernel's (`PlanInv`);
  it works on tensors of its variables, on the current ones if it looked them up
  under the lock (`BoundInv`); the call that created the
  cached kernel, if it has not returned, has put it in the cache and computes
  (`HelperInv`); locks
  exclude each other, and a kernel that computes holds its locks or shares a
  cached helper (`MutexInv`, `HoldInv`); a result that is not written
  back lacks only updates it may overwrite or that were overwritten before, and
  has none that the tensor never had (`BuffersInv`); updates are of operations
  that did not fail (`UpdatesInv`); and once a call has submitted its
  computation, each tensor it will not write any more has the update or has lost
  it, or the call has no buffer with a result for it (`EffectInv`, `NoResult`).
* `LockedTensors` (`LockedTensorsAreCurrent`), `UpdatesKept`
  (`UniqueUpdatesAreKept`) and `Atomicity` (`UpdatesMatchResults`).
  `UniqueUpdatesAreKept` is about the first loss of an update. That no update is
  lost but by an operation that computes unlocked, ever, is not inductive, and
  false: such an operation can write an old buffer back, with an update that was
  lost since, and any operation that has computed without that update then loses
  it a second time.

The assumptions are those named in the modules: a positive flush size, natural
bounds, `MaxFence < UMax` (no fence is given the value that marks a removed
device), at least two command allocators, positive heap capacities, widths and
tile sizes, a positive alignment, minimal chunk size and size of a tensor,
finitely many variables, and names that differ. For the descriptor allocator:
positive sizes (`Alloc` returns before it asks for none), a largest allocation
that is a multiple of the smallest, regions that do not overlap
(`RegionStride`), and a device whose memory, with one more region, stays below
`memory_limit_`, which is the constant `kMaxTotalDescriptors`.

Only model-checked: liveness, which is outside the proof system's reach
(`SyncReturnsUnlessStopped`, `CommandsExecuteUnlessStopped`,
`ReachedCallbacksFire`, `CopyReturns`, `AllocationReturns`,
`QueueMutexReturns`, `OperationsReturn`), and what the three violations show.

## Observations

Seen in the code while modelling it; the first group is in the models, as an
exception that a property names or as a behaviour that nothing is claimed of.

* When closing a list runs out of memory the thread stores the status and exits
  without executing the batch (`dml_execution_context.cc:365`). `Flush` still
  returns an event of that batch or a later one, and `DmlDevice::Sync` waits for
  it without end: `SyncReturnsUnlessStopped` excludes it.
* A `Flush` with nothing batched is documented as a no-op
  (`dml_execution_context.h:116`) but leaves `flush_requested` set, so that the
  next command is flushed alone.
* The bound documented at `dml_event_queue.h:66` and asserted at
  `dml_event_queue.cc:55` compares with a sum that wraps around to 0 when the
  device is removed; `AwaitedInv` holds without the wrap-around.
* `CopyDeviceTensorsToCPU` returns as soon as one readback fails
  (`dml_device_context.cc:169`); callbacks of the earlier ones write to the
  caller's tensors later, which callers have destroyed by then.
* A reference to a kernel is queued after its execution was submitted
  (`dml_kernel_wrapper.cc:217`): when an error comes first (212), a kernel that
  is not cached is destroyed while its initialization is pending.
* `CreateCachedKernel` precedes the test of the status that the constructor has
  set (`dml_kernel_wrapper.cc:192`): a kernel whose initialization failed stays
  cached, and a later call executes it.
* `StridedSliceAssignInitHelper::IsNoOpKernel` releases the lock
  (`dml_strided_slice_op.cc:1031`), so `ResourceStridedSliceAssign` computes
  without one: the exception in `UniqueUpdatesAreKept`.
* A `ResourceGatherNd` that fails to allocate its output leaves its lock in the
  cached helper, until the kernel is used again or evicted: the exception in
  `OperationsReturn`.
* The scatter operations, slice-assign, `ResourceGather` and `RngSkip` look up
  the tensor before they lock (`dml_scatter_ops.cc:120`): an assignment in
  between sends the update to the old tensor. They share the lock although they
  update, so two scatter-adds may lose an update, and two `RngReadAndSkip` may
  return the same counter (`dml_random_ops.cc:1219`).
* A call of `ResourceGatherNd` that finds the kernel in the cache releases the
  lock of the call that created it (`dml_gather_nd_op.cc:349`, with the helper
  of `dml_kernel_wrapper.cc:63`), which may not have computed yet; an assignment
  can then replace the tensor that call gathers from: the exception in
  `LockedTensorsAreCurrent`.
* The allocation of an intermediate buffer is not checked
  (`dml_training_ops.cc:338`, `dml_scatter_ops.cc:453`,
  `dml_scatter_nd_ops.cc:626`, `dml_strided_slice_op.cc:1315`; the constructor
  at `dml_buffer.cc:51` returns silently), nor are the copies back
  (`dml_training_ops.cc:375`). The operation goes on with an empty binding and a
  copy of no bytes and returns OK, with some of its variables not updated: the
  exception in `UpdatesMatchResults`.
* A deallocation between a failed attempt and the wait for memory notifies
  nobody (`allocator_retry.cc:62`); the deadline and the last attempt make up
  for it at the cost of time (`FailureIsReal`).

Not in the models:

* `D3D12HeapAllocator::Free` destroys heaps at once; that the GPU is done with
  them is left to TensorFlow.
* `DescriptorAllocation`'s move assignment does not release the range it had
  (`dml_descriptor_bfc_allocator.cc:86`), and a range that could not be
  allocated is not tested for (`dml_ops_common.cc:332`, 435).
* Garbage collection of regions is described as enabled at
  `dml_descriptor_bfc_allocator.h:75` and disabled in the options
  (`dml_descriptor_bfc_allocator.cc:30`).
* `kNumMaxDevices` is the number of bits of a device ID, not the number of IDs.
* The device manager keeps its pointer to a device that the plugin has destroyed.
* The range test of `RandomUniformInt64KernelSelector` wraps around for a range
  of 2^33 and lets it through (`dml_random_ops.cc:934`).

## Not modelled, and the plan

About half of the repository's 143,785 lines are generated operator
definitions, and most of the others translate one operator to DirectML: they
have no state, and no step of them can interleave with anything. The modules
cover what is left, the core, the allocators and the kernels that share
variables. Not modelled for good: numeric kernels and their DirectML
descriptions, the generated operator definitions, tracing, discovery of
adapters and loading of libraries, wrappers of the TensorFlow C API.

Not modelled, though it could be:

* *Shapes, strides and broadcasting, fill patterns, kernel keys.* Pure functions
  of one call. Equality and hashing of keys go over the same fields.
* *Random generators.* One critical section around a skip of a 128-bit counter.
* *Graph optimizers.* One thread rewrites a graph through a mutable view; a model
  of the view would be as long as the view.

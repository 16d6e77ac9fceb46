---------------------------- MODULE ReadbackHeap ----------------------------
(***************************************************************************)
(* DmlReadbackHeap: the actions of a copy from GPU to CPU memory.  A       *)
(* command copies the source to staging memory; when the GPU is done, a    *)
(* callback of the event queue copies from there to the destination and    *)
(* signals the heap's own fence.                                           *)
(*                                                                         *)
(* The execution context is the stream it is proved to implement           *)
(* (CommandStream), the event queue likewise (CallbackQueue).  The r-th    *)
(* readback is the r-th callback and has fence value r.                    *)
(***************************************************************************)
EXTENDS PooledHeap

CONSTANT Callers    \* threads that copy from the device

VARIABLES
    issued, executed, signaled, barrier,    \* the stream
    value, fired,                           \* the event queue
    status,                     \* GetCommandRecorderStatus
    fence_value,                \* current_completion_event_.fence_value
    readback_completed,         \* the completed value of the heap's fence
    holder,                     \* who is in ReadbackFromGpu, under mutex_
    command, region,            \* of each readback
    memory,                     \* the readback each staging unit has data of
    received                    \* what each destination was filled with

streamVars == <<issued, executed, signaled, barrier>>
queueVars == <<value, fired>>
readbackVars == <<heapVars, streamVars, queueVars, status, fence_value,
                  readback_completed, holder, command, region, memory,
                  received>>

Stream == INSTANCE CommandStream

Callbacks == INSTANCE CallbackQueue WITH
    completed <- signaled, Fences <- Nat

Nobody == "nobody"

ReadbackInit ==
    /\ HeapInit
    /\ Stream!Init
    /\ value = << >> /\ fired = << >>
    /\ status = "OK"
    /\ fence_value = 0
    /\ readback_completed = 0
    /\ holder = Nobody
    /\ command = << >> /\ region = << >>
    /\ memory = << >>
    /\ received = << >>

Units(r) == {<<r.resource, u>> : u \in r.offset..(r.offset + r.size - 1)}

(* The event that releases the staging memory is the heap's own. *)
DoneEvent == fence_value'

(* Mutant: staging memory is released when the GPU is done with it. *)
CompletedOnGpu == signaled

(* The fence that ReclaimAllocations looks at. *)
CompletedValue == readback_completed

(* ReadbackFromGpu up to the call of Enqueue. *)
ReadbackFromGpu(c, size) ==
    LET reclaimed == ReclaimAllocations(CompletedValue)
    IN  /\ holder = Nobody
        /\ holder' = c
        /\ Stream!Issue
        /\ fence_value' = fence_value + 1
        /\ Allocate(reclaimed, size, DoneEvent)
        /\ command' = Append(command, Len(issued) + 1)
        /\ region' = Append(region, Region(reclaimed, size))
        /\ received' = Append(received, {})
        /\ UNCHANGED <<queueVars, status, readback_completed, memory>>

(* Reserve runs out of memory: an error is returned. *)
ReadbackFails(size) ==
    /\ holder = Nobody
    /\ ReserveFails(ReclaimAllocations(CompletedValue), size)
    /\ UNCHANGED <<streamVars, queueVars, status, fence_value,
                   readback_completed, holder, command, region, memory,
                   received>>

(* Mutant: the event is not signaled. *)
SignalNothing(r) == UNCHANGED readback_completed

(* done_event.fence->Signal *)
SignalDone(r) ==
    IF status = "OK" THEN readback_completed' = r
    ELSE UNCHANGED readback_completed

(* done_callback: nothing is copied, or signaled, once the recorder failed. *)
DoneCallback(r) ==
    /\ received' = IF status # "OK" THEN received
                   ELSE [received EXCEPT ![r] =
                            {memory[u] : u \in Units(region[r])}]
    /\ SignalDone(r)

(* Enqueue, which invokes the callback itself if the GPU is already done,    *)
(* and the return of ReadbackFromGpu.                                        *)
EnqueueCallback(c) ==
    LET gpu_done_event == issued[command[fence_value]]
    IN  /\ holder = c
        /\ holder' = Nobody
        /\ \/ /\ Callbacks!Enqueue(gpu_done_event)
              /\ UNCHANGED <<received, readback_completed>>
           \/ /\ Callbacks!EnqueueAndFire(gpu_done_event)
              /\ DoneCallback(fence_value)
        /\ UNCHANGED <<heapVars, streamVars, status, fence_value, command,
                       region, memory>>

(* The event queue's thread invokes a callback. *)
FireCallback ==
    /\ \E r \in 1..Len(value) : Callbacks!Fire(r) /\ DoneCallback(r)
    /\ UNCHANGED <<heapVars, streamVars, status, fence_value, holder, command,
                   region, memory>>

(* External: the GPU executes the commands of the next event; the ones that  *)
(* are readbacks write to staging memory.                                    *)
GpuSignals ==
    LET written == {r \in 1..Len(command) : /\ command[r] > Len(executed)
                                            /\ command[r] <= Len(executed')}
        last(u) == Max({r \in written : u \in Units(region[r])})
        units   == UNION {Units(region[r]) : r \in written}
    IN  /\ Stream!Signal
        /\ memory' = [u \in units \cup DOMAIN memory |->
                         IF u \in units THEN last(u) ELSE memory[u]]
        /\ UNCHANGED <<heapVars, queueVars, status, fence_value,
                       readback_completed, holder, command, region, received>>

(* External: another command is submitted to the execution context. *)
OtherCommand ==
    /\ Stream!Issue
    /\ UNCHANGED <<heapVars, queueVars, status, fence_value,
                   readback_completed, holder, command, region, memory,
                   received>>

(* External: the execution context runs out of memory and stops. *)
RecorderFails ==
    /\ status = "OK"
    /\ status' = "ResourceExhausted"
    /\ UNCHANGED <<heapVars, streamVars, queueVars, fence_value,
                   readback_completed, holder, command, region, memory,
                   received>>

TrimHeap ==
    /\ holder = Nobody
    /\ Trim(CompletedValue)
    /\ UNCHANGED <<streamVars, queueVars, status, fence_value,
                   readback_completed, holder, command, region, memory,
                   received>>
=============================================================================

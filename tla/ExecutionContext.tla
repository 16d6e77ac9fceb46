-------------------------- MODULE ExecutionContext --------------------------
(***************************************************************************)
(* DmlExecutionContext: kernels on any thread append commands to the       *)
(* "write batch" under a mutex and are handed the fence value that will    *)
(* cover them; a background thread swaps the two batches, records the one  *)
(* it took into a command list and submits it to the command queue.        *)
(*                                                                         *)
(* A command is the number of the call that submitted it.  What a command  *)
(* records is the subject of module CommandList.  A critical section of    *)
(* the mutex is one step; everything the thread does outside of it is a    *)
(* step of its own.                                                        *)
(***************************************************************************)
EXTENDS CommandQueue

CONSTANTS
    Callers,            \* threads that call DmlDevice::Sync
    BatchFlushSize,     \* TF_DIRECTML_BATCH_FLUSH_SIZE
    MaxCommands         \* bound: commands submitted in a behaviour

ASSUME BatchFlushSizeAssumption == BatchFlushSize \in Nat \ {0}
ASSUME MaxCommandsAssumption == MaxCommands \in Nat

VARIABLES
    \* BatchState, guarded by its mutex
    batches, write_batch_index, next_flush_event,
    exit_requested, flush_requested, status,
    \* the execution thread
    pc,             \* where the thread is
    exec_batch,     \* the index the local reference `batch` stands for
    elapsed,        \* elapsed_us >= batch_flush_time_us, sampled at the loop top
    recorded,       \* the contents of the open command list
    timer_expired,  \* the batch flush time has passed since last_flush_time
    \* callers
    sync,           \* per caller, its call of DmlDevice::Sync
    issued          \* history: the event handed out for each command

batchVars == <<batches, write_batch_index, next_flush_event, exit_requested,
               flush_requested, status>>
threadVars == <<pc, exec_batch, elapsed, recorded, timer_expired>>
vars == <<queueVars, batchVars, threadVars, sync, issued>>

WriteBatch == batches[write_batch_index]

-----------------------------------------------------------------------------
(* The constructor: the first flush signals the value after the current. *)
Init ==
    /\ QueueInit
    /\ batches = [b \in 0..1 |-> << >>]
    /\ write_batch_index = 0
    /\ next_flush_event = GetCurrentCompletionEvent + 1
    /\ exit_requested = FALSE
    /\ flush_requested = FALSE
    /\ status = "OK"
    /\ pc = "loop"
    /\ exec_batch = 0
    /\ elapsed = FALSE
    /\ recorded = << >>
    /\ timer_expired = FALSE
    /\ sync = [c \in Callers |-> [waiting |-> FALSE, event |-> 0, point |-> 0]]
    /\ issued = << >>

(* command_added.notify_all: a thread blocked in wait() returns to the top. *)
NotifyAll == pc' = IF pc = "wait" THEN "loop" ELSE pc

(* Mutant: an empty write batch is not told apart. *)
NextFlushEvent == next_flush_event

(* Mutant: the event of the previous flush. *)
PreviousFlushEvent == next_flush_event - 1

(* The event that covers everything submitted so far. *)
CompletionEvent ==
    IF WriteBatch = << >> THEN next_flush_event - 1 ELSE next_flush_event

(* CopyBufferRegion, FillBufferWithPattern, InitializeOperator,              *)
(* ExecuteOperator, ResourceBarrier and UavBarrier: each appends one closure *)
(* to the write batch, wakes the thread and returns next_flush_event.        *)
Submit ==
    /\ ~exit_requested
    /\ Len(issued) < MaxCommands
    /\ batches' = [batches EXCEPT ![write_batch_index] =
                      Append(@, Len(issued) + 1)]
    /\ issued' = Append(issued, next_flush_event)
    /\ NotifyAll
    /\ UNCHANGED <<queueVars, write_batch_index, next_flush_event,
                   exit_requested, flush_requested, status, exec_batch,
                   elapsed, recorded, timer_expired, sync>>

(* Flush, the first half of DmlDevice::Sync.  The caller remembers the event *)
(* it was given; `point` is the number of commands submitted before the call.*)
Flush(c) ==
    /\ ~exit_requested
    /\ ~sync[c].waiting
    /\ sync' = [sync EXCEPT ![c] = [waiting |-> TRUE,
                                    event   |-> CompletionEvent,
                                    point   |-> Len(issued)]]
    /\ flush_requested' = TRUE
    /\ NotifyAll
    /\ UNCHANGED <<queueVars, batches, write_batch_index, next_flush_event,
                   exit_requested, status, exec_batch, elapsed, recorded,
                   timer_expired, issued>>

(* WaitForSignal returns and Sync with it. *)
SyncReturns(c) ==
    /\ sync[c].waiting
    /\ IsSignaled(sync[c].event)
    /\ sync' = [sync EXCEPT ![c].waiting = FALSE]
    /\ UNCHANGED <<queueVars, batchVars, threadVars, issued>>

(* The destructor asks the thread to stop and detaches it. *)
Destroy ==
    /\ ~exit_requested
    /\ exit_requested' = TRUE
    /\ NotifyAll
    /\ UNCHANGED <<queueVars, batches, write_batch_index, next_flush_event,
                   flush_requested, status, exec_batch, elapsed, recorded,
                   timer_expired, sync, issued>>

-----------------------------------------------------------------------------
(* ExecutionThreadProc *)

(* The top of the loop reads the clock before it takes the lock. *)
ThreadReadsClock ==
    /\ pc = "loop"
    /\ elapsed' = timer_expired
    /\ pc' = "lock"
    /\ UNCHANGED <<queueVars, batchVars, exec_batch, recorded, timer_expired,
                   sync, issued>>

ThreadExits ==
    /\ pc = "lock"
    /\ exit_requested
    /\ pc' = "exited"
    /\ UNCHANGED <<queueVars, batchVars, exec_batch, elapsed, recorded,
                   timer_expired, sync, issued>>

ThreadWaits ==
    /\ pc = "lock"
    /\ ~exit_requested
    /\ WriteBatch = << >>
    /\ pc' = "wait"
    /\ UNCHANGED <<queueVars, batchVars, exec_batch, elapsed, recorded,
                   timer_expired, sync, issued>>

(* A condition variable may wake without a notification. *)
SpuriousWakeup ==
    /\ pc = "wait"
    /\ pc' = "loop"
    /\ UNCHANGED <<queueVars, batchVars, exec_batch, elapsed, recorded,
                   timer_expired, sync, issued>>

(* Mutant: the time since the last flush is ignored. *)
FlushWhenFullOrAsked ==
    \/ flush_requested
    \/ Len(WriteBatch) >= BatchFlushSize

FlushNow ==
    \/ flush_requested
    \/ Len(WriteBatch) >= BatchFlushSize
    \/ elapsed

ThreadSkips ==
    /\ pc = "lock"
    /\ ~exit_requested
    /\ WriteBatch # << >>
    /\ ~FlushNow
    /\ flush_requested' = FALSE
    /\ pc' = "loop"
    /\ UNCHANGED <<queueVars, batches, write_batch_index, next_flush_event,
                   exit_requested, status, exec_batch, elapsed, recorded,
                   timer_expired, sync, issued>>

(* Mutant: the batches are not swapped. *)
SwapNothing ==
    /\ exec_batch' = write_batch_index
    /\ UNCHANGED write_batch_index
    /\ next_flush_event' = next_flush_event + 1

(* Mutant: the event of the next flush is not advanced. *)
SwapOnlyBatches ==
    /\ exec_batch' = write_batch_index
    /\ write_batch_index' = (write_batch_index + 1) % 2
    /\ UNCHANGED next_flush_event

SwapBatches ==
    /\ exec_batch' = write_batch_index
    /\ write_batch_index' = (write_batch_index + 1) % 2
    /\ next_flush_event' = next_flush_event + 1

ThreadSwaps ==
    /\ pc = "lock"
    /\ ~exit_requested
    /\ WriteBatch # << >>
    /\ FlushNow
    /\ SwapBatches
    /\ flush_requested' = FALSE
    /\ pc' = "open"
    /\ UNCHANGED <<queueVars, batches, exit_requested, status, elapsed,
                   recorded, timer_expired, sync, issued>>

ThreadOpens ==
    /\ pc = "open"
    /\ recorded' = << >>
    /\ pc' = "record"
    /\ UNCHANGED <<queueVars, batchVars, exec_batch, elapsed, timer_expired,
                   sync, issued>>

(* One iteration of the loop over the batch. *)
ThreadRecords ==
    /\ pc = "record"
    /\ Len(recorded) < Len(batches[exec_batch])
    /\ recorded' = Append(recorded, batches[exec_batch][Len(recorded) + 1])
    /\ UNCHANGED <<queueVars, batchVars, pc, exec_batch, elapsed,
                   timer_expired, sync, issued>>

ThreadCloses ==
    /\ pc = "record"
    /\ Len(recorded) = Len(batches[exec_batch])
    /\ pc' = "execute"
    /\ UNCHANGED <<queueVars, batchVars, exec_batch, elapsed, recorded,
                   timer_expired, sync, issued>>

(* Close reports that the driver ran out of memory while recording. *)
ThreadClosesOutOfMemory ==
    /\ pc = "record"
    /\ Len(recorded) = Len(batches[exec_batch])
    /\ pc' = "failed"
    /\ UNCHANGED <<queueVars, batchVars, exec_batch, elapsed, recorded,
                   timer_expired, sync, issued>>

ThreadReportsFailure ==
    /\ pc = "failed"
    /\ status' = "ResourceExhausted"
    /\ pc' = "exited"
    /\ UNCHANGED <<queueVars, batches, write_batch_index, next_flush_event,
                   exit_requested, flush_requested, exec_batch, elapsed,
                   recorded, timer_expired, sync, issued>>

ThreadExecutes ==
    /\ pc = "execute"
    /\ ExecuteCommandLists(recorded)
    /\ pc' = "clear"
    /\ UNCHANGED <<batchVars, exec_batch, elapsed, recorded, timer_expired,
                   sync, issued>>

ThreadClears ==
    /\ pc = "clear"
    /\ batches' = [batches EXCEPT ![exec_batch] = << >>]
    /\ timer_expired' = FALSE
    /\ pc' = "loop"
    /\ UNCHANGED <<queueVars, write_batch_index, next_flush_event,
                   exit_requested, flush_requested, status, exec_batch,
                   elapsed, recorded, sync, issued>>

ThreadStep ==
    \/ ThreadReadsClock \/ ThreadExits \/ ThreadWaits \/ ThreadSkips
    \/ ThreadSwaps \/ ThreadOpens \/ ThreadRecords \/ ThreadCloses
    \/ ThreadClosesOutOfMemory \/ ThreadReportsFailure \/ ThreadExecutes
    \/ ThreadClears

-----------------------------------------------------------------------------
(* External: batch_flush_time_us goes by since last_flush_time. *)
TimePasses ==
    /\ ~timer_expired
    /\ timer_expired' = TRUE
    /\ UNCHANGED <<queueVars, batchVars, pc, exec_batch, elapsed, recorded,
                   sync, issued>>

GpuStep ==
    /\ GpuCompletes
    /\ UNCHANGED <<batchVars, threadVars, sync, issued>>

Next ==
    \/ Submit
    \/ \E c \in Callers : Flush(c) \/ SyncReturns(c)
    \/ Destroy
    \/ ThreadStep
    \/ SpuriousWakeup
    \/ TimePasses
    \/ GpuStep

(* The operating system runs the thread and wakes waiters of a signaled      *)
(* fence, and the GPU finishes the work it was given.                        *)
Fairness ==
    /\ WF_vars(ThreadStep)
    /\ WF_vars(GpuStep)
    /\ \A c \in Callers : WF_vars(SyncReturns(c))

Spec == Init /\ [][Next]_vars

(* Nothing bounds the flush time: in general progress may not rest on the    *)
(* timer.                                                                    *)
FairSpec == Spec /\ Fairness

TimerExpires == WF_vars(TimePasses)

-----------------------------------------------------------------------------
(* The thread has taken a batch that it has not given to the queue; after a  *)
(* failure that batch stays where it is.                                     *)
Taken ==
    pc \in {"open", "record", "execute", "failed"} \/ status # "OK"

Held == IF Taken THEN batches[exec_batch] ELSE << >>

TypeOK ==
    /\ last_fence_value \in Nat
    /\ in_flight \in Seq([commands : Seq(Nat), signal : Nat])
    /\ completed \in Nat
    /\ executed \in Seq(Nat)
    /\ batches \in [0..1 -> Seq(Nat)]
    /\ write_batch_index \in 0..1
    /\ next_flush_event \in Nat
    /\ exit_requested \in BOOLEAN
    /\ flush_requested \in BOOLEAN
    /\ status \in {"OK", "ResourceExhausted"}
    /\ pc \in {"loop", "lock", "wait", "open", "record", "execute", "failed",
               "clear", "exited"}
    /\ exec_batch \in 0..1
    /\ elapsed \in BOOLEAN
    /\ recorded \in Seq(Nat)
    /\ timer_expired \in BOOLEAN
    /\ sync \in [Callers -> [waiting : BOOLEAN, event : Nat, point : Nat]]
    /\ issued \in Seq(Nat)

-----------------------------------------------------------------------------
(* The parts of the inductive invariant. *)

(* Fence values are handed out without gaps: each list in flight signals the *)
(* next one, and next_flush_event leaves room for the batch that is taken.   *)
FencesInv ==
    /\ last_fence_value = completed + Len(in_flight)
    /\ \A k \in 1..Len(in_flight) : in_flight[k].signal = completed + k
    /\ next_flush_event = last_fence_value + (IF Taken THEN 2 ELSE 1)

(* The thread works on the batch that is not being written; when it works on *)
(* none, that batch is empty, so the next swap starts with an empty one.     *)
BatchesInv ==
    /\ status # "OK" => pc = "exited"
    /\ Taken \/ pc = "clear" => exec_batch # write_batch_index
    /\ ~Taken /\ pc # "clear" => \A b \in 0..1 :
          b # write_batch_index => batches[b] = << >>
    /\ Taken => Held # << >>

(* What has been recorded is a prefix of the batch, all of it once closed. *)
RecordedInv ==
    /\ pc = "record" => /\ Len(recorded) <= Len(Held)
                        /\ \A i \in 1..Len(recorded) : recorded[i] = Held[i]
    /\ pc = "execute" => recorded = Held

(* The last command that left the write batch, and that entered the queue. *)
LastTaken == Len(issued) - Len(WriteBatch)
LastQueued == LastTaken - Len(Held)

(* The last command of the k-th list in flight; of what is done when k = 0. *)
LastOf(k) ==
    IF k = 0 THEN Len(executed)
    ELSE in_flight[k].commands[Len(in_flight[k].commands)]

(* Executed commands, lists in flight, the taken batch and the write batch   *)
(* are consecutive pieces of the sequence of commands issued.                *)
OrderInv ==
    /\ LastQueued \in Nat
    /\ LastOf(Len(in_flight)) = LastQueued
    /\ \A i \in 1..Len(executed) : executed[i] = i
    /\ \A k \in 0..Len(in_flight) : LastOf(k) \in 0..LastQueued
    /\ \A k \in 1..Len(in_flight) :
          /\ in_flight[k].commands # << >>
          /\ \A i \in 1..Len(in_flight[k].commands) :
                in_flight[k].commands[i] = LastOf(k - 1) + i
    /\ \A i \in 1..Len(Held) : Held[i] = LastQueued + i
    /\ \A i \in 1..Len(WriteBatch) : WriteBatch[i] = LastTaken + i

LastEvent == IF issued = << >> THEN 0 ELSE issued[Len(issued)]

(* A command's event is the fence value of the piece that holds it, and no   *)
(* event is skipped.                                                         *)
EventsInv ==
    /\ \A k \in 0..Len(in_flight) : \A i \in 1..Len(issued) :
          issued[i] <= completed + k <=> i <= LastOf(k)
    /\ \A i \in 1..Len(issued) :
          /\ i > LastQueued /\ i <= LastTaken => issued[i] = last_fence_value + 1
          /\ i > LastTaken => issued[i] = next_flush_event
    /\ next_flush_event <= LastEvent + 1

(* A Sync call holds an event no older than those of the commands before it. *)
SyncInv ==
    \A c \in Callers :
        /\ sync[c].point <= Len(issued)
        /\ \A i \in 1..sync[c].point : issued[i] <= sync[c].event

(* The inductive invariant: types, and how the batches, the queue, the       *)
(* events handed out and the waiting Sync calls fit together.                *)
IInv ==
    /\ TypeOK
    /\ FencesInv
    /\ BatchesInv
    /\ RecordedInv
    /\ OrderInv
    /\ EventsInv
    /\ SyncInv

-----------------------------------------------------------------------------
(* Properties *)

(* The GPU executes the commands exactly once and in the order in which the  *)
(* threads that submitted them took the mutex, whatever the batching.        *)
ExecutedInOrder == \A i \in 1..Len(executed) : executed[i] = i

(* The event a call returned is signaled if and only if the GPU has executed *)
(* that call's command: resources may be released on it, and not before.     *)
SignaledIffExecuted ==
    \A i \in 1..Len(issued) : IsSignaled(issued[i]) <=> i <= Len(executed)

(* When the event that Flush gave to a Sync call is signaled, every command  *)
(* submitted before the call has been executed.                              *)
SyncIsBarrier ==
    \A c \in Callers :
        IsSignaled(sync[c].event) => sync[c].point <= Len(executed)

(* The thread iterates over its batch without the mutex: no other thread may *)
(* change that batch while it does (double buffering of the batches).        *)
TakenBatchIsStable ==
    [][Taken /\ Taken' => Held' = Held]_vars

(* The stream that callers see of the batches, the thread and the queue. *)
Stream == INSTANCE CommandStream WITH
    signaled <- completed,
    barrier  <- [c \in Callers |-> [waiting |-> sync[c].waiting,
                                    point   |-> sync[c].point]]

(* The context implements the in-order stream of CommandStream: batching,    *)
(* double buffering and the thread's failure do not show.                    *)
StreamSpec == Stream!Spec

(* The recorder stopped: it failed, or the context is being destroyed. *)
Stopped == exit_requested \/ status # "OK"

(* A Sync call returns unless the recorder stops, even when the flush timer  *)
(* never expires: its Flush is neither lost nor forgotten.                   *)
SyncReturnsUnlessStopped ==
    \A c \in Callers : sync[c].waiting ~> ~sync[c].waiting \/ Stopped

(* If the timer expires, every command is executed without any call of       *)
(* Flush, also when its batch never becomes full.                            *)
CommandsExecuteUnlessStopped ==
    TimerExpires =>
        \A i \in 1..MaxCommands :
            Len(issued) >= i ~> Len(executed) >= i \/ Stopped
=============================================================================

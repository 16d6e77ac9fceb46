---------------------------- MODULE CommandQueue ----------------------------
(***************************************************************************)
(* DmlCommandQueue: one D3D12 command queue and the fence that is signaled *)
(* with a value that grows by one after every ExecuteCommandLists.         *)
(*                                                                         *)
(* The D3D12 queue and its GPU are external: command lists are executed    *)
(* one at a time in submission order and the fence value enqueued after a  *)
(* list becomes visible when that list is finished.                        *)
(***************************************************************************)
EXTENDS Naturals, Sequences

VARIABLES
    last_fence_value,   \* the value of the latest Signal put in the queue
    in_flight,          \* lists the GPU has not finished, oldest first
    completed,          \* ID3D12Fence::GetCompletedValue
    executed            \* history: the commands the GPU has finished, in order

queueVars == <<last_fence_value, in_flight, completed, executed>>

QueueInit ==
    /\ last_fence_value = 0
    /\ in_flight = << >>
    /\ completed = 0
    /\ executed = << >>

(* The list and the Signal that follows it are put in the queue. *)
ExecuteCommandLists(list) ==
    /\ last_fence_value' = last_fence_value + 1
    /\ in_flight' = Append(in_flight, [commands |-> list,
                                       signal   |-> last_fence_value'])
    /\ UNCHANGED <<completed, executed>>

GetCurrentCompletionEvent == last_fence_value

GetNextCompletionEvent == last_fence_value + 1

(* DmlGpuEvent::IsSignaled of an event of this queue's fence. *)
IsSignaled(fence_value) == completed >= fence_value

(* External: the GPU finishes its oldest list and signals the fence. *)
GpuCompletes ==
    /\ in_flight # << >>
    /\ executed' = executed \o Head(in_flight).commands
    /\ completed' = Head(in_flight).signal
    /\ in_flight' = Tail(in_flight)
    /\ UNCHANGED last_fence_value
=============================================================================

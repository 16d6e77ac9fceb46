----------------------------- MODULE EventQueue -----------------------------
(***************************************************************************)
(* DmlEventQueue: callbacks that wait for values of one fence.  A thread   *)
(* waits for the fence to move past the value it last saw and invokes the  *)
(* callbacks of the values that were reached; a callback enqueued for a    *)
(* value that the thread has already moved past is invoked by Enqueue.     *)
(* Callbacks run with the queue's mutex held.                              *)
(*                                                                         *)
(* A callback is the number of its Enqueue call.  The multimap of events   *)
(* orders callbacks by fence value and, for equal values, by insertion.    *)
(***************************************************************************)
EXTENDS Naturals, Sequences, FiniteSets

CONSTANTS
    UMax,           \* UINT64_MAX, the value of every fence of a removed device
    MaxFence,       \* bound: the largest value the queue's fence is given
    MaxCallbacks    \* bound: calls of Enqueue in a behaviour

ASSUME UMaxAssumption == UMax \in Nat /\ MaxFence \in Nat /\ MaxFence < UMax
ASSUME MaxCallbacksAssumption == MaxCallbacks \in Nat

VARIABLES
    completed,          \* external: fence->GetCompletedValue()
    \* SharedState, guarded by its mutex
    events,             \* events_by_fence_value: the callbacks in the multimap
    current_awaited_fence_value, exit_requested,
    \* the thread
    pc,
    events_to_process,  \* callbacks the thread took out of the multimap
    next_fence_value, device_removed,
    \* history
    value,              \* the fence value of each callback
    fired               \* the callbacks invoked, in order

sharedVars == <<events, current_awaited_fence_value, exit_requested>>
threadVars == <<pc, events_to_process, next_fence_value, device_removed>>
queueVars == <<completed, sharedVars, threadVars, value, fired>>

Plus1(v) == (v + 1) % (UMax + 1)        \* uint64_t arithmetic

QueueInit ==
    /\ completed = 0
    /\ events = {}
    /\ current_awaited_fence_value = 0
    /\ exit_requested = FALSE
    /\ pc = "top"
    /\ events_to_process = {}
    /\ next_fence_value = 0
    /\ device_removed = FALSE
    /\ value = << >>
    /\ fired = << >>

(* The thread holds the mutex while it invokes callbacks. *)
MutexIsFree == pc # "process"

NotifyAll == pc' = IF pc = "wait" THEN "top" ELSE pc

(* Mutant: nobody is notified. *)
EnqueueUnnoticed(v) ==
    /\ events' = events \cup {Len(value) + 1}
    /\ UNCHANGED <<pc, fired>>

(* Mutant: the awaited value itself counts as reached. *)
NotYetReachedLate(v) == current_awaited_fence_value < v

(* The thread may still have to see fence value v. *)
NotYetReached(v) == current_awaited_fence_value <= v

(* The event is queued and the thread notified. *)
QueueEvent(v) ==
    /\ events' = events \cup {Len(value) + 1}
    /\ NotifyAll
    /\ UNCHANGED fired

Enqueue(v) ==
    /\ ~exit_requested
    /\ MutexIsFree
    /\ Len(value) < MaxCallbacks
    /\ value' = Append(value, v)
    /\ \/ NotYetReached(v) /\ QueueEvent(v)
       \/ /\ ~NotYetReached(v)
          /\ fired' = Append(fired, Len(value) + 1)
          /\ UNCHANGED <<events, pc>>
    /\ UNCHANGED <<completed, current_awaited_fence_value, exit_requested,
                   events_to_process, next_fence_value, device_removed>>

Destroy ==
    /\ ~exit_requested
    /\ MutexIsFree
    /\ exit_requested' = TRUE
    /\ NotifyAll
    /\ UNCHANGED <<completed, events, current_awaited_fence_value,
                   events_to_process, next_fence_value, device_removed, value,
                   fired>>

-----------------------------------------------------------------------------
(* ThreadProc *)

ThreadExits ==
    /\ pc = "top"
    /\ exit_requested
    /\ pc' = "exited"
    /\ UNCHANGED <<completed, sharedVars, events_to_process, next_fence_value,
                   device_removed, value, fired>>

ThreadWaits ==
    /\ pc = "top"
    /\ ~exit_requested
    /\ events = {}
    /\ pc' = "wait"
    /\ UNCHANGED <<completed, sharedVars, events_to_process, next_fence_value,
                   device_removed, value, fired>>

SpuriousWakeup ==
    /\ pc = "wait"
    /\ pc' = "top"
    /\ UNCHANGED <<completed, sharedVars, events_to_process, next_fence_value,
                   device_removed, value, fired>>

(* The next value to wait for; a removed device counts as beyond all values. *)
NextFence == IF Plus1(completed) = 0 THEN UMax ELSE Plus1(completed)

(* Mutant: the events of the awaited value are taken as well. *)
ReachedTooFar(next) == {e \in events : value[e] <= next}

(* The events before lower_bound(next). *)
Reached(next) == {e \in events : value[e] < next}

(* Mutant: the events taken stay in the multimap. *)
EraseNothing(taken) == events

Erase(taken) == events \ taken

(* Still holding the mutex, the thread takes the events that were reached. *)
ThreadTakesEvents ==
    /\ pc = "top"
    /\ ~exit_requested
    /\ events # {}
    /\ device_removed' = (Plus1(completed) = 0)
    /\ next_fence_value' = NextFence
    /\ current_awaited_fence_value' = next_fence_value'
    /\ events_to_process' = Reached(next_fence_value')
    /\ events' = Erase(events_to_process')
    /\ pc' = "process"
    /\ UNCHANGED <<completed, exit_requested, value, fired>>

(* Mutant: callbacks are invoked newest first. *)
NewestFirst(e) == \A f \in events_to_process : f <= e

(* The order of the multimap. *)
IsFirst(e) ==
    \A f \in events_to_process :
        value[e] < value[f] \/ (value[e] = value[f] /\ e <= f)

ThreadInvokesCallback ==
    /\ pc = "process"
    /\ \E e \in events_to_process :
          /\ IsFirst(e)
          /\ fired' = Append(fired, e)
          /\ events_to_process' = events_to_process \ {e}
    /\ UNCHANGED <<completed, sharedVars, pc, next_fence_value, device_removed,
                   value>>

(* All callbacks have returned: the thread unlocks, or exits if the device   *)
(* was removed.                                                              *)
ThreadUnlocks ==
    /\ pc = "process"
    /\ events_to_process = {}
    /\ pc' = IF device_removed THEN "exited"
             ELSE IF events = {} THEN "top" ELSE "await"
    /\ UNCHANGED <<completed, sharedVars, events_to_process, next_fence_value,
                   device_removed, value, fired>>

(* WaitForSignal returns. *)
ThreadSeesSignal ==
    /\ pc = "await"
    /\ completed >= next_fence_value
    /\ pc' = "top"
    /\ UNCHANGED <<completed, sharedVars, events_to_process, next_fence_value,
                   device_removed, value, fired>>

ThreadStep ==
    \/ ThreadExits \/ ThreadWaits \/ ThreadTakesEvents
    \/ ThreadInvokesCallback \/ ThreadUnlocks \/ ThreadSeesSignal

-----------------------------------------------------------------------------
(* External: the fence is signaled with a larger value. *)
FenceAdvances ==
    /\ completed < MaxFence
    /\ \E v \in (completed + 1)..MaxFence : completed' = v
    /\ UNCHANGED <<sharedVars, threadVars, value, fired>>

(* External: the device is removed. *)
DeviceRemoved ==
    /\ completed # UMax
    /\ completed' = UMax
    /\ UNCHANGED <<sharedVars, threadVars, value, fired>>

QueueNext ==
    \/ \E v \in 0..MaxFence : Enqueue(v)
    \/ Destroy
    \/ ThreadStep
    \/ SpuriousWakeup
    \/ FenceAdvances
    \/ DeviceRemoved

QueueSpec == QueueInit /\ [][QueueNext]_queueVars

(* The operating system runs the thread. *)
QueueFairSpec == QueueSpec /\ WF_queueVars(ThreadStep)

-----------------------------------------------------------------------------
FiredSet == {fired[i] : i \in 1..Len(fired)}

QueueTypeOK ==
    /\ completed \in 0..UMax
    /\ value \in Seq(0..MaxFence)
    /\ fired \in Seq(1..Len(value))
    /\ events \subseteq 1..Len(value)
    /\ events_to_process \subseteq 1..Len(value)
    /\ current_awaited_fence_value \in 0..UMax
    /\ next_fence_value \in 0..UMax
    /\ exit_requested \in BOOLEAN
    /\ device_removed \in BOOLEAN
    /\ pc \in {"top", "wait", "process", "await", "exited"}

-----------------------------------------------------------------------------
(* Properties *)

(* A callback is invoked only when its fence value has been reached, by the  *)
(* thread or by Enqueue itself: the GPU is done with what the callback frees.*)
CallbackAfterSignal == \A e \in FiredSet : value[e] <= completed

(* Every callback is in exactly one place and is invoked at most once, with  *)
(* Enqueue racing the thread over the value the thread awaits.               *)
ExactlyOnce ==
    /\ events \cup events_to_process \cup FiredSet = 1..Len(value)
    /\ events \cap events_to_process = {}
    /\ (events \cup events_to_process) \cap FiredSet = {}
    /\ \A i, j \in 1..Len(fired) : fired[i] = fired[j] => i = j

(* "If there are multiple callbacks enqueued for a single fence value, those *)
(* callbacks are executed in the order they were queued": a callback is      *)
(* never invoked while an earlier one with the same or a smaller value waits.*)
InvokedInOrder ==
    \A e \in FiredSet : \A d \in events \cup events_to_process :
        d < e => value[d] > value[e]

(* The parts of the inductive invariant: the thread is never ahead of the    *)
(* fence by more than one, the multimap holds no value the thread has moved  *)
(* past, and events are only in processing while the mutex is held.          *)
AwaitedInv == current_awaited_fence_value <= completed + 1

PendingInv ==
    /\ \A e \in events : value[e] >= current_awaited_fence_value
    /\ \A e \in events_to_process : /\ value[e] < current_awaited_fence_value
                                    /\ value[e] <= completed
    /\ pc # "process" => events_to_process = {}

(* The inductive invariant: types, where the thread is relative to the fence *)
(* and to the queued values, and the three guarantees above.                 *)
QueueInv ==
    /\ QueueTypeOK
    /\ AwaitedInv
    /\ PendingInv
    /\ CallbackAfterSignal
    /\ ExactlyOnce
    /\ InvokedInOrder

(* Once a callback's value is reached, or the device is removed, it is       *)
(* invoked unless the queue is destroyed.                                    *)
ReachedCallbacksFire ==
    \A e \in 1..MaxCallbacks :
        (e <= Len(value) /\ value[e] <= completed)
            ~> (e \in FiredSet \/ exit_requested)

(* The callbacks that callers see of the thread and the multimap. *)
Callbacks == INSTANCE CallbackQueue WITH Fences <- 0..UMax

(* The queue implements the ordered callbacks of CallbackQueue, a removed    *)
(* device included.                                                          *)
CallbackSpec == Callbacks!Spec
=============================================================================

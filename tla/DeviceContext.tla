---------------------------- MODULE DeviceContext ----------------------------
(***************************************************************************)
(* DMLDeviceContext's copies from device to CPU memory and the plugin's    *)
(* memcpy callbacks built on them, over the readback heap.                 *)
(*                                                                         *)
(* CopyDeviceTensorsToCPU reads back several tensors and waits for the     *)
(* event of the last one only.  CopyDeviceTensorToCPU and the plugin's     *)
(* memcpy_dtoh and sync_memcpy_dtoh do the same for one tensor; a copy     *)
(* between devices waits for the event without synchronizing first.        *)
(***************************************************************************)
EXTENDS ReadbackHeap

CONSTANTS
    Sizes,          \* the sizes of tensors in staging units
    MaxTensors,     \* bound: tensors in one call
    MaxCommands     \* bound: tensors in all calls and other commands

ASSUME SizesAssumption == Sizes \subseteq Nat \ {0}
ASSUME BoundsAssumption ==
    MaxTensors \in Nat /\ MaxCommands \in Nat
ASSUME CallersAssumption ==
    Callers \cap {Nobody, "returned", "abandoned"} = {}

VARIABLES
    call,       \* per caller: where it is, the tensors left, copy_event
    buffer,     \* history: the state of the destination of each readback
    asked       \* history: the tensors of all calls so far

vars == <<readbackVars, call, buffer, asked>>

NoEvent == 0    \* copy_event.fence is null

Init ==
    /\ ReadbackInit
    /\ call = [c \in Callers |->
                  [pc |-> "idle", left |-> 0, copy_event |-> NoEvent]]
    /\ buffer = << >>
    /\ asked = 0

At(c, pc) == call[c].pc = pc

Others == Len(issued) - Len(command)    \* the other commands so far

(* The call of c returns and its caller may free the destination buffers. *)
Return(c, state) ==
    /\ call' = [call EXCEPT ![c].pc = "idle"]
    /\ buffer' = [r \in DOMAIN buffer |->
                     IF buffer[r] = c THEN state ELSE buffer[r]]

CopyDeviceTensorsToCPU(c, n) ==
    /\ At(c, "idle")
    /\ asked + Others + n <= MaxCommands
    /\ asked' = asked + n
    /\ call' = [call EXCEPT ![c] =
                   [pc |-> "copy", left |-> n, copy_event |-> NoEvent]]
    /\ UNCHANGED <<readbackVars, buffer>>

(* The next tensor has no bytes. *)
SkipTensor(c) ==
    /\ At(c, "copy")
    /\ call[c].left > 0
    /\ call' = [call EXCEPT ![c].left = @ - 1]
    /\ UNCHANGED <<readbackVars, buffer, asked>>

(* The next tensor: buffer[r] names the caller that holds its destination. *)
CopyTensor(c, size) ==
    /\ At(c, "copy")
    /\ call[c].left > 0
    /\ ReadbackFromGpu(c, size)
    /\ call' = [call EXCEPT ![c].pc = "enqueue"]
    /\ buffer' = Append(buffer, c)
    /\ UNCHANGED asked

CopyTensorReturns(c) ==
    /\ At(c, "enqueue")
    /\ EnqueueCallback(c)
    /\ call' = [call EXCEPT ![c] = [pc |-> "copy", left |-> @.left - 1,
                                    copy_event |-> fence_value]]
    /\ UNCHANGED <<buffer, asked>>

(* ReadbackFromGpu returns an error: so does the whole call, at once. *)
CopyTensorFails(c, size) ==
    /\ At(c, "copy")
    /\ call[c].left > 0
    /\ ReadbackFails(size)
    /\ Return(c, "abandoned")
    /\ UNCHANGED asked

NothingCopied(c) ==
    /\ At(c, "copy")
    /\ call[c].left = 0
    /\ call[c].copy_event = NoEvent
    /\ Return(c, "returned")
    /\ UNCHANGED <<readbackVars, asked>>

(* DmlDevice::Sync, a barrier of the stream. *)
Sync(c) ==
    /\ At(c, "copy")
    /\ call[c].left = 0
    /\ call[c].copy_event # NoEvent
    /\ Stream!StartBarrier(c)
    /\ call' = [call EXCEPT ![c].pc = "sync"]
    /\ UNCHANGED <<heapVars, queueVars, status, fence_value,
                   readback_completed, holder, command, region, memory,
                   received, buffer, asked>>

SyncReturns(c) ==
    /\ At(c, "sync")
    /\ Stream!PassBarrier(c)
    /\ call' = [call EXCEPT ![c].pc = "wait"]
    /\ UNCHANGED <<heapVars, queueVars, status, fence_value,
                   readback_completed, holder, command, region, memory,
                   received, buffer, asked>>

(* The copy between devices does not synchronize. *)
SkipSync(c) ==
    /\ At(c, "copy")
    /\ call[c].left = 0
    /\ call[c].copy_event # NoEvent
    /\ call' = [call EXCEPT ![c].pc = "wait"]
    /\ UNCHANGED <<readbackVars, buffer, asked>>

(* Mutant: the call returns after Sync. *)
ReturnWithoutWaiting(c) == At(c, "wait")

(* copy_event.WaitForSignal() returns. *)
CopyEventSignaled(c) ==
    At(c, "wait") /\ readback_completed >= call[c].copy_event

WaitReturns(c) ==
    /\ CopyEventSignaled(c)
    /\ Return(c, "returned")
    /\ UNCHANGED <<readbackVars, asked>>

CallerStep(c) ==
    \/ SkipTensor(c) \/ CopyTensorReturns(c) \/ NothingCopied(c) \/ Sync(c)
    \/ SyncReturns(c) \/ SkipSync(c) \/ WaitReturns(c)
    \/ \E size \in Sizes : CopyTensor(c, size) \/ CopyTensorFails(c, size)

-----------------------------------------------------------------------------
EnvironmentStep ==
    \/ asked + Others < MaxCommands /\ OtherCommand
    \/ FireCallback
    \/ GpuSignals
    \/ RecorderFails
    \/ TrimHeap

Next ==
    \/ \E c \in Callers :
          \/ \E n \in 1..MaxTensors : CopyDeviceTensorsToCPU(c, n)
          \/ CallerStep(c)
    \/ EnvironmentStep /\ UNCHANGED <<call, buffer, asked>>

Spec == Init /\ [][Next]_vars

(* The execution context executes what was submitted, the event queue's      *)
(* thread runs, and a caller's own steps are taken when they can be.         *)
FairSpec ==
    /\ Spec
    /\ WF_vars(GpuSignals /\ UNCHANGED <<call, buffer, asked>>)
    /\ WF_vars(FireCallback /\ UNCHANGED <<call, buffer, asked>>)
    /\ \A c \in Callers : WF_vars(CallerStep(c))

-----------------------------------------------------------------------------
TypeOK ==
    /\ HeapTypeOK
    /\ status \in {"OK", "ResourceExhausted"}
    /\ holder \in Callers \cup {Nobody}
    /\ fence_value = Len(command)
    /\ readback_completed \in 0..fence_value
    /\ \A c \in Callers :
          /\ call[c].pc \in {"idle", "copy", "enqueue", "sync", "wait"}
          /\ call[c].left \in 0..MaxTensors
          /\ call[c].copy_event \in 0..fence_value
    /\ buffer \in Seq(Callers \cup {"returned", "abandoned"})
    /\ Len(buffer) = fence_value

(* The staging heap's own invariants hold after every operation on it,       *)
(* though it is reclaimed by a fence that callbacks signal.                  *)
HeapInv == TypeOK /\ AssertInvariants

(* The destination of readback r holds what the source held. *)
Filled(r) == received[r] = {r}

(* When the event of a readback is signaled, its data has arrived, and is    *)
(* its own: staging memory is not reused between the GPU's write and the     *)
(* callback's read, and callbacks signal the fence in the order of their     *)
(* values.                                                                   *)
SignaledMeansFilled == \A r \in 1..readback_completed : Filled(r)

(* A call that returns without an error has filled all of its buffers, not   *)
(* only the one whose event it waited for.                                   *)
ReturnedMeansFilled ==
    \A r \in DOMAIN buffer : buffer[r] = "returned" => Filled(r)

(* Every call returns unless the recorder fails. *)
CopyReturns ==
    \A c \in Callers : ~At(c, "idle") ~> At(c, "idle") \/ status # "OK"
=============================================================================

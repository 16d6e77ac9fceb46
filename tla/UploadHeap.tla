----------------------------- MODULE UploadHeap -----------------------------
(***************************************************************************)
(* DmlUploadHeap over the stream that DmlExecutionContext implements: an   *)
(* upload copies its bytes to staging memory at once, and a command that   *)
(* reads them from there is submitted for the GPU to execute later.        *)
(*                                                                         *)
(* A command is its number in the stream; the commands that are uploads    *)
(* have a region.  BeginUploadToGpu runs under the heap's mutex, and the   *)
(* GPU cannot interfere with it other than by completing commands, so it   *)
(* is one step.                                                            *)
(***************************************************************************)
EXTENDS PooledHeap

CONSTANTS
    Sizes,          \* the sizes of uploads
    MaxCommands     \* bound: commands submitted in a behaviour

ASSUME SizesAssumption == Sizes \subseteq Nat \ {0}
ASSUME MaxCommandsAssumption == MaxCommands \in Nat

VARIABLES
    issued, executed, signaled, \* the stream, see CommandStream
    status,     \* GetCommandRecorderStatus
    region,     \* history: the staging region of each upload
    memory      \* the upload whose bytes each staging unit holds

streamVars == <<issued, executed, signaled>>
vars == <<heapVars, streamVars, status, region, memory>>

Stream == INSTANCE CommandStream WITH Callers <- {}, barrier <- << >>

Init ==
    /\ HeapInit
    /\ issued = << >> /\ executed = << >> /\ signaled = 0
    /\ status = "OK"
    /\ region = << >>
    /\ memory = << >>

Units(r) == {<<r.resource, u>> : u \in r.offset..(r.offset + r.size - 1)}

(* The number of the command that is submitted next. *)
Command == Len(issued) + 1

(* memcpy to the reserved region of the upload resource. *)
WriteStaging(r) ==
    /\ region' = [c \in DOMAIN region \cup {Command} |->
                     IF c = Command THEN r ELSE region[c]]
    /\ memory' = [u \in DOMAIN memory \cup Units(r) |->
                     IF u \in Units(r) THEN Command ELSE memory[u]]

(* Mutant: the allocation is released by the event before the copy's. *)
DoneBeforeCopy == issued'[Command] - 1

(* The event of the copy that reads the staging memory. *)
DoneEvent == issued'[Command]

BeginUploadToGpu(size) ==
    LET reclaimed == ReclaimAllocations(signaled)
    IN  /\ status = "OK"
        /\ Len(issued) < MaxCommands
        /\ Stream!Issue
        /\ Allocate(reclaimed, size, DoneEvent)
        /\ WriteStaging(Region(reclaimed, size))
        /\ UNCHANGED status

(* Reserve fails: nothing but reclaiming has happened. *)
UploadFails(size) ==
    /\ status = "OK"
    /\ ReserveFails(ReclaimAllocations(signaled), size)
    /\ UNCHANGED <<streamVars, status, region, memory>>

TrimHeap ==
    /\ Trim(signaled)
    /\ UNCHANGED <<streamVars, status, region, memory>>

(* External: another command is submitted to the execution context. *)
OtherCommand ==
    /\ Len(issued) < MaxCommands
    /\ Stream!Issue
    /\ UNCHANGED <<heapVars, status, region, memory>>

(* External: the GPU executes the commands of the next event. *)
GpuSignals ==
    /\ Stream!Signal
    /\ UNCHANGED <<heapVars, status, region, memory>>

(* External: the execution context runs out of memory. *)
RecorderFails ==
    /\ status = "OK"
    /\ status' = "ResourceExhausted"
    /\ UNCHANGED <<heapVars, streamVars, region, memory>>

Next ==
    \/ \E size \in Sizes : BeginUploadToGpu(size) \/ UploadFails(size)
    \/ TrimHeap
    \/ OtherCommand
    \/ GpuSignals
    \/ RecorderFails

Spec == Init /\ [][Next]_vars

-----------------------------------------------------------------------------
TypeOK ==
    /\ HeapTypeOK
    /\ issued \in Seq(1..MaxCommands)
    /\ executed \in Seq(1..MaxCommands)
    /\ signaled \in 0..MaxCommands
    /\ status \in {"OK", "ResourceExhausted"}
    /\ DOMAIN region \subseteq DOMAIN issued
    /\ \A u \in DOMAIN memory : memory[u] \in DOMAIN region

(* The heap's own invariants hold after every operation on it. *)
HeapInv == TypeOK /\ AssertInvariants

(* The uploads that the GPU may still be reading. *)
Unread == {c \in DOMAIN region : c > Len(executed)}

(* Until the GPU has executed an upload's copy, its staging memory holds the *)
(* upload's bytes: no other upload overwrites them, however the ring wraps   *)
(* and whatever was reclaimed or trimmed in between.                         *)
StagingIntact == \A c \in Unread : \A u \in Units(region[c]) : memory[u] = c

(* The resource the GPU reads from stays alive until then. *)
StagingAlive ==
    \A c \in Unread : \E i \in DOMAIN chunks :
        chunks[i].resource = region[c].resource
=============================================================================

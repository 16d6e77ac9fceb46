---------------------------- MODULE VariableOps ----------------------------
(***************************************************************************)
(* The kernels that use resource variables.  TensorFlow keeps a tensor and *)
(* a reader-writer lock for each variable; kernels of several threads lock *)
(* variables and submit commands on their tensors.  The GPU executes       *)
(* commands in the order of their submission (CommandStream), so the model *)
(* keeps what each tensor will hold when it has executed all commands      *)
(* submitted so far.  That is abstracted to the set of the updates it      *)
(* incorporates: an update of a tensor adds the operation to the set.      *)
(*                                                                         *)
(* Training operations lock their variables, uniquely if use_locking asks  *)
(* for it, and then look up the tensors.  ResourceGather, the scatter      *)
(* operations, ResourceStridedSliceAssign and RngSkip look up the tensor   *)
(* when they validate their inputs and then take a shared lock, also when  *)
(* they update it.  Some kernels work in place; the others compute into an *)
(* intermediate buffer and copy it back with commands of their own.        *)
(*                                                                         *)
(* The kernel of ResourceGatherNd is cached, and with it the helper that   *)
(* holds the tensor and the lock.  The key of the cache does not tell      *)
(* variables apart.  A call that finds the kernel releases the lock of the *)
(* call that created it, if that still computes, and a call that fails     *)
(* before it executes the kernel leaves the lock with the helper.          *)
(***************************************************************************)
EXTENDS Naturals, Sequences, FiniteSets, SequencesExt

CONSTANTS
    Threads,
    Variables,
    Trained,     \* the sets of variables that training operations update
    Accessed,    \* the variables of the other operations
    Gathered,    \* the variables of ResourceGatherNd
    MaxOps,      \* bound: operations that are started
    MaxAssignments  \* bound: assignments

ASSUME VariablesAssumption ==
    /\ IsFiniteSet(Variables)
    /\ Trained \subseteq (SUBSET Variables) \ {{}}
    /\ Accessed \cup Gathered \subseteq Variables
    /\ MaxOps \in Nat /\ MaxAssignments \in Nat

VARIABLES
    tensor,     \* the tensor that TensorFlow keeps for each variable
    contents,   \* for each tensor, the updates that it incorporates
    owner,      \* history: the variable that each tensor was assigned to
    readers,    \* the threads that hold each variable's lock shared, and
                \* Helper if a helper holds it that no call uses
    writers,    \* the threads that hold it uniquely (at most one)
    call,       \* for each thread, the operation it executes
    cached,     \* ResourceGatherNd's cached kernel: the operation that
                \* created it and the tensor in its helper
    ops,        \* history: the lock that each operation computes under,
                \* "unique", "shared" or "none", and its result
    lost        \* history: the [tensor, update, by] such that operation by
                \* overwrote the update of operation update

vars == <<tensor, contents, owner, readers, writers, call, cached, ops,
          lost>>

-----------------------------------------------------------------------------
(* What a kernel does once it has its lock: "read" copies or gathers from    *)
(* the tensor into an output, "inplace" computes in place, "compute"         *)
(* computes into intermediate buffers, a variable stands for the copy of its *)
(* intermediate buffer back to its tensor, "cache" puts the kernel in the    *)
(* cache and "unlock" releases the lock.                                     *)
InPlace == <<"inplace">>

ReadOnly == <<"read">>

WriteBack(vs) == <<"compute">> \o SetToSeq(vs)

ReadAndSkip == <<"read", "inplace">>

(* StridedSliceAssignInitHelper::IsNoOpKernel, which precedes the kernel,    *)
(* unlocks in any case.                                                      *)
Unlocked(plan) == <<"unlock">> \o plan

Ops(vs, locks, early, plans) ==
    {[vars |-> vs, lock |-> lock, early |-> early, plan |-> plan] :
        lock \in locks, plan \in plans}

TrainingOps ==
    UNION {Ops(vs, {"unique", "shared"}, FALSE, {InPlace, WriteBack(vs)}) :
              vs \in Trained}

(* AssignAddVariableOp and AssignSubVariableOp: TensorFlow calls             *)
(* UpdateVariable with the variable locked uniquely.                         *)
UpdateOps == UNION {Ops({v}, {"unique"}, FALSE, {InPlace}) : v \in Accessed}

(* ResourceGather; ResourceScatterUpdate and RngSkip; ResourceScatterAdd and *)
(* the like; RngReadAndSkip.                                                 *)
ResourceOps ==
    UNION {Ops({v}, {"shared"}, TRUE,
               {ReadOnly, InPlace, WriteBack({v}), ReadAndSkip}) :
              v \in Accessed}

(* ResourceScatterNdUpdate; ResourceScatterNdAdd and ResourceScatterNdSub. *)
ScatterNdOps ==
    UNION {Ops({v}, {"shared"}, TRUE, {InPlace, WriteBack({v})}) :
              v \in Accessed}

(* ResourceStridedSliceAssign, of the whole tensor and of a part. *)
SliceAssignOps ==
    UNION {Ops({v}, {"none"}, TRUE,
               {Unlocked(InPlace), Unlocked(WriteBack({v}))}) :
              v \in Accessed}

(* ResourceGatherNd looks up its tensor after it has locked. *)
GatherNdOps ==
    UNION {Ops({v}, {"shared"}, FALSE, {<<"cache">> \o ReadOnly}) :
              v \in Gathered}

-----------------------------------------------------------------------------
Helper == "helper"

Steps == {"read", "inplace", "compute", "unlock", "cache"}

ASSUME NamesAssumption ==
    Variables \cap Steps = {} /\ Helper \notin Threads

NotCached == [op |-> 0, tensor |-> 0]

NoTensors == [v \in Variables |-> 0]

NoKernel == [vars |-> {}, lock |-> "none", early |-> FALSE, plan |-> <<>>]

(* hit says that the kernel came from the cache.                             *)
Idle == [pc |-> "idle", op |-> 0, kernel |-> NoKernel, bound |-> NoTensors,
         plan |-> <<>>, intermediate |-> {}, hit |-> FALSE]

At(t, pc) == call[t].pc = pc

Kernel(t) == call[t].kernel

Init ==
    /\ tensor = [v \in Variables |->
                   CHOOSE i \in DOMAIN SetToSeq(Variables) :
                      SetToSeq(Variables)[i] = v]
    /\ contents = [i \in 1..Cardinality(Variables) |-> {}]
    /\ owner = SetToSeq(Variables)
    /\ readers = [v \in Variables |-> {}]
    /\ writers = [v \in Variables |-> {}]
    /\ call = [t \in Threads |-> Idle]
    /\ cached = NotCached
    /\ ops = <<>>
    /\ lost = {}

(* GetInputTensorFromVariable for each of the operation's variables.         *)
(* Assumption on TensorFlow: to look up a tensor does not change it.         *)
(* TensorFlow is given a function that copies tensors, and could replace a   *)
(* variable's tensor by a copy if its buffer is shared.                      *)
Tensors(op) ==
    [v \in Variables |-> IF v \in op.vars THEN tensor[v] ELSE 0]

(* Mutant: a training kernel looks its tensors up before it locks. *)
LooksUpAlwaysEarly(op) == TRUE

LooksUpEarly(op) == op.early

Started(op) == [Idle EXCEPT !.op = Len(ops) + 1, !.kernel = op]

StartOp(t, op) ==
    /\ At(t, "idle")
    /\ Len(ops) < MaxOps
    /\ ops' = Append(ops, [lock |-> op.lock, result |-> "none"])

(* The kernel wrapper constructs the initialization helper, or a training    *)
(* kernel is about to lock its variables.                                    *)
Start(t, op) ==
    /\ op \in GatherNdOps => cached = NotCached
    /\ StartOp(t, op)
    /\ call' = [call EXCEPT ![t] =
                  [Started(op) EXCEPT
                     !.pc = "lock",
                     !.bound = IF LooksUpEarly(op)
                               THEN Tensors(op) ELSE NoTensors]]
    /\ UNCHANGED <<tensor, contents, owner, readers, writers, cached, lost>>

(* ResourceGatherNd finds a kernel in the cache and uses its helper, with    *)
(* the tensor of the call that created it and no lock.                       *)
StartCached(t, op) ==
    /\ cached # NotCached
    /\ StartOp(t, op)
    /\ call' = [call EXCEPT ![t] =
                  [Started(op) EXCEPT
                     !.pc = "compute",
                     !.plan = ReadOnly,
                     !.bound = [v \in Variables |->
                                  IF v \in op.vars THEN cached.tensor ELSE 0],
                     !.hit = TRUE]]
    /\ UNCHANGED <<tensor, contents, owner, readers, writers, cached, lost>>

(* The kernel manager evicts the kernel, and its helper is destroyed.  If a  *)
(* call uses it, that happens when the call returns.                         *)
Evict ==
    /\ cached # NotCached
    /\ \A t \in Threads : ~call[t].hit
    /\ cached' = NotCached
    /\ readers' = [v \in Variables |-> readers[v] \ {Helper}]
    /\ UNCHANGED <<tensor, contents, owner, writers, call, ops, lost>>

(* TF_MaybeLockVariableInputMutexesInOrder takes the locks one by one in an  *)
(* order that all operations share, so it gets all of them in the end; the   *)
(* model takes them at once.                                                 *)
LockShared(t) ==
    /\ \A v \in Kernel(t).vars : writers[v] = {}
    /\ readers' = [v \in Variables |->
                     IF v \in Kernel(t).vars THEN readers[v] \cup {t}
                     ELSE readers[v]]
    /\ UNCHANGED writers

LockUnique(t) ==
    /\ \A v \in Kernel(t).vars : writers[v] = {} /\ readers[v] = {}
    /\ writers' = [v \in Variables |->
                     IF v \in Kernel(t).vars THEN {t} ELSE writers[v]]
    /\ UNCHANGED readers

(* Mutant: a training operation always shares its locks. *)
VariableLockShared(t) == LockShared(t)

VariableLock(t) ==
    IF Kernel(t).lock = "unique" THEN LockUnique(t) ELSE LockShared(t)

Lock(t) ==
    /\ At(t, "lock")
    /\ VariableLock(t)
    /\ call' = [call EXCEPT ![t].pc = "compute",
                            ![t].plan = Kernel(t).plan,
                            ![t].bound = IF LooksUpEarly(Kernel(t))
                                         THEN @ ELSE Tensors(Kernel(t))]
    /\ UNCHANGED <<tensor, contents, owner, cached, ops, lost>>

(* The operation's tensors, and what they hold with its own update. *)
Bound(t) == {call[t].bound[v] : v \in Kernel(t).vars}

Updated(t, i) == contents[i] \cup {call[t].op}

(* Whose locks the kernel's helper holds.  A kernel from the cache has the   *)
(* helper of the call that created it, which may not have returned.          *)
HeldByHelper(t) ==
    IF call[t].hit THEN {Helper} \cup {u \in Threads : call[u].op = cached.op}
    ELSE {t}

(* VariableLock::Unlock, on the helper of the kernel that the call uses. *)
Unlock(t) ==
    /\ readers' = [v \in Variables |-> readers[v] \ HeldByHelper(t)]
    /\ writers' = [v \in Variables |-> writers[v] \ {t}]

(* The rest of the kernel's plan, and its intermediate buffers. *)
Advance(t, intermediate) ==
    call' = [call EXCEPT ![t].plan = Tail(@),
                         ![t].intermediate = intermediate]

UnlockEarly(t) ==
    /\ Unlock(t)
    /\ Advance(t, {})
    /\ UNCHANGED <<contents, cached, lost>>

(* The kernel is cached unless another thread was faster. *)
CacheKernel(t) ==
    /\ cached' \in IF cached = NotCached
                   THEN {[op |-> call[t].op, tensor |-> i] : i \in Bound(t)}
                   ELSE {cached}
    /\ Advance(t, {})
    /\ UNCHANGED <<contents, readers, writers, lost>>

Read(t) ==
    /\ Advance(t, {})
    /\ UNCHANGED <<contents, readers, writers, cached, lost>>

UpdateInPlace(t) ==
    /\ contents' = [i \in DOMAIN contents |->
                      IF i \in Bound(t) THEN Updated(t, i) ELSE contents[i]]
    /\ UNCHANGED <<readers, writers, cached, lost>>
    /\ Advance(t, {})

(* What the kernel computes for these of its tensors. *)
Results(t, allocated) ==
    {[tensor |-> i, value |-> Updated(t, i)] : i \in allocated}

(* Nobody looks whether the intermediate buffers could be allocated: one     *)
(* that could not is bound as an empty region, and its result is nowhere.    *)
Compute(t) ==
    /\ \E allocated \in SUBSET Bound(t) : Advance(t, Results(t, allocated))
    /\ UNCHANGED <<contents, readers, writers, cached, lost>>

CopyFrom(t, buffer) ==
    /\ contents' = [contents EXCEPT ![buffer.tensor] = buffer.value]
    /\ lost' = lost \cup
          {[tensor |-> buffer.tensor, update |-> u, by |-> call[t].op] :
              u \in contents[buffer.tensor] \ buffer.value}

(* The copy of an empty region has no bytes. *)
CopyBack(t, v) ==
    /\ \/ \E buffer \in call[t].intermediate :
             /\ buffer.tensor = call[t].bound[v]
             /\ CopyFrom(t, buffer)
       \/ /\ \A buffer \in call[t].intermediate :
                buffer.tensor # call[t].bound[v]
          /\ UNCHANGED <<contents, lost>>
    /\ UNCHANGED <<readers, writers, cached>>
    /\ Advance(t, call[t].intermediate)

Submit(t) ==
    /\ At(t, "compute")
    /\ call[t].plan # <<>>
    /\ LET step == Head(call[t].plan) IN
       \/ step = "read" /\ Read(t)
       \/ step = "inplace" /\ UpdateInPlace(t)
       \/ step = "compute" /\ Compute(t)
       \/ step \in Variables /\ CopyBack(t, step)
       \/ step = "unlock" /\ UnlockEarly(t)
       \/ step = "cache" /\ CacheKernel(t)
    /\ UNCHANGED <<tensor, owner, ops>>

Return(t, result) ==
    /\ ops' = [ops EXCEPT ![call[t].op].result = result]
    /\ call' = [call EXCEPT ![t] = Idle]
    /\ UNCHANGED <<tensor, contents, owner, cached, lost>>

(* All commands are submitted; the lock is released, though the GPU has      *)
(* executed none of them.                                                    *)
Succeeds(t) ==
    /\ At(t, "compute")
    /\ call[t].plan = <<>>
    /\ Unlock(t)
    /\ Return(t, "OK")

(* Mutant: a failure to copy back is returned at once. *)
CanFailAnywhere(t) == TRUE

Executed(t) ==
    LET plan == Kernel(t).plan
    IN  ToSet(SubSeq(plan, 1, Len(plan) - Len(call[t].plan)))

(* An operation may fail before it has submitted anything (its inputs are    *)
(* invalid, or an output cannot be allocated), and DmlKernel::Compute fails  *)
(* without submitting (its temporary buffer cannot be allocated).  Errors of *)
(* the copies back are not looked at.                                        *)
CanFail(t) ==
    \/ Executed(t) \subseteq {"cache", "unlock"}
    \/ call[t].plan # <<>> /\ Head(call[t].plan) \in {"compute", "inplace"}

(* Mutant: an error does not release the lock. *)
ReleaseNothing(t) == UNCHANGED <<readers, writers>>

(* The destructor of the VariableLock. *)
ReleaseOnError(t) == Unlock(t)

Fails(t) ==
    /\ At(t, "compute")
    /\ CanFail(t)
    /\ ReleaseOnError(t)
    /\ Return(t, "error")

(* The outputs of ResourceGatherNd cannot be allocated, so that its kernel,  *)
(* which is in the cache, is not executed: nothing unlocks.                  *)
FailsWithoutUnlock(t) ==
    /\ At(t, "compute")
    /\ Kernel(t) \in GatherNdOps
    /\ call[t].plan = ReadOnly
    /\ call[t].hit \/ cached.op = call[t].op
    /\ readers' = [v \in Variables |->
                     IF t \in readers[v] THEN (readers[v] \ {t}) \cup {Helper}
                     ELSE readers[v]]
    /\ UNCHANGED writers
    /\ Return(t, "error")

(* AssignVariableOp: under the variable's lock TensorFlow replaces the       *)
(* tensor by the one that is assigned.                                       *)
AssignVariable(v) ==
    /\ Len(contents) < Cardinality(Variables) + MaxAssignments
    /\ readers[v] = {} /\ writers[v] = {}
    /\ contents' = Append(contents, {})
    /\ tensor' = [tensor EXCEPT ![v] = Len(contents) + 1]
    /\ owner' = Append(owner, v)
    /\ UNCHANGED <<readers, writers, call, cached, ops, lost>>

-----------------------------------------------------------------------------
Continue(t) == Lock(t) \/ Submit(t) \/ Succeeds(t)

Next ==
    \/ \E t \in Threads :
          \/ \E op \in TrainingOps \cup UpdateOps \cup ResourceOps
                      \cup ScatterNdOps \cup SliceAssignOps
                      \cup GatherNdOps :
                Start(t, op)
          \/ \E op \in GatherNdOps : StartCached(t, op)
          \/ Continue(t)
          \/ Fails(t)
          \/ FailsWithoutUnlock(t)
    \/ \E v \in Accessed \cup Gathered : AssignVariable(v)
    \/ Evict

Spec == Init /\ [][Next]_vars

(* Threads run, and TensorFlow's locks are handed over. *)
FairSpec == Spec /\ \A t \in Threads : WF_vars(Continue(t))

-----------------------------------------------------------------------------
TypeOK ==
    /\ tensor \in [Variables -> DOMAIN contents]
    /\ \A v \in Variables : owner[tensor[v]] = v
    /\ cached.tensor \in {0} \cup DOMAIN contents
    /\ \A i \in DOMAIN contents : contents[i] \subseteq DOMAIN ops
    /\ readers \in [Variables -> SUBSET (Threads \cup {Helper})]
    /\ writers \in [Variables -> SUBSET Threads]
    /\ \A t \in Threads :
          /\ call[t].pc \in {"idle", "lock", "compute"}
          /\ At(t, "idle") \/ call[t].op \in DOMAIN ops

(* A call that has found this call's kernel in the cache has released the    *)
(* call's lock with its own cleanup.                                         *)
ReleasedByHit(t, v) == "cache" \in Executed(t) /\ t \notin readers[v]

(* An operation that looks up its tensors under the lock works on the ones   *)
(* that its variables have up to its last command: no assignment comes       *)
(* between.  ResourceGatherNd does so until its kernel is in the cache, and  *)
(* then as long as no hit has released its lock.                             *)
LockedTensorsAreCurrent ==
    /\ TypeOK
    /\ \A t \in Threads :
          At(t, "compute") /\ ~Kernel(t).early /\ ~call[t].hit =>
             \A v \in Kernel(t).vars :
                call[t].bound[v] = tensor[v] \/ ReleasedByHit(t, v)

(* A kernel works on a tensor of its own variable.  CreateKernelKey leaves   *)
(* resource handles out of the key because "it's unlikely a kernel would     *)
(* ever want to take a dependency on the value of a *resource handle*,       *)
(* rather than the contents of the tensor the handle refers to".             *)
KernelsUseTheirVariables ==
    \A t \in Threads :
       At(t, "compute") =>
          \A v \in Kernel(t).vars : owner[call[t].bound[v]] = v

(* An operation has overwritten this update of the tensor. *)
Overwritten(i, u) == \E l \in lost : l.tensor = i /\ l.update = u

(* The locks of two operations let the second overwrite the first's update:  *)
(* one of them computes without a lock, or both share it.                    *)
MayOverwrite(w, u) ==
    LET locks == {ops[u].lock, ops[w].lock}
    IN  "none" \in locks \/ "unique" \notin locks

(* An update by an operation that locks uniquely is lost only to an          *)
(* operation that computes without a lock, and an operation that locks       *)
(* uniquely loses nobody else's: updates disappear when two operations that  *)
(* share the lock overlap and one of them writes back a result it computed   *)
(* before the other's update, or when ResourceStridedSliceAssign, which has  *)
(* released its lock, does so.  (It may also bring a lost update back, for   *)
(* any operation to lose again: the property is about the first loss.)       *)
UniqueUpdatesAreKept ==
    [][\A l \in lost' \ lost :
          Overwritten(l.tensor, l.update) \/ MayOverwrite(l.by, l.update)]_vars

(* The tensors that the operation has computed a result for: in place, or in *)
(* an intermediate buffer that it got.                                       *)
Computed(t) ==
    {buffer.tensor : buffer \in call[t].intermediate}
        \cup {i \in Bound(t) : "inplace" \in Executed(t)}

(* An operation that returns an error has updated none of its variables, and *)
(* one that succeeds all that it has computed a result for, though another   *)
(* operation may have overwritten the update since: the copies back follow a *)
(* computation that succeeded, and an error of one of them is not returned.  *)
UpdatesMatchResults ==
    /\ \A i \in DOMAIN contents : \A u \in contents[i] :
          ops[u].result # "error"
    /\ \A t \in Threads :
          At(t, "compute") /\ call[t].plan = <<>> =>
             \A i \in Computed(t) :
                \/ call[t].op \in contents[i]
                \/ Overwritten(i, call[t].op)

(* Every operation gets its locks and returns, so that each thread is idle   *)
(* again and again, unless a cached helper keeps a lock after a call of      *)
(* ResourceGatherNd has failed.                                              *)
OperationsReturn ==
    \A t \in Threads :
       []<>(At(t, "idle") \/ \E v \in Variables : Helper \in readers[v])
=============================================================================

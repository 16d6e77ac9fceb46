---------------------------- MODULE KernelManager ----------------------------
(***************************************************************************)
(* DmlKernelManager's cache of kernels and its queued references, and      *)
(* DmlKernelWrapperBase::ComputeImpl, which several threads run at once to *)
(* find or create a kernel and execute it.  The execution context is the   *)
(* stream it is proved to implement.                                       *)
(*                                                                         *)
(* A kernel is its number in the order of creation.  It is destroyed when  *)
(* neither the cache, a queued reference nor a running call has it; the    *)
(* GPU must then be done with its compiled operator and its persistent     *)
(* resource, which the commands refer to by plain pointers.                *)
(***************************************************************************)
EXTENDS Naturals, Sequences, SequencesExt

CONSTANTS
    Threads,
    Keys,           \* the kernel keys that are looked up
    NeverCached,    \* the keys of kernels with DmlKernelCachePolicy::Never
    MaxCacheSize,   \* max_cache_size_
    MaxCalls        \* bound: calls of ComputeImpl in a behaviour

ASSUME KeysAssumption == NeverCached \subseteq Keys
ASSUME SizesAssumption == MaxCacheSize \in Nat /\ MaxCalls \in Nat

VARIABLES
    issued, executed, signaled, barrier,    \* the stream
    command,            \* history: the kernel and kind of each command
    kernels,            \* history: the kernels created, [key, initialized]
    kernel_cache,       \* kernel_cache_: from keys to kernels
    lru_list,           \* lru_list_: keys, most recently used first
    queued_references,  \* queued_references_: the [kernel, event] held
    call,               \* per thread: where it is, its key, kernel and event
    calls               \* history: calls so far

streamVars == <<issued, executed, signaled, barrier>>
cacheVars == <<kernel_cache, lru_list>>
vars == <<streamVars, cacheVars, command, kernels, queued_references, call,
          calls>>

Stream == INSTANCE CommandStream WITH Callers <- Threads

None == 0       \* no kernel or event
Idle == [pc |-> "idle", key |-> None, kernel |-> None, event |-> None]

Init ==
    /\ Stream!Init
    /\ command = << >>
    /\ kernels = << >>
    /\ kernel_cache = << >>
    /\ lru_list = << >>
    /\ queued_references = {}
    /\ call = [t \in Threads |-> Idle]
    /\ calls = 0

At(t, pc) == call[t].pc = pc
Goto(t, pc) == call' = [call EXCEPT ![t].pc = pc]

(* ComputeImpl returns and drops its reference to the kernel. *)
Return(t) == call' = [call EXCEPT ![t] = Idle]

Submit(kind, kernel) ==
    /\ Stream!Issue
    /\ command' = Append(command, [kind |-> kind, kernel |-> kernel])

-----------------------------------------------------------------------------
(* The cache, under mutex_ *)

(* OnRecentlyUsed: the entry moves from its place to the front. *)
OnRecentlyUsed(lru, key) ==
    LET lru_iter == CHOOSE i \in DOMAIN lru : lru[i] = key
    IN  <<key>> \o RemoveAt(lru, lru_iter)

(* Mutant: the entry is erased only from the list. *)
TrimListOnly(cache, lru) ==
    IF Len(lru) <= MaxCacheSize THEN [cache |-> cache, lru |-> lru]
    ELSE [cache |-> cache, lru |-> Front(lru)]

(* TrimCache: at most one entry is erased, the least recently used one. *)
TrimCache(cache, lru) ==
    IF Len(lru) <= MaxCacheSize THEN [cache |-> cache, lru |-> lru]
    ELSE [cache |-> [k \in DOMAIN cache \ {Last(lru)} |-> cache[k]],
          lru   |-> Front(lru)]

(* The locked part of CreateCachedKernel.  An entry that another thread has  *)
(* inserted meanwhile stays and counts as used.                              *)
Emplace(key, kernel) ==
    IF key \in DOMAIN kernel_cache
    THEN /\ lru_list' = OnRecentlyUsed(lru_list, key)
         /\ UNCHANGED kernel_cache
    ELSE LET trimmed == TrimCache([k \in DOMAIN kernel_cache \cup {key} |->
                                      IF k = key THEN kernel
                                      ELSE kernel_cache[k]],
                                  <<key>> \o lru_list)
         IN  /\ kernel_cache' = trimmed.cache
             /\ lru_list' = trimmed.lru

-----------------------------------------------------------------------------
(* ComputeImpl *)

(* TryGetCachedKernel, which a kernel that is never cached does without. *)
Lookup(t, key) ==
    /\ At(t, "idle")
    /\ calls < MaxCalls
    /\ calls' = calls + 1
    /\ IF key \notin NeverCached /\ key \in DOMAIN kernel_cache
       THEN /\ call' = [call EXCEPT ![t].pc = "execute", ![t].key = key,
                                    ![t].kernel = kernel_cache[key]]
            /\ lru_list' = OnRecentlyUsed(lru_list, key)
       ELSE /\ call' = [call EXCEPT ![t].pc = "create", ![t].key = key]
            /\ UNCHANGED lru_list
    /\ UNCHANGED <<streamVars, kernel_cache, command, kernels,
                   queued_references>>

(* The arguments are invalid, or there is nothing to compute. *)
ReturnEarly(t) ==
    /\ At(t, "create")
    /\ Return(t)
    /\ UNCHANGED <<streamVars, cacheVars, command, kernels, queued_references,
                   calls>>

AfterCreation(t) ==
    IF call[t].key \in NeverCached THEN "created" ELSE "cache"

NewKernel(t, initialized) ==
    /\ kernels' = Append(kernels, [key |-> call[t].key,
                                   initialized |-> initialized])
    /\ call' = [call EXCEPT ![t].pc = AfterCreation(t),
                            ![t].kernel = Len(kernels')]

(* The constructor of the kernel submits its initialization. *)
CreateKernel(t) ==
    /\ At(t, "create")
    /\ NewKernel(t, TRUE)
    /\ Submit("initialize", Len(kernels'))
    /\ UNCHANGED <<cacheVars, queued_references, calls>>

(* Initialize is out of memory: the constructor can only set a status. *)
CreateKernelFails(t) ==
    /\ At(t, "create")
    /\ NewKernel(t, FALSE)
    /\ UNCHANGED <<streamVars, cacheVars, command, queued_references, calls>>

CreateCachedKernel(t) ==
    /\ At(t, "cache")
    /\ Emplace(call[t].key, call[t].kernel)
    /\ Goto(t, "created")
    /\ UNCHANGED <<streamVars, command, kernels, queued_references, calls>>

(* The status is looked at after the kernel was created, and cached. *)
CheckStatus(t) ==
    /\ At(t, "created")
    /\ IF kernels[call[t].kernel].initialized THEN Goto(t, "execute")
       ELSE Return(t)
    /\ UNCHANGED <<streamVars, cacheVars, command, kernels, queued_references,
                   calls>>

(* No memory for the outputs, or for the temporary resource in Compute. *)
ComputeFails(t) ==
    /\ At(t, "execute")
    /\ Return(t)
    /\ UNCHANGED <<streamVars, cacheVars, command, kernels, queued_references,
                   calls>>

ComputeKernel(t) ==
    /\ At(t, "execute")
    /\ Submit("execute", call[t].kernel)
    /\ call' = [call EXCEPT ![t].pc = "queue",
                            ![t].event = issued'[Len(issued')]]
    /\ UNCHANGED <<cacheVars, kernels, queued_references, calls>>

(* Mutant: the reference is held until the event before. *)
EventBefore(t) == call[t].event - 1

(* The event that the reference is held for. *)
HeldUntil(t) == call[t].event

QueueReference(t) ==
    /\ At(t, "queue")
    /\ queued_references' = queued_references
          \cup {[kernel |-> call[t].kernel, event |-> HeldUntil(t)]}
    /\ Return(t)
    /\ UNCHANGED <<streamVars, cacheVars, command, kernels, calls>>

(* DmlDevice::Sync, the one place from which references are released. *)
Sync(t) ==
    /\ At(t, "idle")
    /\ Stream!StartBarrier(t)
    /\ Goto(t, "sync")
    /\ UNCHANGED <<cacheVars, command, kernels, queued_references, calls>>

ReleaseCompletedReferences ==
    queued_references' = {ref \in queued_references : ref.event > signaled}

SyncReturns(t) ==
    /\ At(t, "sync")
    /\ Stream!PassBarrier(t)
    /\ ReleaseCompletedReferences
    /\ Return(t)
    /\ UNCHANGED <<cacheVars, command, kernels, calls>>

(* External: the GPU executes the commands of the next event. *)
GpuSignals ==
    /\ Stream!Signal
    /\ UNCHANGED <<cacheVars, command, kernels, queued_references, call, calls>>

Next ==
    \/ \E t \in Threads :
          \/ \E key \in Keys : Lookup(t, key)
          \/ ReturnEarly(t) \/ CreateKernel(t) \/ CreateKernelFails(t)
          \/ CreateCachedKernel(t) \/ CheckStatus(t) \/ ComputeFails(t)
          \/ ComputeKernel(t) \/ QueueReference(t)
          \/ Sync(t) \/ SyncReturns(t)
    \/ GpuSignals

Spec == Init /\ [][Next]_vars

Symmetry == Permutations(Threads) \cup Permutations(Keys \ NeverCached)

-----------------------------------------------------------------------------
TypeOK ==
    /\ DOMAIN kernel_cache \subseteq Keys
    /\ lru_list \in Seq(Keys)
    /\ kernels \in Seq([key : Keys, initialized : BOOLEAN])
    /\ command \in Seq([kind : {"initialize", "execute"},
                        kernel : DOMAIN kernels])
    /\ Len(command) = Len(issued)
    /\ \A ref \in queued_references : ref.kernel \in DOMAIN kernels
    /\ \A t \in Threads : call[t].kernel \in DOMAIN kernels \cup {None}

(* Every cached kernel was made for the key it is found under, the list has  *)
(* each cached key once (TrimCache's assertion), and the cache is within its *)
(* limit whenever the mutex is free, though one insertion trims at most one  *)
(* entry.                                                                    *)
CacheInv ==
    /\ TypeOK
    /\ \A key \in DOMAIN kernel_cache :
          kernels[kernel_cache[key]].key = key /\ key \notin NeverCached
    /\ ToSet(lru_list) = DOMAIN kernel_cache
    /\ IsInjective(lru_list)
    /\ Len(lru_list) <= MaxCacheSize

(* A shared_ptr to the kernel exists. *)
Alive(kernel) ==
    \/ \E key \in DOMAIN kernel_cache : kernel_cache[key] = kernel
    \/ \E ref \in queued_references : ref.kernel = kernel
    \/ \E t \in Threads : call[t].kernel = kernel

Pending == {c \in DOMAIN command : c > Len(executed)}

(* A kernel that is executing on the GPU, or will, is not destroyed: not by  *)
(* the eviction that another thread's insertion causes, not because another  *)
(* kernel won the race for its key, not by another thread's Sync.            *)
KernelsOutliveExecution ==
    \A c \in Pending : command[c].kind = "execute" => Alive(command[c].kernel)
=============================================================================

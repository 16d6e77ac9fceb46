------------------------- MODULE DeferredWork_proofs -------------------------
(***************************************************************************)
(* What waits for the GPU to reach an event: the kernels that              *)
(* DmlKernelManager keeps and the callbacks of DmlEventQueue.              *)
(*                                                                         *)
(* The safety of KernelManager for any threads and keys, every size of the *)
(* cache and any number of calls, over any behaviour of the stream that    *)
(* CommandStream allows; and of EventQueue for every width of the fence,   *)
(* any number of callbacks and any order of their values.                  *)
(***************************************************************************)
EXTENDS KernelManager, EventQueue, SequenceTheorems, TLAPS

-----------------------------------------------------------------------------
(* Kernel manager *)

USE KeysAssumption, SizesAssumption

Kernels == [key : Keys, initialized : BOOLEAN]

Calls == [pc     : {"idle", "create", "cache", "created", "execute", "queue",
                    "sync"},
          key    : Keys \cup {None},
          kernel : Nat,
          event  : Nat]

TypeInv ==
    /\ issued \in Seq(Nat)
    /\ executed \in Seq(Nat)
    /\ signaled \in Nat
    /\ command \in Seq([kind : {"initialize", "execute"}, kernel : Nat])
    /\ kernels \in Seq(Kernels)
    /\ queued_references \subseteq [kernel : Nat, event : Nat]
    /\ call \in [Threads -> Calls]
    /\ lru_list \in Seq(Keys)

(* The commands with signaled events are the executed ones. *)
StreamInv ==
    /\ Len(command) = Len(issued)
    /\ Len(executed) <= Len(issued)
    /\ \A i \in 1..Len(issued) : issued[i] <= signaled <=> i <= Len(executed)

(* The cache has kernels of its keys, and the list has its keys, once each.  *)
MapInv ==
    /\ DOMAIN kernel_cache \subseteq Keys \ NeverCached
    /\ \A key \in DOMAIN kernel_cache :
          /\ kernel_cache[key] \in 1..Len(kernels)
          /\ kernels[kernel_cache[key]].key = key
    /\ ToSet(lru_list) = DOMAIN kernel_cache
    /\ IsInjective(lru_list)
    /\ Len(lru_list) <= MaxCacheSize

(* A call has a kernel from the creation to its return, and at first the one *)
(* that was made for its key.                                                *)
CallOK(c, ks) ==
    /\ c.kernel \in 0..Len(ks)
    /\ c.pc \in {"create", "cache"} => c.key \in Keys
    /\ c.pc = "cache" => /\ c.key \notin NeverCached
                         /\ c.kernel # None
                         /\ ks[c.kernel].key = c.key
    /\ c.pc \in {"created", "execute", "queue"} => c.kernel # None

CallsInv == \A t \in Threads : CallOK(call[t], kernels)

(* References and commands name kernels that were created. *)
NamesInv ==
    /\ \A ref \in queued_references : ref.kernel \in 1..Len(kernels)
    /\ \A c \in 1..Len(command) : command[c].kernel \in 1..Len(kernels)

(* Until its event is signaled, the kernel of a command that executes it is  *)
(* held for that event by the call that submitted it or by the reference     *)
(* that the call left.                                                       *)
Held(kernel, event) ==
    \/ \E ref \in queued_references :
          ref.kernel = kernel /\ ref.event = event
    \/ \E t \in Threads :
          /\ call[t].pc = "queue"
          /\ call[t].kernel = kernel /\ call[t].event = event

HeldInv ==
    \A c \in 1..Len(command) :
        c > Len(executed) /\ command[c].kind = "execute" =>
            Held(command[c].kernel, issued[c])

IInv ==
    TypeInv /\ StreamInv /\ MapInv /\ CallsInv /\ NamesInv /\ HeldInv

-----------------------------------------------------------------------------
(* Moving an entry of the list to the front only permutes the list. *)
LEMMA RecentlyUsed ==
    ASSUME NEW lru \in Seq(Keys), IsInjective(lru), NEW key \in ToSet(lru)
    PROVE  LET r == OnRecentlyUsed(lru, key)
           IN  /\ r \in Seq(Keys)
               /\ Len(r) = Len(lru)
               /\ ToSet(r) = ToSet(lru)
               /\ IsInjective(r)
<1> DEFINE n == Len(lru)
           i == CHOOSE m \in DOMAIN lru : lru[m] = key
           before == SubSeq(lru, 1, i - 1)
           after == SubSeq(lru, i + 1, n)
           r == <<key>> \o (before \o after)
           pos(j) == IF j = 1 THEN i ELSE IF j <= i THEN j - 1 ELSE j
<1>1. n \in Nat /\ DOMAIN lru = 1..n /\ \A m \in 1..n : lru[m] \in Keys
  BY LenProperties, ElementOfSeq
<1>2. i \in 1..n /\ lru[i] = key
  BY <1>1 DEF ToSet
<1>3. r = OnRecentlyUsed(lru, key)
  BY DEF OnRecentlyUsed, RemoveAt
<1> HIDE DEF i, n
<1>4. /\ before \in Seq(Keys) /\ Len(before) = i - 1
      /\ \A m \in 1..(i - 1) : before[m] = lru[m]
  <2>1. \A m \in 1..(i - 1) : lru[m] \in Keys
    BY <1>1, <1>2
  <2>2. /\ before \in Seq(Keys)
        /\ Len(before) = IF 1 <= i - 1 THEN (i - 1) - 1 + 1 ELSE 0
        /\ \A m \in 1..((i - 1) - 1 + 1) : before[m] = lru[1 + m - 1]
    BY <1>1, <1>2, <2>1, SubSeqProperties
  <2>3. QED
    BY <1>1, <1>2, <2>2
<1>5. /\ after \in Seq(Keys) /\ Len(after) = n - i
      /\ \A m \in 1..(n - i) : after[m] = lru[i + m]
  <2>1. \A m \in (i + 1)..n : lru[m] \in Keys
    BY <1>1, <1>2
  <2>2. /\ after \in Seq(Keys)
        /\ Len(after) = IF i + 1 <= n THEN n - (i + 1) + 1 ELSE 0
        /\ \A m \in 1..(n - (i + 1) + 1) : after[m] = lru[(i + 1) + m - 1]
    BY <1>1, <1>2, <2>1, SubSeqProperties
  <2>3. QED
    BY <1>1, <1>2, <2>2
<1> HIDE DEF before, after
<1>6. /\ before \o after \in Seq(Keys) /\ Len(before \o after) = n - 1
      /\ \A m \in 1..(n - 1) : (before \o after)[m] =
            IF m <= i - 1 THEN lru[m] ELSE lru[m + 1]
  <2>1. /\ before \o after \in Seq(Keys)
        /\ Len(before \o after) = Len(before) + Len(after)
        /\ \A m \in 1..(Len(before) + Len(after)) : (before \o after)[m] =
              IF m <= Len(before) THEN before[m] ELSE after[m - Len(before)]
    BY <1>4, <1>5, ConcatProperties
  <2>2. QED
    BY <2>1, <1>1, <1>2, <1>4, <1>5
<1>7. /\ <<key>> \in Seq(Keys) /\ Len(<<key>>) = 1 /\ <<key>>[1] = key
  BY <1>1, <1>2
<1>8. /\ r \in Seq(Keys) /\ Len(r) = n
      /\ \A j \in 1..n : r[j] = lru[pos(j)]
  <2>1. /\ r \in Seq(Keys)
        /\ Len(r) = 1 + (n - 1)
        /\ \A j \in 1..(1 + (n - 1)) : r[j] =
              IF j <= 1 THEN <<key>>[j] ELSE (before \o after)[j - 1]
    BY <1>6, <1>7, ConcatProperties
  <2>2. ASSUME NEW j \in 1..n PROVE r[j] = lru[pos(j)]
    <3>1. CASE j = 1
      <4>1. r[j] = <<key>>[j] /\ pos(j) = i
        BY <3>1, <2>1, <1>1, <1>2
      <4>2. QED
        BY <4>1, <3>1, <1>2, <1>7
    <3>2. CASE j # 1
      <4>1. j - 1 \in 1..(n - 1) /\ ~(j <= 1) /\ j \in 1..(1 + (n - 1))
        BY <3>2, <1>1
      <4>2. r[j] = (before \o after)[j - 1]
        BY <4>1, <2>1
      <4>3. r[j] = IF j - 1 <= i - 1 THEN lru[j - 1] ELSE lru[(j - 1) + 1]
        BY <4>1, <4>2, <1>6
      <4>4. (j - 1) + 1 = j /\ (j - 1 <= i - 1 <=> j <= i)
        BY <1>1, <1>2
      <4>5. QED
        BY <4>3, <4>4, <3>2
    <3>3. QED
      BY <3>1, <3>2
  <2>3. QED
    BY <2>1, <2>2, <1>1
<1> HIDE DEF r
<1>9. DOMAIN r = 1..n
  BY <1>8, LenProperties
<1>10. \A j \in 1..n : pos(j) \in 1..n
  BY <1>1, <1>2
<1>11. \A m \in 1..n : \E j \in 1..n : pos(j) = m
  <2> TAKE m \in 1..n
  <2>1. CASE m = i
    BY <2>1, <1>1, <1>2
  <2>2. CASE m < i
    <3>1. m + 1 \in 1..n /\ pos(m + 1) = m
      BY <2>2, <1>1, <1>2
    <3>2. QED
      BY <3>1
  <2>3. CASE m > i
    <3>1. pos(m) = m
      BY <2>3, <1>1, <1>2
    <3>2. QED
      BY <3>1
  <2>4. QED
    BY <2>1, <2>2, <2>3, <1>1, <1>2
<1>12. \A j, k \in 1..n : pos(j) = pos(k) => j = k
  BY <1>1, <1>2
<1> HIDE DEF pos
<1>13. ToSet(r) = ToSet(lru)
  <2>1. \A x \in ToSet(r) : x \in ToSet(lru)
    BY <1>1, <1>8, <1>9, <1>10 DEF ToSet
  <2>2. ASSUME NEW x \in ToSet(lru) PROVE x \in ToSet(r)
    <3>1. PICK m \in 1..n : x = lru[m]
      BY <1>1 DEF ToSet
    <3>2. PICK j \in 1..n : pos(j) = m
      BY <1>11
    <3>3. QED
      BY <3>1, <3>2, <1>8, <1>9 DEF ToSet
  <2>3. QED
    BY <2>1, <2>2
<1>14. IsInjective(r)
  BY <1>1, <1>8, <1>9, <1>10, <1>12 DEF IsInjective
<1>15. QED
  BY <1>3, <1>8, <1>13, <1>14 DEF n

(* Trimming after one insertion brings the cache back within its limit and   *)
(* keeps the list in step with the map.                                      *)
LEMMA Trimmed ==
    ASSUME NEW lru \in Seq(Keys), IsInjective(lru), NEW cache,
           ToSet(lru) = DOMAIN cache, Len(lru) <= MaxCacheSize + 1
    PROVE  LET r == TrimCache(cache, lru)
           IN  /\ r.lru \in Seq(Keys)
               /\ Len(r.lru) <= MaxCacheSize
               /\ IsInjective(r.lru)
               /\ ToSet(r.lru) = DOMAIN r.cache
               /\ DOMAIN r.cache \subseteq DOMAIN cache
               /\ \A k \in DOMAIN r.cache : r.cache[k] = cache[k]
<1> DEFINE n == Len(lru)
           r == TrimCache(cache, lru)
<1>1. n \in Nat /\ DOMAIN lru = 1..n /\ \A m \in 1..n : lru[m] \in Keys
  BY LenProperties, ElementOfSeq
<1>2. CASE n <= MaxCacheSize
  BY <1>2 DEF TrimCache
<1>3. CASE n > MaxCacheSize
  <2> DEFINE f == SubSeq(lru, 1, n - 1)
  <2>1. /\ r.lru = f
        /\ r.cache = [k \in DOMAIN cache \ {lru[n]} |-> cache[k]]
    BY <1>1, <1>3 DEF TrimCache, Front, Last
  <2>2. /\ f \in Seq(Keys) /\ Len(f) = n - 1
        /\ \A m \in 1..(n - 1) : f[m] = lru[m]
    <3>1. \A m \in 1..(n - 1) : lru[m] \in Keys
      BY <1>1, <1>3
    <3>2. /\ f \in Seq(Keys)
          /\ Len(f) = IF 1 <= n - 1 THEN (n - 1) - 1 + 1 ELSE 0
          /\ \A m \in 1..((n - 1) - 1 + 1) : f[m] = lru[1 + m - 1]
      BY <1>1, <1>3, <3>1, SubSeqProperties
    <3>3. QED
      BY <1>1, <1>3, <3>2
  <2> HIDE DEF f, r, n
  <2>3. DOMAIN f = 1..(n - 1)
    BY <2>2, LenProperties
  <2>4. IsInjective(f)
    BY <1>1, <2>2, <2>3 DEF IsInjective
  <2>5. n \in 1..n /\ \A m \in 1..n : m = n \/ m \in 1..(n - 1)
    <3>1. n >= 1
      BY <1>1, <1>3, SizesAssumption
    <3>2. QED
      BY <3>1, <1>1
  <2>6. \A m \in 1..(n - 1) : lru[m] # lru[n]
    BY <1>1, <2>5 DEF IsInjective
  <2>7. ToSet(f) = ToSet(lru) \ {lru[n]}
    <3>1. \A x \in ToSet(f) : x \in ToSet(lru) \ {lru[n]}
      BY <1>1, <2>2, <2>3, <2>6 DEF ToSet
    <3>2. \A x \in ToSet(lru) \ {lru[n]} : x \in ToSet(f)
      BY <1>1, <2>2, <2>3, <2>5 DEF ToSet
    <3>3. QED
      BY <3>1, <3>2
  <2>8. Len(r.lru) <= MaxCacheSize
    BY <1>1, <1>3, <2>1, <2>2, SizesAssumption DEF n
  <2>9. QED
    BY <2>1, <2>2, <2>4, <2>7, <2>8 DEF r
<1>4. QED
  BY <1>1, <1>2, <1>3

-----------------------------------------------------------------------------
LEMMA InitIInv == Init => IInv
<1> SUFFICES ASSUME Init PROVE IInv
  OBVIOUS
<1>1. /\ issued = << >> /\ executed = << >> /\ signaled = 0
      /\ command = << >> /\ kernels = << >> /\ kernel_cache = << >>
      /\ lru_list = << >> /\ queued_references = {}
      /\ call = [t \in Threads |-> Idle]
  BY DEF Init, Stream!Init
<1>2. Idle \in Calls
  BY DEF Idle, Calls, None
<1>3. TypeInv
  BY <1>1, <1>2 DEF TypeInv
<1>4. StreamInv /\ NamesInv /\ HeldInv
  BY <1>1 DEF StreamInv, NamesInv, HeldInv
<1>5. MapInv
  <2>1. DOMAIN kernel_cache = {} /\ DOMAIN lru_list = {} /\ Len(lru_list) = 0
    BY <1>1
  <2>2. ToSet(lru_list) = {} /\ IsInjective(lru_list)
    BY <2>1 DEF ToSet, IsInjective
  <2>3. QED
    BY <2>1, <2>2 DEF MapInv
<1>6. CallsInv
  BY <1>1 DEF CallsInv, CallOK, Idle, None
<1>7. QED
  BY <1>3, <1>4, <1>5, <1>6 DEF IInv

(* Only the call of t changes, and stays what a call may be. *)
CallChanges(t) ==
    /\ call' \in [Threads -> Calls]
    /\ \A u \in Threads \ {t} : call'[u] = call[u]

(* A step of a call that submits nothing and creates nothing: it may drop    *)
(* references whose events are signaled, and a call that has executed its    *)
(* kernel goes on only when it has left a reference.                         *)
LEMMA CallStep ==
    ASSUME IInv, NEW t \in Threads, CallChanges(t),
           CallOK(call'[t], kernels),
           UNCHANGED <<issued, executed, signaled, command, kernels>>,
           lru_list' \in Seq(Keys), MapInv',
           NEW new \in SUBSET [kernel : 1..Len(kernels), event : Nat],
           queued_references' \subseteq queued_references \cup new,
           \A ref \in queued_references :
              ref.event > signaled => ref \in queued_references',
           call[t].pc = "queue" =>
              [kernel |-> call[t].kernel, event |-> call[t].event]
                 \in queued_references'
    PROVE  IInv'
<1>s. TypeInv /\ StreamInv /\ CallsInv /\ NamesInv /\ HeldInv
  BY DEF IInv
<1>1. /\ call' \in [Threads -> Calls]
      /\ \A u \in Threads \ {t} : call'[u] = call[u]
  BY DEF CallChanges
<1>2. Len(kernels) \in Nat /\ Len(executed) \in Nat /\ Len(issued) \in Nat
  BY <1>s, LenProperties DEF TypeInv
<1>3. new \subseteq [kernel : Nat, event : Nat]
  BY <1>2
<1>4. TypeInv'
  BY <1>1, <1>3, <1>s DEF TypeInv
<1>5. StreamInv'
  BY <1>s DEF StreamInv
<1>6. CallsInv'
  BY <1>1, <1>s DEF CallsInv
<1>7. NamesInv'
  <2>1. \A ref \in new : ref.kernel \in 1..Len(kernels)
    OBVIOUS
  <2>2. QED
    BY <2>1, <1>s DEF NamesInv
<1>8. HeldInv'
  <2> SUFFICES ASSUME NEW k \in 1..Len(command), k > Len(executed),
                      command[k].kind = "execute"
               PROVE  Held(command[k].kernel, issued[k])'
    BY DEF HeldInv
  <2>1. Held(command[k].kernel, issued[k])
    BY <1>s DEF HeldInv
  <2>2. issued[k] > signaled
    <3>1. k \in 1..Len(issued) /\ issued[k] \in Nat /\ signaled \in Nat
      BY <1>s, ElementOfSeq DEF StreamInv, TypeInv
    <3>2. ~(issued[k] <= signaled)
      BY <3>1, <1>2, <1>s DEF StreamInv
    <3>3. QED
      BY <3>1, <3>2
  <2>3. ASSUME NEW ref \in queued_references,
               ref.kernel = command[k].kernel, ref.event = issued[k]
        PROVE  Held(command[k].kernel, issued[k])'
    BY <2>2, <2>3 DEF Held
  <2>4. ASSUME NEW u \in Threads, call[u].pc = "queue",
               call[u].kernel = command[k].kernel, call[u].event = issued[k]
        PROVE  Held(command[k].kernel, issued[k])'
    <3>1. CASE u = t
      <4> DEFINE ref == [kernel |-> call[t].kernel, event |-> call[t].event]
      <4>1. /\ ref \in queued_references'
            /\ ref.kernel = command[k].kernel /\ ref.event = issued[k]
        BY <2>4, <3>1
      <4>2. QED
        BY <4>1 DEF Held
    <3>2. CASE u # t
      BY <2>4, <3>2, <1>1 DEF Held
    <3>3. QED
      BY <3>1, <3>2
  <2>5. QED
    BY <2>1, <2>3, <2>4 DEF Held
<1>9. QED
  BY <1>4, <1>5, <1>6, <1>7, <1>8 DEF IInv

(* The map and the list that stay are still in step. *)
LEMMA MapUnchanged ==
    ASSUME IInv, UNCHANGED <<cacheVars, kernels>>
    PROVE  MapInv' /\ lru_list' \in Seq(Keys)
  BY DEF IInv, MapInv, TypeInv, cacheVars

(* A call that returns is idle. *)
LEMMA Returned ==
    ASSUME IInv, NEW t \in Threads, Return(t)
    PROVE  CallChanges(t) /\ CallOK(call'[t], kernels)
<1>1. call \in [Threads -> Calls] /\ kernels \in Seq(Kernels)
  BY DEF IInv, TypeInv
<1>2. Idle \in Calls
  BY DEF Idle, Calls, None
<1>3. call' = [call EXCEPT ![t] = Idle]
  BY DEF Return
<1>4. CallChanges(t) /\ call'[t] = Idle
  BY <1>1, <1>2, <1>3 DEF CallChanges
<1>5. Len(kernels) \in Nat
  BY <1>1, LenProperties
<1>6. CallOK(Idle, kernels)
  BY <1>5 DEF CallOK, Idle, None
<1>7. QED
  BY <1>4, <1>6

(* A call that goes on has the same key, kernel and event. *)
LEMMA Gone ==
    ASSUME IInv, NEW t \in Threads,
           NEW place \in {"created", "execute", "sync"}, Goto(t, place)
    PROVE  /\ CallChanges(t)
           /\ call'[t].pc = place /\ call'[t].kernel = call[t].kernel
<1>1. call \in [Threads -> Calls]
  BY DEF IInv, TypeInv
<1>2. call' = [call EXCEPT ![t].pc = place]
  BY DEF Goto
<1>3. call'[t] \in Calls
  BY <1>1, <1>2 DEF Calls
<1>4. QED
  BY <1>1, <1>2, <1>3 DEF CallChanges, Calls

(* Looking up a kernel that is cached only moves its key to the front. *)
LEMMA LookupStep ==
    ASSUME IInv, NEW t \in Threads, NEW key \in Keys, Lookup(t, key)
    PROVE  IInv'
<1>s. TypeInv /\ MapInv /\ CallsInv
  BY DEF IInv
<1>1. /\ call \in [Threads -> Calls] /\ lru_list \in Seq(Keys)
      /\ kernels \in Seq(Kernels) /\ Len(kernels) \in Nat
  BY <1>s, LenProperties DEF TypeInv
<1>2. /\ call[t].pc = "idle" /\ queued_references' = queued_references
      /\ kernel_cache' = kernel_cache
      /\ UNCHANGED <<issued, executed, signaled, command, kernels>>
  BY DEF Lookup, At, streamVars
<1>3. call[t] \in Calls /\ call[t].kernel \in 0..Len(kernels)
  BY <1>1, <1>s DEF CallsInv, CallOK
<1>4. ASSUME CallChanges(t), CallOK(call'[t], kernels),
             lru_list' \in Seq(Keys), MapInv'
      PROVE  IInv'
  <2>1. {} \in SUBSET [kernel : 1..Len(kernels), event : Nat]
    OBVIOUS
  <2>2. QED
    BY <1>2, <1>4, <2>1, CallStep
<1>5. CASE key \notin NeverCached /\ key \in DOMAIN kernel_cache
  <2>1. /\ call' = [call EXCEPT ![t].pc = "execute", ![t].key = key,
                                ![t].kernel = kernel_cache[key]]
        /\ lru_list' = OnRecentlyUsed(lru_list, key)
    BY <1>5 DEF Lookup
  <2>2. kernel_cache[key] \in 1..Len(kernels)
    BY <1>5, <1>s DEF MapInv
  <2>3. kernel_cache[key] \in Nat
    BY <2>2, <1>1
  <2>4. /\ call'[t] \in Calls /\ call'[t].pc = "execute"
        /\ call'[t].kernel = kernel_cache[key]
    BY <2>1, <2>3, <1>1, <1>3 DEF Calls
  <2>5. CallChanges(t)
    BY <2>1, <2>4, <1>1 DEF CallChanges
  <2>6. CallOK(call'[t], kernels)
    BY <2>2, <2>4, <1>1 DEF CallOK, None
  <2>7. /\ lru_list' \in Seq(Keys) /\ Len(lru_list') = Len(lru_list)
        /\ ToSet(lru_list') = ToSet(lru_list) /\ IsInjective(lru_list')
    BY <2>1, <1>1, <1>5, <1>s, RecentlyUsed DEF MapInv
  <2>8. MapInv'
    BY <2>7, <1>2, <1>s DEF MapInv
  <2>9. QED
    BY <1>4, <2>5, <2>6, <2>7, <2>8
<1>6. CASE ~(key \notin NeverCached /\ key \in DOMAIN kernel_cache)
  <2>1. /\ call' = [call EXCEPT ![t].pc = "create", ![t].key = key]
        /\ lru_list' = lru_list
    BY <1>6 DEF Lookup
  <2>2. /\ call'[t] \in Calls /\ call'[t].pc = "create"
        /\ call'[t].kernel = call[t].kernel /\ call'[t].key = key
    BY <2>1, <1>1, <1>3 DEF Calls
  <2>3. CallChanges(t)
    BY <2>1, <2>2, <1>1 DEF CallChanges
  <2>4. CallOK(call'[t], kernels)
    BY <2>2, <1>3 DEF CallOK
  <2>5. lru_list' \in Seq(Keys) /\ MapInv'
    BY <2>1, <1>1, <1>2, <1>s DEF MapInv
  <2>6. QED
    BY <1>4, <2>3, <2>4, <2>5
<1>7. QED
  BY <1>5, <1>6

(* The kernel enters the cache unless another thread was first, and at most  *)
(* one other kernel leaves it.                                               *)
LEMMA EmplaceStep ==
    ASSUME IInv, NEW t \in Threads, CreateCachedKernel(t)
    PROVE  IInv'
<1>s. TypeInv /\ MapInv /\ CallsInv
  BY DEF IInv
<1> DEFINE key == call[t].key
           kernel == call[t].kernel
<1>1. /\ call \in [Threads -> Calls] /\ lru_list \in Seq(Keys)
      /\ kernels \in Seq(Kernels) /\ Len(kernels) \in Nat
      /\ Len(lru_list) \in Nat /\ DOMAIN lru_list = 1..Len(lru_list)
  BY <1>s, LenProperties DEF TypeInv
<1>2. /\ call[t].pc = "cache" /\ queued_references' = queued_references
      /\ Emplace(key, kernel) /\ Goto(t, "created")
      /\ UNCHANGED <<issued, executed, signaled, command, kernels>>
  BY DEF CreateCachedKernel, At, streamVars
<1>3. /\ key \in Keys \ NeverCached /\ kernel \in 1..Len(kernels)
      /\ kernels[kernel].key = key
  BY <1>1, <1>2, <1>s DEF CallsInv, CallOK, None
<1>4. CallChanges(t) /\ call'[t].pc = "created" /\ call'[t].kernel = kernel
  BY <1>2, Gone
<1>5. CallOK(call'[t], kernels)
  BY <1>1, <1>3, <1>4 DEF CallOK, None
<1> HIDE DEF key, kernel
<1>6. lru_list' \in Seq(Keys) /\ MapInv'
  <2>1. CASE key \in DOMAIN kernel_cache
    <3>1. /\ lru_list' = OnRecentlyUsed(lru_list, key)
          /\ kernel_cache' = kernel_cache
      BY <2>1, <1>2 DEF Emplace
    <3>2. /\ lru_list' \in Seq(Keys) /\ Len(lru_list') = Len(lru_list)
          /\ ToSet(lru_list') = ToSet(lru_list) /\ IsInjective(lru_list')
      BY <3>1, <2>1, <1>1, <1>s, RecentlyUsed DEF MapInv
    <3>3. QED
      BY <3>1, <3>2, <1>2, <1>s DEF MapInv
  <2>2. CASE key \notin DOMAIN kernel_cache
    <3> DEFINE cache == [k \in DOMAIN kernel_cache \cup {key} |->
                            IF k = key THEN kernel ELSE kernel_cache[k]]
               lru == <<key>> \o lru_list
               trimmed == TrimCache(cache, lru)
    <3>1. kernel_cache' = trimmed.cache /\ lru_list' = trimmed.lru
      BY <2>2, <1>2 DEF Emplace
    <3>2. /\ lru \in Seq(Keys) /\ Len(lru) = 1 + Len(lru_list)
          /\ \A i \in 1..(1 + Len(lru_list)) :
                lru[i] = IF i <= 1 THEN <<key>>[i] ELSE lru_list[i - 1]
      <4>1. <<key>> \in Seq(Keys) /\ Len(<<key>>) = 1
        BY <1>3
      <4>2. QED
        BY <4>1, <1>1, ConcatProperties
    <3>3. DOMAIN lru = 1..(1 + Len(lru_list))
      BY <3>2, LenProperties
    <3>4. /\ lru[1] = key
          /\ \A i \in 2..(1 + Len(lru_list)) :
                i - 1 \in 1..Len(lru_list) /\ lru[i] = lru_list[i - 1]
      BY <3>2, <1>1
    <3> HIDE DEF lru
    <3>5. \A i \in 1..Len(lru_list) : lru_list[i] # key
      BY <2>2, <1>1, <1>s DEF MapInv, ToSet
    <3>6. IsInjective(lru)
      <4> SUFFICES ASSUME NEW a \in 1..(1 + Len(lru_list)),
                          NEW b \in 1..(1 + Len(lru_list)), lru[a] = lru[b]
                   PROVE  a = b
        BY <3>3 DEF IsInjective
      <4>1. CASE a = 1 \/ b = 1
        <5>1. \A i \in 2..(1 + Len(lru_list)) : lru[i] # key
          BY <3>4, <3>5
        <5>2. (a = 1 \/ a \in 2..(1 + Len(lru_list)))
              /\ (b = 1 \/ b \in 2..(1 + Len(lru_list)))
          BY <1>1
        <5>3. QED
          BY <4>1, <5>1, <5>2, <3>4
      <4>2. CASE a # 1 /\ b # 1
        <5>1. /\ a - 1 \in 1..Len(lru_list) /\ b - 1 \in 1..Len(lru_list)
              /\ lru_list[a - 1] = lru_list[b - 1]
          BY <4>2, <3>4, <1>1
        <5>2. a - 1 = b - 1
          BY <5>1, <1>1, <1>s DEF MapInv, IsInjective
        <5>3. QED
          BY <5>2, <1>1
      <4>3. QED
        BY <4>1, <4>2
    <3>7. ToSet(lru) = DOMAIN cache
      <4>1. \A x \in ToSet(lru) : x \in ToSet(lru_list) \cup {key}
        <5> TAKE x \in ToSet(lru)
        <5>1. PICK i \in 1..(1 + Len(lru_list)) : x = lru[i]
          BY <3>3 DEF ToSet
        <5>2. i = 1 \/ i \in 2..(1 + Len(lru_list))
          BY <1>1
        <5>3. QED
          BY <5>1, <5>2, <3>4, <1>1 DEF ToSet
      <4>2. ASSUME NEW x \in ToSet(lru_list) PROVE x \in ToSet(lru)
        <5>1. PICK i \in 1..Len(lru_list) : x = lru_list[i]
          BY <1>1 DEF ToSet
        <5>2. /\ i + 1 \in 2..(1 + Len(lru_list)) /\ (i + 1) - 1 = i
              /\ i + 1 \in 1..(1 + Len(lru_list))
          BY <1>1
        <5>3. lru[i + 1] = x
          BY <5>1, <5>2, <3>4
        <5>4. QED
          BY <5>2, <5>3, <3>3 DEF ToSet
      <4>3. key \in ToSet(lru)
        <5>1. 1 \in 1..(1 + Len(lru_list))
          BY <1>1
        <5>2. lru[1] = key
          BY <3>4
        <5>3. QED
          BY <3>3, <5>1, <5>2 DEF ToSet
      <4>4. QED
        BY <4>1, <4>2, <4>3, <1>s DEF MapInv
    <3>8. Len(lru) <= MaxCacheSize + 1
      BY <3>2, <1>1, <1>s, SizesAssumption DEF MapInv
    <3>9. \A k \in DOMAIN cache :
             /\ k \in Keys \ NeverCached
             /\ cache[k] \in 1..Len(kernels) /\ kernels[cache[k]].key = k
      BY <1>3, <1>s DEF MapInv
    <3> HIDE DEF cache
    <3>10. /\ trimmed.lru \in Seq(Keys) /\ Len(trimmed.lru) <= MaxCacheSize
           /\ IsInjective(trimmed.lru)
           /\ ToSet(trimmed.lru) = DOMAIN trimmed.cache
           /\ DOMAIN trimmed.cache \subseteq DOMAIN cache
           /\ \A k \in DOMAIN trimmed.cache : trimmed.cache[k] = cache[k]
      BY <3>2, <3>6, <3>7, <3>8, Trimmed
    <3> HIDE DEF trimmed
    <3>11. QED
      BY <3>1, <3>9, <3>10, <1>2 DEF MapInv
  <2>3. QED
    BY <2>1, <2>2
<1>7. {} \in SUBSET [kernel : 1..Len(kernels), event : Nat]
  OBVIOUS
<1>8. QED
  BY <1>2, <1>4, <1>5, <1>6, <1>7, CallStep

(* The steps of a call that leave the cache, the kernels and the stream.     *)
LEMMA QuietStep ==
    ASSUME IInv, NEW t \in Threads,
           ReturnEarly(t) \/ CheckStatus(t) \/ ComputeFails(t) \/ Sync(t)
    PROVE  IInv'
<1>s. TypeInv /\ CallsInv
  BY DEF IInv
<1>1. /\ call[t].pc \in {"create", "created", "execute", "idle"}
      /\ UNCHANGED <<issued, executed, signaled, command, kernels, cacheVars,
                     queued_references>>
  BY DEF ReturnEarly, CheckStatus, ComputeFails, Sync, At, streamVars,
         Stream!StartBarrier
<1>2. \/ Return(t)
      \/ call[t].pc = "created" /\ Goto(t, "execute")
      \/ Goto(t, "sync")
  BY DEF ReturnEarly, CheckStatus, ComputeFails, Sync, At
<1>3. CallOK(call[t], kernels)
  BY <1>s DEF CallsInv
<1>4. CallChanges(t) /\ CallOK(call'[t], kernels)
  <2>1. CASE Return(t)
    BY <2>1, Returned
  <2>2. CASE call[t].pc = "created" /\ Goto(t, "execute")
    <3>1. /\ CallChanges(t) /\ call'[t].pc = "execute"
          /\ call'[t].kernel = call[t].kernel
      BY <2>2, Gone
    <3>2. QED
      BY <3>1, <2>2, <1>3 DEF CallOK
  <2>3. CASE Goto(t, "sync")
    <3>1. /\ CallChanges(t) /\ call'[t].pc = "sync"
          /\ call'[t].kernel = call[t].kernel
      BY <2>3, Gone
    <3>2. QED
      BY <3>1, <1>3 DEF CallOK
  <2>4. QED
    BY <1>2, <2>1, <2>2, <2>3
<1>5. MapInv' /\ lru_list' \in Seq(Keys)
  BY <1>1, MapUnchanged
<1>6. {} \in SUBSET [kernel : 1..Len(kernels), event : Nat]
  OBVIOUS
<1>7. call[t].pc # "queue"
  BY <1>1
<1>8. QED
  BY <1>1, <1>4, <1>5, <1>6, <1>7, CallStep

(* The call leaves its reference before it drops its own. *)
LEMMA QueueStep == ASSUME IInv, NEW t \in Threads, QueueReference(t)
                   PROVE  IInv'
<1>s. TypeInv /\ CallsInv
  BY DEF IInv
<1> DEFINE ref == [kernel |-> call[t].kernel, event |-> call[t].event]
<1>1. /\ call[t].pc = "queue" /\ Return(t)
      /\ queued_references' = queued_references \cup {ref}
      /\ UNCHANGED <<issued, executed, signaled, command, kernels, cacheVars>>
  BY DEF QueueReference, At, HeldUntil, streamVars
<1>2. CallOK(call[t], kernels) /\ call[t] \in Calls
  BY <1>s DEF CallsInv, TypeInv
<1>3. Len(kernels) \in Nat
  BY <1>s, LenProperties DEF TypeInv
<1>4. {ref} \in SUBSET [kernel : 1..Len(kernels), event : Nat]
  <2>1. call[t].kernel \in 1..Len(kernels) /\ call[t].event \in Nat
    BY <1>1, <1>2, <1>3 DEF CallOK, Calls, None
  <2>2. QED
    BY <2>1
<1>5. MapInv' /\ lru_list' \in Seq(Keys)
  BY <1>1, MapUnchanged
<1>6. CallChanges(t) /\ CallOK(call'[t], kernels)
  BY <1>1, Returned
<1> HIDE DEF ref
<1>7. /\ queued_references' \subseteq queued_references \cup {ref}
      /\ ref \in queued_references'
      /\ \A r \in queued_references : r \in queued_references'
  BY <1>1
<1>8. QED
  BY <1>1, <1>4, <1>5, <1>6, <1>7, CallStep DEF ref

(* Sync drops only references whose events are signaled. *)
LEMMA SyncStep == ASSUME IInv, NEW t \in Threads, SyncReturns(t)
                  PROVE  IInv'
<1>1. /\ call[t].pc = "sync" /\ Return(t)
      /\ queued_references' = {ref \in queued_references :
                                  ref.event > signaled}
      /\ UNCHANGED <<issued, executed, signaled, command, kernels, cacheVars>>
  BY DEF SyncReturns, At, ReleaseCompletedReferences, Stream!PassBarrier
<1>2. MapInv' /\ lru_list' \in Seq(Keys)
  BY <1>1, MapUnchanged
<1>3. CallChanges(t) /\ CallOK(call'[t], kernels)
  BY <1>1, Returned
<1>4. {} \in SUBSET [kernel : 1..Len(kernels), event : Nat]
  OBVIOUS
<1>5. QED
  BY <1>1, <1>2, <1>3, <1>4, CallStep

-----------------------------------------------------------------------------
Kinds == {"initialize", "execute"}

(* What the stream and the history are after a submission: the new command   *)
(* has an event that is not signaled.                                        *)
LEMMA Submitted ==
    ASSUME TypeInv, StreamInv,
           NEW kind \in Kinds, NEW kernel \in Nat, Submit(kind, kernel)
    PROVE  /\ StreamInv'
           /\ issued' \in Seq(Nat)
           /\ command' \in Seq([kind : Kinds, kernel : Nat])
           /\ UNCHANGED <<executed, signaled>>
           /\ Len(command) \in Nat /\ Len(command') = Len(command) + 1
           /\ Len(issued') = Len(issued) + 1
           /\ Len(issued) = Len(command)
           /\ issued'[Len(issued')] \in Nat
           /\ \A c \in 1..Len(command) :
                 command'[c] = command[c] /\ issued'[c] = issued[c]
           /\ command'[Len(command) + 1] = [kind |-> kind, kernel |-> kernel]
<1>1. /\ issued \in Seq(Nat) /\ signaled \in Nat /\ executed \in Seq(Nat)
      /\ command \in Seq([kind : Kinds, kernel : Nat])
      /\ Len(issued) \in Nat /\ Len(executed) \in Nat
      /\ Len(command) \in Nat
  BY LenProperties DEF TypeInv, Kinds
<1>2. PICK e \in {Stream!LastEvent, Stream!LastEvent + 1} :
         e > signaled /\ issued' = Append(issued, e)
  BY DEF Submit, Stream!Issue
<1>3. UNCHANGED <<executed, signaled>>
  BY DEF Submit, Stream!Issue
<1>4. e \in Nat
  <2>1. Stream!LastEvent \in Nat
    <3>1. CASE issued = << >>
      BY <3>1 DEF Stream!LastEvent
    <3>2. CASE issued # << >>
      <4>1. Len(issued) \in 1..Len(issued)
        BY <3>2, <1>1, EmptySeq
      <4>2. QED
        BY <3>2, <4>1, <1>1, ElementOfSeq DEF Stream!LastEvent
    <3>3. QED
      BY <3>1, <3>2
  <2>2. QED
    BY <2>1
<1> DEFINE new == [kind |-> kind, kernel |-> kernel]
<1>5. new \in [kind : Kinds, kernel : Nat] /\ command' = Append(command, new)
  BY DEF Submit
<1> HIDE DEF new
<1>6. /\ issued' \in Seq(Nat) /\ Len(issued') = Len(issued) + 1
      /\ \A c \in 1..Len(issued) : issued'[c] = issued[c]
      /\ issued'[Len(issued) + 1] = e
  BY <1>1, <1>2, <1>4, AppendProperties
<1>7. /\ command' \in Seq([kind : Kinds, kernel : Nat])
      /\ Len(command') = Len(command) + 1
      /\ \A c \in 1..Len(command) : command'[c] = command[c]
      /\ command'[Len(command) + 1] = new
  BY <1>1, <1>5, AppendProperties
<1>8. Len(issued) = Len(command) /\ Len(executed) <= Len(issued)
  BY DEF StreamInv
<1>9. \A i \in 1..Len(issued') : issued'[i] <= signaled <=> i <= Len(executed)
  <2> TAKE i \in 1..Len(issued')
  <2>1. CASE i \in 1..Len(issued)
    BY <2>1, <1>6 DEF StreamInv
  <2>2. CASE i = Len(issued) + 1
    BY <2>2, <1>1, <1>2, <1>4, <1>6, <1>8
  <2>3. QED
    BY <2>1, <2>2, <1>1, <1>6
<1>10. StreamInv'
  <2>1. Len(command') = Len(issued') /\ Len(executed') <= Len(issued')
    BY <1>1, <1>3, <1>6, <1>7, <1>8
  <2>2. QED
    BY <2>1, <1>3, <1>9 DEF StreamInv
<1>11. QED
  BY <1>1, <1>3, <1>4, <1>6, <1>7, <1>8, <1>10 DEF new

(* What the kernels, the cache and the calls are after a creation. *)
LEMMA Created ==
    ASSUME IInv, NEW t \in Threads, NEW initialized \in BOOLEAN,
           call[t].pc = "create", NewKernel(t, initialized),
           UNCHANGED <<cacheVars, queued_references>>
    PROVE  /\ kernels' \in Seq(Kernels)
           /\ Len(kernels) \in Nat /\ Len(kernels') = Len(kernels) + 1
           /\ CallChanges(t) /\ call'[t].pc # "queue"
           /\ CallsInv' /\ MapInv'
<1>s. TypeInv /\ MapInv /\ CallsInv
  BY DEF IInv
<1>1. /\ call \in [Threads -> Calls] /\ kernels \in Seq(Kernels)
      /\ Len(kernels) \in Nat
  BY <1>s, LenProperties DEF TypeInv
<1>2. call[t] \in Calls /\ call[t].key \in Keys
  BY <1>1, <1>s DEF CallsInv, CallOK
<1> DEFINE new == [key |-> call[t].key, initialized |-> initialized]
<1>3. kernels' = Append(kernels, new) /\ new \in Kernels
      /\ new.key = call[t].key
  BY <1>2 DEF NewKernel, Kernels
<1> HIDE DEF new
<1>4. /\ kernels' \in Seq(Kernels) /\ Len(kernels') = Len(kernels) + 1
      /\ \A k \in 1..Len(kernels) : kernels'[k] = kernels[k]
      /\ kernels'[Len(kernels) + 1] = new
  BY <1>1, <1>3, AppendProperties
<1>5. call' = [call EXCEPT ![t].pc = AfterCreation(t),
                           ![t].kernel = Len(kernels')]
  BY DEF NewKernel
<1>6. AfterCreation(t) \in {"created", "cache"}
      /\ (AfterCreation(t) = "cache" => call[t].key \notin NeverCached)
  BY DEF AfterCreation
<1>7. Len(kernels') \in Nat
  BY <1>1, <1>4
<1> DEFINE place == AfterCreation(t)
           n == Len(kernels')
<1>8. place \in {"created", "cache"} /\ n \in Nat
      /\ call' = [call EXCEPT ![t].pc = place, ![t].kernel = n]
      /\ (place = "cache" => call[t].key \notin NeverCached)
      /\ n = Len(kernels')
  BY <1>5, <1>6, <1>7
<1> HIDE DEF place, n
<1>9. /\ call'[t] \in Calls /\ call'[t].pc = place /\ call'[t].kernel = n
      /\ call'[t].key = call[t].key
  BY <1>1, <1>2, <1>8 DEF Calls
<1>10. CallChanges(t)
  BY <1>1, <1>8, <1>9 DEF CallChanges
<1>11. CallOK(call'[t], kernels')
  <2>1. n = Len(kernels) + 1 /\ kernels'[n].key = call[t].key
    BY <1>3, <1>4, <1>8
  <2>2. QED
    BY <2>1, <1>1, <1>2, <1>4, <1>8, <1>9 DEF CallOK, None
<1>12. ASSUME NEW u \in Threads \ {t} PROVE CallOK(call'[u], kernels')
  <2>1. CallOK(call[u], kernels) /\ call'[u] = call[u]
    BY <1>10, <1>s DEF CallsInv, CallChanges
  <2>2. QED
    BY <2>1, <1>1, <1>4 DEF CallOK, None
<1>13. CallsInv'
  BY <1>11, <1>12 DEF CallsInv
<1>14. MapInv'
  <2>1. UNCHANGED <<kernel_cache, lru_list>>
    BY DEF cacheVars
  <2>2. \A key \in DOMAIN kernel_cache :
           /\ kernel_cache[key] \in 1..Len(kernels')
           /\ kernels'[kernel_cache[key]].key = key
    <3> TAKE key \in DOMAIN kernel_cache
    <3>1. kernel_cache[key] \in 1..Len(kernels)
          /\ kernels[kernel_cache[key]].key = key
      BY <1>s DEF MapInv
    <3>2. QED
      BY <3>1, <1>1, <1>4
  <2>3. QED
    BY <2>1, <2>2, <1>s DEF MapInv
<1>15. QED
  BY <1>1, <1>4, <1>8, <1>9, <1>10, <1>13, <1>14

(* A kernel that is created joins the others; the command that initializes   *)
(* it, if it was submitted, does not execute it.                             *)
LEMMA CreateStep ==
    ASSUME IInv, NEW t \in Threads, CreateKernel(t) \/ CreateKernelFails(t)
    PROVE  IInv'
<1>s. TypeInv /\ StreamInv /\ NamesInv /\ HeldInv
  BY DEF IInv
<1>1. PICK initialized \in BOOLEAN :
         /\ NewKernel(t, initialized)
         /\ \/ Submit("initialize", Len(kernels'))
            \/ UNCHANGED <<streamVars, command>>
  BY DEF CreateKernel, CreateKernelFails
<1>2. call[t].pc = "create" /\ UNCHANGED <<cacheVars, queued_references>>
  BY DEF CreateKernel, CreateKernelFails, At
<1>3. /\ kernels' \in Seq(Kernels)
      /\ Len(kernels) \in Nat /\ Len(kernels') = Len(kernels) + 1
      /\ CallChanges(t) /\ call'[t].pc # "queue"
      /\ CallsInv' /\ MapInv'
  BY <1>1, <1>2, Created
<1>4. /\ StreamInv' /\ issued' \in Seq(Nat)
      /\ command' \in Seq([kind : Kinds, kernel : Nat])
      /\ UNCHANGED <<executed, signaled>> /\ Len(command) \in Nat
      /\ \A c \in 1..Len(command) :
            command'[c] = command[c] /\ issued'[c] = issued[c]
      /\ \A c \in 1..Len(command') : \/ c \in 1..Len(command)
                                     \/ /\ command'[c].kind = "initialize"
                                        /\ command'[c].kernel = Len(kernels')
  <2>1. CASE Submit("initialize", Len(kernels'))
    <3>1. "initialize" \in Kinds /\ Len(kernels') \in Nat
      BY <1>3 DEF Kinds
    <3>2. /\ StreamInv' /\ issued' \in Seq(Nat)
          /\ command' \in Seq([kind : Kinds, kernel : Nat])
          /\ UNCHANGED <<executed, signaled>>
          /\ Len(command) \in Nat /\ Len(command') = Len(command) + 1
          /\ \A c \in 1..Len(command) :
                command'[c] = command[c] /\ issued'[c] = issued[c]
          /\ command'[Len(command) + 1] = [kind |-> "initialize",
                                           kernel |-> Len(kernels')]
      BY <1>s, <2>1, <3>1, Submitted
    <3>3. \A c \in 1..Len(command') :
             c \in 1..Len(command) \/ c = Len(command) + 1
      BY <3>2
    <3>4. QED
      BY <3>2, <3>3
  <2>2. CASE UNCHANGED <<streamVars, command>>
    <3>1. UNCHANGED <<issued, executed, signaled, command>>
      BY <2>2 DEF streamVars
    <3>2. command \in Seq([kind : Kinds, kernel : Nat])
      BY <1>s DEF TypeInv, Kinds
    <3>3. QED
      BY <3>1, <3>2, <1>s, LenProperties DEF StreamInv, TypeInv
  <2>3. QED
    BY <1>1, <2>1, <2>2
<1>5. TypeInv'
  BY <1>2, <1>3, <1>4, <1>s DEF TypeInv, CallChanges, cacheVars, Kinds
<1>6. NamesInv'
  <2>1. \A k \in 1..Len(kernels) : k \in 1..Len(kernels')
    BY <1>3
  <2>2. \A ref \in queued_references' : ref.kernel \in 1..Len(kernels')
    BY <2>1, <1>2, <1>s DEF NamesInv
  <2>3. Len(kernels') \in 1..Len(kernels')
    BY <1>3
  <2>4. \A c \in 1..Len(command') : command'[c].kernel \in 1..Len(kernels')
    BY <2>1, <2>3, <1>4, <1>s DEF NamesInv
  <2>5. QED
    BY <2>2, <2>4 DEF NamesInv
<1>7. HeldInv'
  <2> SUFFICES ASSUME NEW c \in 1..Len(command'), c > Len(executed'),
                      command'[c].kind = "execute"
               PROVE  Held(command[c].kernel, issued[c])'
    BY DEF HeldInv
  <2>1. /\ c \in 1..Len(command) /\ command'[c] = command[c]
        /\ issued'[c] = issued[c]
    BY <1>4
  <2>2. Held(command[c].kernel, issued[c])
    BY <2>1, <1>4, <1>s DEF HeldInv
  <2>3. \A u \in Threads : call[u].pc = "queue" => call'[u] = call[u]
    BY <1>2, <1>3 DEF CallChanges
  <2>4. QED
    BY <2>1, <2>2, <2>3, <1>2 DEF Held
<1>8. QED
  BY <1>3, <1>4, <1>5, <1>6, <1>7 DEF IInv

(* The call that executes a kernel keeps it until it has left a reference.   *)
LEMMA ComputeStep == ASSUME IInv, NEW t \in Threads, ComputeKernel(t)
                     PROVE  IInv'
<1>s. /\ TypeInv /\ StreamInv /\ MapInv /\ CallsInv /\ NamesInv
      /\ HeldInv
  BY DEF IInv
<1> DEFINE kernel == call[t].kernel
           event == issued'[Len(issued')]
<1>1. /\ call[t].pc = "execute" /\ Submit("execute", kernel)
      /\ call' = [call EXCEPT ![t].pc = "queue", ![t].event = event]
      /\ UNCHANGED <<cacheVars, kernels, queued_references>>
  BY DEF ComputeKernel, At
<1>2. call \in [Threads -> Calls] /\ call[t] \in Calls
  BY <1>s DEF TypeInv
<1>3. Len(kernels) \in Nat
  BY <1>s, LenProperties DEF TypeInv
<1>4. kernel \in 1..Len(kernels) /\ kernel \in Nat
  BY <1>1, <1>3, <1>s DEF CallsInv, CallOK, None
<1>5. /\ StreamInv' /\ issued' \in Seq(Nat)
      /\ command' \in Seq([kind : Kinds, kernel : Nat])
      /\ UNCHANGED <<executed, signaled>>
      /\ Len(command) \in Nat /\ Len(command') = Len(command) + 1
      /\ Len(issued') = Len(issued) + 1
      /\ Len(issued) = Len(command) /\ event \in Nat
      /\ \A c \in 1..Len(command) :
            command'[c] = command[c] /\ issued'[c] = issued[c]
      /\ command'[Len(command) + 1] = [kind |-> "execute",
                                       kernel |-> kernel]
  <2>1. "execute" \in Kinds
    BY DEF Kinds
  <2>2. QED
    BY <2>1, <1>1, <1>4, <1>s, Submitted
<1>6. event = issued'[Len(command) + 1]
  BY <1>5
<1> HIDE DEF event
<1>7. /\ call'[t] \in Calls /\ call'[t].pc = "queue"
      /\ call'[t].kernel = kernel /\ call'[t].event = event
  BY <1>1, <1>2, <1>5 DEF Calls
<1>8. CallChanges(t)
  BY <1>1, <1>2, <1>7 DEF CallChanges
<1> HIDE DEF kernel
<1>9. TypeInv'
  BY <1>1, <1>5, <1>8, <1>s DEF TypeInv, CallChanges, cacheVars, Kinds
<1>10. MapInv'
  BY <1>1, MapUnchanged
<1>11. CallsInv'
  <2>1. CallOK(call'[t], kernels)
    BY <1>4, <1>7, <1>3 DEF CallOK, None
  <2>2. QED
    BY <2>1, <1>1, <1>8, <1>s DEF CallsInv, CallChanges
<1>12. \A c \in 1..Len(command') : c \in 1..Len(command)
                                   \/ c = Len(command) + 1
  BY <1>5
<1>13. NamesInv'
  <2>1. command'[Len(command) + 1].kernel = kernel
    BY <1>5
  <2>2. QED
    BY <2>1, <1>1, <1>4, <1>5, <1>12, <1>s DEF NamesInv
<1>14. HeldInv'
  <2> SUFFICES ASSUME NEW c \in 1..Len(command'), c > Len(executed'),
                      command'[c].kind = "execute"
               PROVE  Held(command[c].kernel, issued[c])'
    BY DEF HeldInv
  <2>1. CASE c \in 1..Len(command)
    <3>1. Held(command[c].kernel, issued[c])
      BY <2>1, <1>5, <1>s DEF HeldInv
    <3>2. \A u \in Threads : call[u].pc = "queue" => call'[u] = call[u]
      BY <1>1, <1>8 DEF CallChanges
    <3>3. QED
      BY <2>1, <3>1, <3>2, <1>1, <1>5 DEF Held
  <2>2. CASE c = Len(command) + 1
    <3>1. command'[c].kernel = kernel /\ issued'[c] = event
      BY <2>2, <1>5, <1>6
    <3>2. QED
      BY <3>1, <1>7 DEF Held
  <2>3. QED
    BY <2>1, <2>2, <1>12
<1>15. QED
  BY <1>5, <1>9, <1>10, <1>11, <1>13, <1>14 DEF IInv

(* The commands of the next event are executed and no longer pending. *)
LEMMA GpuStep == ASSUME IInv, GpuSignals PROVE IInv'
<1>s. /\ TypeInv /\ StreamInv /\ MapInv /\ CallsInv /\ NamesInv
      /\ HeldInv
  BY DEF IInv
<1>1. /\ signaled' = signaled + 1 /\ issued' = issued
      /\ UNCHANGED <<cacheVars, command, kernels, queued_references, call>>
  BY DEF GpuSignals, Stream!Signal
<1>2. PICK n \in (Len(executed) + 1)..Len(issued) :
         /\ \A i \in 1..Len(issued) : issued[i] <= signaled + 1 <=> i <= n
         /\ executed' = [i \in 1..n |-> i]
  BY DEF GpuSignals, Stream!Signal
<1>3. Len(executed) \in Nat /\ Len(issued) \in Nat /\ signaled \in Nat
  BY <1>s, LenProperties DEF TypeInv
<1>4. n \in Nat /\ n > Len(executed) /\ n <= Len(issued)
  BY <1>2, <1>3
<1>5. executed' \in Seq(Nat) /\ Len(executed') = n
  BY <1>2, <1>4
<1>6. TypeInv'
  BY <1>1, <1>3, <1>5, <1>s DEF TypeInv, cacheVars
<1>7. StreamInv'
  BY <1>1, <1>2, <1>4, <1>5, <1>s DEF StreamInv
<1>8. MapInv'
  BY <1>1, MapUnchanged
<1>9. CallsInv' /\ NamesInv'
  BY <1>1, <1>s DEF CallsInv, NamesInv
<1>10. HeldInv'
  <2> SUFFICES ASSUME NEW c \in 1..Len(command), c > n,
                      command[c].kind = "execute"
               PROVE  Held(command[c].kernel, issued[c])'
    BY <1>1, <1>5 DEF HeldInv
  <2>1. c \in Nat /\ Len(command) \in Nat /\ c > Len(executed)
    BY <1>3, <1>4, <1>s DEF StreamInv
  <2>2. Held(command[c].kernel, issued[c])
    BY <2>1, <1>s DEF HeldInv
  <2>3. QED
    BY <2>2, <1>1 DEF Held
<1>11. QED
  BY <1>6, <1>7, <1>8, <1>9, <1>10 DEF IInv

LEMMA StepKeepsIInv == IInv /\ [Next]_vars => IInv'
<1> SUFFICES ASSUME IInv, [Next]_vars PROVE IInv'
  OBVIOUS
<1>1. CASE UNCHANGED vars
  <2>1. UNCHANGED <<issued, executed, signaled, kernel_cache, lru_list,
                    command, kernels, queued_references, call>>
    BY <1>1 DEF vars, streamVars, cacheVars
  <2>2. TypeInv' /\ StreamInv' /\ MapInv'
    BY <2>1 DEF IInv, TypeInv, StreamInv, MapInv
  <2>3. CallsInv' /\ NamesInv'
    BY <2>1 DEF IInv, CallsInv, NamesInv
  <2>4. HeldInv'
    BY <2>1 DEF IInv, HeldInv, Held
  <2>5. QED
    BY <2>2, <2>3, <2>4 DEF IInv
<1>2. CASE Next
  <2>1. ASSUME NEW t \in Threads, NEW key \in Keys, Lookup(t, key)
        PROVE  IInv'
    BY <2>1, LookupStep
  <2>2. ASSUME NEW t \in Threads,
               \/ ReturnEarly(t) \/ CreateKernel(t) \/ CreateKernelFails(t)
               \/ CreateCachedKernel(t) \/ CheckStatus(t) \/ ComputeFails(t)
               \/ ComputeKernel(t) \/ QueueReference(t)
               \/ Sync(t) \/ SyncReturns(t)
        PROVE  IInv'
    BY <2>2, QuietStep, CreateStep, EmplaceStep, ComputeStep, QueueStep,
       SyncStep
  <2>3. QED
    BY <1>2, <2>1, <2>2, GpuStep DEF Next
<1>3. QED
  BY <1>1, <1>2

(* The inductive invariant holds in every state, for any threads and keys.   *)
THEOREM Invariance == Spec => []IInv
<1>1. QED
  BY InitIInv, StepKeepsIInv, PTL DEF Spec

(* TrimCache's assertion and the limit of the cache hold although threads    *)
(* race to insert the same key and one insertion trims at most one entry.    *)
THEOREM CacheSafety == Spec => []CacheInv
<1>1. IInv => CacheInv
  <2> SUFFICES ASSUME IInv PROVE CacheInv
    OBVIOUS
  <2>s. TypeInv /\ StreamInv /\ MapInv /\ CallsInv /\ NamesInv
    BY DEF IInv
  <2>1. kernels \in Seq(Kernels)
    BY <2>s DEF TypeInv
  <2>2. DOMAIN kernels = 1..Len(kernels) /\ Len(kernels) \in Nat
    BY <2>1, LenProperties
  <2>3. command \in Seq([kind : Kinds, kernel : 1..Len(kernels)])
    <3>1. command \in Seq([kind : Kinds, kernel : Nat])
      BY <2>s DEF TypeInv, Kinds
    <3>2. /\ Len(command) \in Nat
          /\ command \in [1..Len(command) -> [kind : Kinds, kernel : Nat]]
      BY <3>1, LenProperties
    <3>3. \A c \in 1..Len(command) : command[c].kernel \in 1..Len(kernels)
      BY <2>s DEF NamesInv
    <3>4. \A c \in 1..Len(command) :
             command[c] \in [kind : Kinds, kernel : 1..Len(kernels)]
      BY <3>2, <3>3
    <3>5. command \in [1..Len(command) ->
                          [kind : Kinds, kernel : 1..Len(kernels)]]
      BY <3>2, <3>4
    <3> DEFINE T == [kind : Kinds, kernel : 1..Len(kernels)]
    <3>6. Len(command) \in Nat /\ command \in [1..Len(command) -> T]
      BY <3>2, <3>5
    <3> HIDE DEF T
    <3>7. command \in Seq(T)
      BY <3>6, SeqDef
    <3>8. QED
      BY <3>7 DEF T
  <2>4. \A t \in Threads : call[t].kernel \in DOMAIN kernels \cup {None}
    BY <2>2, <2>s DEF CallsInv, CallOK, None
  <2>5. TypeOK
    BY <2>1, <2>2, <2>3, <2>4, <2>s
       DEF TypeOK, TypeInv, MapInv, StreamInv, NamesInv, Kernels, Kinds
  <2>6. QED
    BY <2>5, <2>s DEF CacheInv, MapInv
<1>2. QED
  BY <1>1, Invariance, PTL

(* Neither an eviction, nor a lost race for the key, nor the Sync of another *)
(* thread destroys a kernel that the GPU is executing or will execute.       *)
THEOREM KernelLifetime == Spec => []KernelsOutliveExecution
<1>1. IInv => KernelsOutliveExecution
  <2> SUFFICES ASSUME IInv, NEW c \in Pending, command[c].kind = "execute"
               PROVE  Alive(command[c].kernel)
    BY DEF KernelsOutliveExecution
  <2>1. c \in 1..Len(command) /\ c > Len(executed)
    BY LenProperties DEF IInv, TypeInv, Pending
  <2>2. Held(command[c].kernel, issued[c])
    BY <2>1 DEF IInv, HeldInv
  <2>3. QED
    BY <2>2 DEF Held, Alive
<1>2. QED
  BY <1>1, Invariance, PTL

-----------------------------------------------------------------------------
(* Event queue *)

USE UMaxAssumption, MaxCallbacksAssumption

(* Wrap-around only happens at the value of a removed device. *)
LEMMA NextFenceValue ==
    ASSUME completed \in 0..UMax
    PROVE  /\ NextFence \in 0..UMax
           /\ NextFence <= completed + 1
           /\ \A v \in 0..MaxFence : v < NextFence => v <= completed
<1>1. CASE completed = UMax
  <2>1. Plus1(completed) = 0
    BY <1>1 DEF Plus1
  <2>2. QED
    BY <1>1, <2>1 DEF NextFence
<1>2. CASE completed < UMax
  <2>1. Plus1(completed) = completed + 1
    BY <1>2 DEF Plus1
  <2>2. QED
    BY <1>2, <2>1 DEF NextFence
<1>3. QED
  BY <1>1, <1>2

(* The invariant holds when the queue has been constructed. *)
LEMMA InitQueueInv == QueueInit => QueueInv
<1> SUFFICES ASSUME QueueInit PROVE QueueInv
  OBVIOUS
<1>1. exit_requested \in BOOLEAN /\ device_removed \in BOOLEAN
  BY Zenon DEF QueueInit
<1>2. QueueTypeOK
  BY <1>1 DEF QueueInit, QueueTypeOK
<1>3. FiredSet = {}
  BY DEF QueueInit, FiredSet
<1>4. AwaitedInv /\ PendingInv /\ CallbackAfterSignal /\ InvokedInOrder
  BY <1>3 DEF QueueInit, AwaitedInv, PendingInv, CallbackAfterSignal,
              InvokedInOrder
<1>5. ExactlyOnce
  BY <1>3 DEF QueueInit, ExactlyOnce
<1>6. QED
  BY <1>2, <1>4, <1>5 DEF QueueInv

(* Appending a callback to the log adds it to the set of those invoked. *)
LEMMA FiredAppend ==
    ASSUME NEW S, fired \in Seq(S), NEW e \in S, fired' = Append(fired, e)
    PROVE  /\ FiredSet' = FiredSet \cup {e}
           /\ Len(fired') = Len(fired) + 1
           /\ \A i \in 1..Len(fired) : fired'[i] = fired[i]
           /\ fired'[Len(fired) + 1] = e
<1>1. /\ Len(fired) \in Nat
      /\ Len(fired') = Len(fired) + 1
      /\ \A i \in 1..Len(fired) : fired'[i] = fired[i]
      /\ fired'[Len(fired) + 1] = e
  BY AppendProperties, LenProperties
<1>2. FiredSet' = FiredSet \cup {e}
  BY <1>1 DEF FiredSet
<1>3. QED
  BY <1>1, <1>2

(* Invoking a callback that is pending, or was just enqueued, keeps the log  *)
(* free of duplicates.                                                       *)
LEMMA FiredOnce ==
    ASSUME NEW S, fired \in Seq(S), NEW e \in S, fired' = Append(fired, e),
           e \notin FiredSet,
           \A i, j \in 1..Len(fired) : fired[i] = fired[j] => i = j
    PROVE  \A i, j \in 1..Len(fired') : fired'[i] = fired'[j] => i = j
<1>1. /\ Len(fired) \in Nat
      /\ Len(fired') = Len(fired) + 1
      /\ \A i \in 1..Len(fired) : fired'[i] = fired[i]
      /\ fired'[Len(fired) + 1] = e
  BY FiredAppend, LenProperties
<1>2. \A i \in 1..Len(fired) : fired[i] # e
  BY DEF FiredSet
<1>3. QED
  BY <1>1, <1>2

-----------------------------------------------------------------------------
(* Enqueue adds a callback to the multimap or, when the thread has already   *)
(* moved past its value, invokes it.                                         *)
LEMMA EnqueueStep ==
    ASSUME QueueInv, NEW v \in 0..MaxFence, Enqueue(v) PROVE QueueInv'
<1>s. /\ QueueTypeOK /\ AwaitedInv /\ PendingInv /\ CallbackAfterSignal
      /\ ExactlyOnce /\ InvokedInOrder
  BY DEF QueueInv
<1>1. PICK n \in Nat : n = Len(value)
  BY <1>s, LenProperties DEF QueueTypeOK
<1>2. /\ value \in Seq(0..MaxFence) /\ value' \in Seq(0..MaxFence)
      /\ Len(value') = n + 1
      /\ \A e \in 1..n : value'[e] = value[e]
      /\ value'[n + 1] = v
  BY <1>s, <1>1, AppendProperties DEF QueueTypeOK, Enqueue
<1>3. /\ UNCHANGED <<completed, current_awaited_fence_value, exit_requested,
                     events_to_process, next_fence_value, device_removed>>
      /\ events_to_process = {}
      /\ pc # "process" /\ pc' # "process"
      /\ pc' \in {"top", "wait", "await", "exited"}
  BY <1>s DEF Enqueue, MutexIsFree, PendingInv, QueueEvent, NotifyAll,
              QueueTypeOK
<1>4. /\ events \subseteq 1..n /\ FiredSet \subseteq 1..n
      /\ events \cup FiredSet = 1..n /\ events \cap FiredSet = {}
      /\ \A i, j \in 1..Len(fired) : fired[i] = fired[j] => i = j
      /\ fired \in Seq(1..n) /\ fired \in Seq(1..n + 1)
  <2>1. fired \in Seq(1..n)
    BY <1>s, <1>1 DEF QueueTypeOK
  <2>2. \A i \in 1..Len(fired) : fired[i] \in 1..n
    BY <2>1
  <2>3. fired \in Seq(1..n + 1)
    BY <2>1, <2>2
  <2>4. QED
    BY <1>s, <1>1, <1>3, <2>1, <2>3 DEF QueueTypeOK, ExactlyOnce
<1>5. \A e \in 1..n : value[e] \in 0..MaxFence
  BY <1>1, <1>2
<1>6. CASE NotYetReached(v) /\ QueueEvent(v)
  <2>1. events' = events \cup {n + 1} /\ fired' = fired
        /\ FiredSet' = FiredSet
    BY <1>1, <1>6 DEF QueueEvent, FiredSet
  <2>2. QueueTypeOK'
    BY <1>s, <1>1, <1>2, <1>3, <1>4, <2>1 DEF QueueTypeOK
  <2>3. AwaitedInv'
    BY <1>s, <1>3 DEF AwaitedInv
  <2>4. PendingInv'
    BY <1>s, <1>2, <1>3, <1>4, <1>6, <2>1 DEF PendingInv, NotYetReached
  <2>5. CallbackAfterSignal'
    BY <1>s, <1>2, <1>3, <1>4, <2>1 DEF CallbackAfterSignal
  <2>6. ExactlyOnce'
    <3>1. events' \cup events_to_process' \cup FiredSet' = 1..Len(value')
      BY <1>2, <1>3, <1>4, <2>1
    <3>2. n + 1 \notin FiredSet
      BY <1>4
    <3>3. /\ events' \cap events_to_process' = {}
          /\ (events' \cup events_to_process') \cap FiredSet' = {}
      BY <1>3, <1>4, <2>1, <3>2
    <3>4. QED
      BY <1>4, <2>1, <3>1, <3>3 DEF ExactlyOnce
  <2>7. InvokedInOrder'
    BY <1>s, <1>2, <1>3, <1>4, <2>1 DEF InvokedInOrder
  <2>8. QED
    BY <2>2, <2>3, <2>4, <2>5, <2>6, <2>7 DEF QueueInv
<1>7. CASE /\ ~NotYetReached(v)
           /\ fired' = Append(fired, Len(value) + 1)
           /\ UNCHANGED <<events, pc>>
  <2>0. v < current_awaited_fence_value /\ v <= completed
    BY <1>s, <1>7 DEF NotYetReached, AwaitedInv, QueueTypeOK
  <2>1. fired' = Append(fired, n + 1) /\ n + 1 \in 1..n + 1
    BY <1>1, <1>7
  <2>2. FiredSet' = FiredSet \cup {n + 1} /\ n + 1 \notin FiredSet
    BY <1>4, <2>1, FiredAppend
  <2>3. fired' \in Seq(1..n + 1)
    BY <1>4, <2>1, AppendProperties
  <2>4. QueueTypeOK'
    BY <1>s, <1>1, <1>2, <1>3, <1>4, <1>7, <2>3 DEF QueueTypeOK
  <2>5. AwaitedInv' /\ PendingInv'
    BY <1>s, <1>2, <1>3, <1>4, <1>7 DEF AwaitedInv, PendingInv
  <2>6. CallbackAfterSignal'
    BY <1>s, <1>2, <1>3, <1>4, <2>0, <2>2 DEF CallbackAfterSignal
  <2>7. ExactlyOnce'
    <3>1. events' \cup events_to_process' \cup FiredSet' = 1..Len(value')
      <4>1. events' \cup events_to_process' \cup FiredSet'
               = 1..n \cup {n + 1}
        BY <1>3, <1>4, <1>7, <2>2
      <4>2. 1..n \cup {n + 1} = 1..n + 1
        OBVIOUS
      <4>3. QED
        BY <1>2, <4>1, <4>2
    <3>2. n + 1 \notin events
      BY <1>4
    <3>3. /\ events' \cap events_to_process' = {}
          /\ (events' \cup events_to_process') \cap FiredSet' = {}
      BY <1>3, <1>4, <1>7, <2>2, <3>2
    <3>4. \A i, j \in 1..Len(fired') : fired'[i] = fired'[j] => i = j
      BY <1>4, <2>1, <2>2, FiredOnce
    <3>5. QED
      BY <3>1, <3>3, <3>4 DEF ExactlyOnce
  <2>8. InvokedInOrder'
    <3>1. ASSUME NEW d \in events PROVE value[d] > v
      BY <1>s, <1>4, <1>5, <2>0, <3>1 DEF PendingInv, QueueTypeOK
    <3>2. \A e \in FiredSet : \A d \in events : d < e => value[d] > value[e]
      BY <1>s DEF InvokedInOrder
    <3>3. QED
      BY <1>2, <1>3, <1>4, <1>7, <2>2, <3>1, <3>2, ZenonT(60)
         DEF InvokedInOrder
  <2>9. QED
    BY <2>4, <2>5, <2>6, <2>7, <2>8 DEF QueueInv
<1>8. QED
  BY <1>6, <1>7 DEF Enqueue

-----------------------------------------------------------------------------
(* The thread takes all the events whose value the fence has reached. *)
LEMMA TakeStep == ASSUME QueueInv, ThreadTakesEvents PROVE QueueInv'
<1>s. /\ QueueTypeOK /\ AwaitedInv /\ PendingInv /\ CallbackAfterSignal
      /\ ExactlyOnce /\ InvokedInOrder
  BY DEF QueueInv
<1>1. /\ UNCHANGED <<completed, exit_requested, value, fired>>
      /\ next_fence_value' = NextFence
      /\ current_awaited_fence_value' = NextFence
      /\ events_to_process' = Reached(NextFence)
      /\ events' = events \ Reached(NextFence)
      /\ pc = "top" /\ pc' = "process"
  BY DEF ThreadTakesEvents, Erase
<1>2. /\ NextFence \in 0..UMax
      /\ NextFence <= completed + 1
      /\ \A v \in 0..MaxFence : v < NextFence => v <= completed
  BY <1>s, NextFenceValue DEF QueueTypeOK
<1>3. /\ events_to_process = {}
      /\ events \subseteq 1..Len(value)
      /\ \A e \in 1..Len(value) : value[e] \in 0..MaxFence
  BY <1>s, <1>1 DEF PendingInv, QueueTypeOK
<1>4. Reached(NextFence) \subseteq events /\ FiredSet' = FiredSet
  BY <1>1 DEF Reached, FiredSet
<1>5. device_removed' \in BOOLEAN
  BY Zenon DEF ThreadTakesEvents, Erase
<1>6. QueueTypeOK'
  BY <1>s, <1>1, <1>2, <1>3, <1>4, <1>5 DEF QueueTypeOK
<1>7. AwaitedInv'
  BY <1>1, <1>2 DEF AwaitedInv
<1>8. PendingInv'
  BY <1>1, <1>2, <1>3 DEF PendingInv, Reached
<1>9. CallbackAfterSignal'
  BY <1>s, <1>1, <1>4 DEF CallbackAfterSignal
<1>10. ExactlyOnce'
  <2>1. /\ events' \cup events_to_process' = events \cup events_to_process
        /\ events' \cap events_to_process' = {}
    BY <1>1, <1>3, <1>4
  <2>2. QED
    BY <1>s, <1>1, <1>4, <2>1 DEF ExactlyOnce
<1>11. InvokedInOrder'
  BY <1>s, <1>1, <1>3, <1>4 DEF InvokedInOrder
<1>12. QED
  BY <1>6, <1>7, <1>8, <1>9, <1>10, <1>11 DEF QueueInv

-----------------------------------------------------------------------------
(* The thread invokes the first of the events it took. *)
LEMMA InvokeStep == ASSUME QueueInv, ThreadInvokesCallback PROVE QueueInv'
<1>s. /\ QueueTypeOK /\ AwaitedInv /\ PendingInv /\ CallbackAfterSignal
      /\ ExactlyOnce /\ InvokedInOrder
  BY DEF QueueInv
<1>1. PICK e \in events_to_process :
          /\ IsFirst(e)
          /\ fired' = Append(fired, e)
          /\ events_to_process' = events_to_process \ {e}
  BY DEF ThreadInvokesCallback
<1>2. /\ UNCHANGED <<completed, events, current_awaited_fence_value,
                     exit_requested, pc, next_fence_value, device_removed,
                     value>>
      /\ pc = "process"
  BY DEF ThreadInvokesCallback, sharedVars
<1>3. /\ e \in 1..Len(value)
      /\ events \subseteq 1..Len(value)
      /\ events_to_process \subseteq 1..Len(value)
      /\ \A d \in 1..Len(value) : value[d] \in Nat
      /\ fired \in Seq(1..Len(value))
      /\ current_awaited_fence_value \in Nat
  BY <1>s, <1>1 DEF QueueTypeOK
<1>4. FiredSet' = FiredSet \cup {e} /\ fired' \in Seq(1..Len(value))
  BY <1>1, <1>3, FiredAppend, AppendProperties
<1>5. e \notin FiredSet /\ e \notin events
  BY <1>s, <1>1 DEF ExactlyOnce
<1>6. QueueTypeOK'
  BY <1>s, <1>1, <1>2, <1>4 DEF QueueTypeOK
<1>7. AwaitedInv' /\ PendingInv'
  BY <1>s, <1>1, <1>2 DEF AwaitedInv, PendingInv
<1>8. CallbackAfterSignal'
  BY <1>s, <1>1, <1>2, <1>4 DEF CallbackAfterSignal, PendingInv
<1>9. ExactlyOnce'
  <2>1. \A i, j \in 1..Len(fired') : fired'[i] = fired'[j] => i = j
    BY <1>s, <1>1, <1>3, <1>5, FiredOnce DEF ExactlyOnce
  <2>2. events' \cup events_to_process' \cup FiredSet'
            = events \cup events_to_process \cup FiredSet
    BY <1>1, <1>2, <1>4
  <2>3. /\ events' \cap events_to_process' = {}
        /\ (events' \cup events_to_process') \cap FiredSet' = {}
    BY <1>s, <1>1, <1>2, <1>4, <1>5 DEF ExactlyOnce
  <2>4. QED
    BY <1>s, <1>2, <2>1, <2>2, <2>3 DEF ExactlyOnce
<1>10. InvokedInOrder'
  <2>1. \A d \in events : value[d] > value[e]
    BY <1>s, <1>1, <1>3 DEF PendingInv
  <2>2. \A d \in events_to_process \ {e} : d < e => value[d] > value[e]
    BY <1>1, <1>3 DEF IsFirst
  <2>3. QED
    BY <1>s, <1>1, <1>2, <1>4, <2>1, <2>2 DEF InvokedInOrder
<1>11. QED
  BY <1>6, <1>7, <1>8, <1>9, <1>10 DEF QueueInv

-----------------------------------------------------------------------------
(* Steps that move no callback; the fence only grows. *)
QueueQuietStep ==
    \/ Destroy \/ ThreadExits \/ ThreadWaits \/ SpuriousWakeup
    \/ ThreadUnlocks \/ ThreadSeesSignal \/ FenceAdvances
    \/ DeviceRemoved \/ UNCHANGED queueVars

LEMMA QueueQuietSteps == ASSUME QueueInv, QueueQuietStep PROVE QueueInv'
<1> USE DEF sharedVars, threadVars
<1>s. /\ QueueTypeOK /\ AwaitedInv /\ PendingInv /\ CallbackAfterSignal
      /\ ExactlyOnce /\ InvokedInOrder
  BY DEF QueueInv
<1>1. UNCHANGED <<events, current_awaited_fence_value, events_to_process,
                  next_fence_value, device_removed, value, fired>>
  BY DEF QueueQuietStep, Destroy, ThreadExits, ThreadWaits, SpuriousWakeup,
         ThreadUnlocks, ThreadSeesSignal, FenceAdvances, DeviceRemoved,
         queueVars
<1>2. completed' \in 0..UMax /\ completed <= completed'
  BY <1>s DEF QueueQuietStep, Destroy, ThreadExits, ThreadWaits,
              SpuriousWakeup, ThreadUnlocks, ThreadSeesSignal, FenceAdvances,
              DeviceRemoved, queueVars, QueueTypeOK
<1>3. exit_requested' \in BOOLEAN
  <2>1. exit_requested' = TRUE \/ exit_requested' = exit_requested
    BY DEF QueueQuietStep, Destroy, ThreadExits, ThreadWaits, SpuriousWakeup,
           ThreadUnlocks, ThreadSeesSignal, FenceAdvances, DeviceRemoved,
           queueVars
  <2>2. QED
    BY <1>s, <2>1, Zenon DEF QueueTypeOK
<1>4. /\ pc' \in {"top", "wait", "process", "await", "exited"}
      /\ pc' # "process" => pc # "process" \/ events_to_process = {}
  BY <1>s DEF QueueQuietStep, Destroy, MutexIsFree, NotifyAll, ThreadExits,
              ThreadWaits, SpuriousWakeup, ThreadUnlocks, ThreadSeesSignal,
              FenceAdvances, DeviceRemoved, queueVars, QueueTypeOK
<1>5. FiredSet' = FiredSet
  BY <1>1 DEF FiredSet
<1>6. QueueTypeOK'
  BY <1>s, <1>1, <1>2, <1>3, <1>4 DEF QueueTypeOK
<1>7. AwaitedInv'
  <2>1. /\ completed \in Nat /\ completed' \in Nat
        /\ current_awaited_fence_value \in Nat
    BY <1>s, <1>2 DEF QueueTypeOK
  <2>2. current_awaited_fence_value <= completed' + 1
    <3>1. PICK c \in Nat : c = completed'
      BY <2>1
    <3>2. completed <= c /\ completed \in Nat
      BY <1>2, <2>1, <3>1
    <3>3. /\ current_awaited_fence_value \in Nat
          /\ current_awaited_fence_value <= completed + 1
      BY <1>s, <2>1 DEF AwaitedInv
    <3>4. current_awaited_fence_value <= c + 1
      BY <3>2, <3>3
    <3>5. QED
      BY <3>1, <3>4, Zenon
  <2>3. QED
    BY <1>1, <2>2 DEF AwaitedInv
<1>8. \A e \in 1..Len(value) : value[e] \in Nat
  BY <1>s DEF QueueTypeOK
<1>9. PendingInv'
  BY <1>s, <1>1, <1>2, <1>4, <1>8 DEF PendingInv, QueueTypeOK
<1>10. CallbackAfterSignal'
  <2>1. FiredSet \subseteq 1..Len(value)
    BY <1>s DEF ExactlyOnce
  <2>2. QED
    BY <1>s, <1>1, <1>2, <1>5, <1>8, <2>1 DEF CallbackAfterSignal, QueueTypeOK
<1>11. ExactlyOnce' /\ InvokedInOrder'
  BY <1>s, <1>1, <1>5 DEF ExactlyOnce, InvokedInOrder
<1>12. QED
  BY <1>6, <1>7, <1>9, <1>10, <1>11 DEF QueueInv

-----------------------------------------------------------------------------
(* Every reachable state of the queue satisfies the inductive invariant. *)
THEOREM QueueInvariance == QueueSpec => []QueueInv
<1>1. QueueInit => QueueInv
  BY InitQueueInv
<1>2. QueueInv /\ [QueueNext]_queueVars => QueueInv'
  BY EnqueueStep, TakeStep, InvokeStep, QueueQuietSteps
     DEF QueueNext, ThreadStep, QueueQuietStep
<1>3. QED
  BY <1>1, <1>2, PTL DEF QueueSpec

(* No callback is invoked before its fence value is reached, by the thread   *)
(* or by Enqueue, also when the device is removed.                           *)
THEOREM InvokedAfterSignal == QueueSpec => []CallbackAfterSignal
<1>1. QueueInv => CallbackAfterSignal
  BY DEF QueueInv
<1>2. QED
  BY <1>1, QueueInvariance, PTL

(* No callback is lost between Enqueue, the multimap and the thread, and     *)
(* none is invoked twice.                                                    *)
THEOREM InvokedOnce == QueueSpec => []ExactlyOnce
<1>1. QueueInv => ExactlyOnce
  BY DEF QueueInv
<1>2. QED
  BY <1>1, QueueInvariance, PTL

(* No callback is invoked while one that was enqueued earlier for the same   *)
(* or a smaller value waits.                                                 *)
THEOREM MultimapOrder == QueueSpec => []InvokedInOrder
<1>1. QueueInv => InvokedInOrder
  BY DEF QueueInv
<1>2. QED
  BY <1>1, QueueInvariance, PTL

-----------------------------------------------------------------------------
(* The callbacks that CallbackQueue considers not yet invoked are the ones   *)
(* in the multimap and those the thread has taken from it.                   *)
LEMMA UnfiredEvents ==
    ASSUME QueueInv PROVE Callbacks!Unfired = events \cup events_to_process
<1>1. ExactlyOnce
  BY DEF QueueInv
<1>2. Callbacks!Unfired = (1..Len(value)) \ FiredSet
  BY DEF Callbacks!Unfired, FiredSet
<1>3. QED
  BY <1>1, <1>2 DEF ExactlyOnce

(* DmlEventQueue implements CallbackQueue: an event is queued or invoked by  *)
(* Enqueue, or invoked by the thread, in the promised order; every other     *)
(* step of the thread is invisible.                                          *)
THEOREM QueueRefinement == QueueSpec => CallbackSpec
<1>1. QueueInit => Callbacks!Init
  BY DEF QueueInit, Callbacks!Init
<1>2. QueueInv /\ [QueueNext]_queueVars => [Callbacks!Next]_(Callbacks!vars)
  <2>s. SUFFICES ASSUME QueueInv, [QueueNext]_queueVars
                 PROVE  Callbacks!Next \/ UNCHANGED <<value, fired, completed>>
    BY DEF Callbacks!vars
  <2>i. /\ QueueTypeOK /\ AwaitedInv /\ PendingInv
        /\ Callbacks!Unfired = events \cup events_to_process
    BY <2>s, UnfiredEvents DEF QueueInv
  <2>t. \A e \in events \cup events_to_process : value[e] \in Nat
    BY <2>i DEF QueueTypeOK
  <2>1. ASSUME NEW v \in 0..MaxFence, Enqueue(v) PROVE Callbacks!Next
    <3>1. v \in 0..UMax
      OBVIOUS
    <3>2. CASE NotYetReached(v)
      <4>1. Callbacks!Enqueue(v)
        BY <2>1, <3>2 DEF Enqueue, QueueEvent, Callbacks!Enqueue
      <4>2. QED
        BY <3>1, <4>1 DEF Callbacks!Next
    <3>3. CASE ~NotYetReached(v)
      <4>1. v < current_awaited_fence_value /\ v <= completed
        BY <2>i, <3>3 DEF NotYetReached, AwaitedInv, QueueTypeOK
      <4>2. events_to_process = {}
        BY <2>i, <2>1 DEF PendingInv, Enqueue, MutexIsFree
      <4>3. \A d \in events : value[d] > v
        BY <2>i, <2>t, <4>1 DEF PendingInv, QueueTypeOK
      <4>4. Callbacks!EnqueueAndFire(v)
        BY <2>i, <2>1, <3>3, <4>1, <4>2, <4>3
           DEF Enqueue, Callbacks!EnqueueAndFire
      <4>5. QED
        BY <3>1, <4>4 DEF Callbacks!Next
    <3>4. QED
      BY <3>2, <3>3
  <2>2. CASE ThreadInvokesCallback
    <3>1. PICK e \in events_to_process :
             IsFirst(e) /\ fired' = Append(fired, e)
      BY <2>2 DEF ThreadInvokesCallback
    <3>2. e \in Nat /\ e \in Callbacks!Unfired /\ value[e] <= completed
      BY <2>i, <3>1 DEF PendingInv, QueueTypeOK
    <3>3. \A d \in events : value[d] > value[e]
      <4> TAKE d \in events
      <4>1. /\ value[d] >= current_awaited_fence_value
            /\ value[e] < current_awaited_fence_value
        BY <2>i DEF PendingInv
      <4>2. current_awaited_fence_value \in Nat
        BY <2>i DEF QueueTypeOK
      <4>3. value[d] \in Nat /\ value[e] \in Nat
        BY <2>t
      <4>4. QED
        BY <4>1, <4>2, <4>3
    <3>4. \A d \in events_to_process : d < e => value[d] > value[e]
      BY <2>i, <2>t, <3>1, <3>2 DEF IsFirst, QueueTypeOK
    <3>5. Callbacks!Fire(e)
      BY <2>i, <2>2, <3>1, <3>2, <3>3, <3>4
         DEF ThreadInvokesCallback, Callbacks!Fire
    <3>6. QED
      BY <3>2, <3>5 DEF Callbacks!Next
  <2>3. CASE FenceAdvances \/ DeviceRemoved
    <3>1. UNCHANGED <<value, fired>>
      BY <2>3 DEF FenceAdvances, DeviceRemoved
    <3>2. completed' \in 0..UMax /\ completed' > completed
      BY <2>i, <2>3 DEF FenceAdvances, DeviceRemoved, QueueTypeOK
    <3>3. QED
      BY <3>1, <3>2 DEF Callbacks!Next, Callbacks!Advance
  <2>4. CASE \/ Destroy \/ ThreadExits \/ ThreadWaits \/ ThreadTakesEvents
             \/ ThreadUnlocks \/ ThreadSeesSignal \/ SpuriousWakeup
             \/ UNCHANGED queueVars
    BY <2>4 DEF Destroy, ThreadExits, ThreadWaits, ThreadTakesEvents,
                ThreadUnlocks, ThreadSeesSignal, SpuriousWakeup, queueVars
  <2>5. QED
    BY <2>s, <2>1, <2>2, <2>3, <2>4 DEF QueueNext, ThreadStep
<1>3. QED
  BY <1>1, <1>2, QueueInvariance, PTL DEF QueueSpec, CallbackSpec,
       Callbacks!Spec
=============================================================================

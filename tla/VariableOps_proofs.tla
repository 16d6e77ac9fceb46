------------------------- MODULE VariableOps_proofs -------------------------
(***************************************************************************)
(* Proofs of the safety properties of VariableOps for any threads, any     *)
(* finite set of variables and any number of operations and assignments.   *)
(***************************************************************************)
EXTENDS VariableOps, SequenceTheorems, FiniteSetTheorems, TLAPS

USE VariablesAssumption, NamesAssumption

Kernels ==
    TrainingOps \cup UpdateOps \cup ResourceOps \cup ScatterNdOps
        \cup SliceAssignOps \cup GatherNdOps

Buffers == [tensor : Nat, value : SUBSET Nat]

Calls == [pc           : {"idle", "lock", "compute"},
          op           : Nat,
          kernel       : Kernels \cup {NoKernel},
          bound        : [Variables -> Nat],
          plan         : Seq(Steps \cup Variables),
          intermediate : SUBSET Buffers,
          hit          : BOOLEAN]

Locks == {"unique", "shared", "none"}

TypeInv ==
    /\ contents \in Seq(SUBSET Nat)
    /\ owner \in Seq(Variables)
    /\ Len(owner) = Len(contents)
    /\ tensor \in [Variables -> 1..Len(contents)]
    /\ readers \in [Variables -> SUBSET (Threads \cup {Helper})]
    /\ writers \in [Variables -> SUBSET Threads]
    /\ call \in [Threads -> Calls]
    /\ cached \in [op : Nat, tensor : Nat]
    /\ ops \in Seq([lock : Locks, result : {"none", "OK", "error"}])

(* A call in progress has a kernel and an operation of its own that has not  *)
(* returned.                                                                 *)
Active(t) == call[t].pc # "idle"

CallsInv ==
    /\ \A t \in Threads :
          /\ Active(t) =>
                /\ call[t].kernel \in Kernels
                /\ call[t].op \in 1..Len(ops)
                /\ ops[call[t].op].lock = call[t].kernel.lock
                /\ ops[call[t].op].result = "none"
          /\ call[t].hit => /\ call[t].pc = "compute"
                            /\ call[t].kernel \in GatherNdOps
    /\ \A t, u \in Threads :
          Active(t) /\ Active(u) /\ call[t].op = call[u].op => t = u

(* The rest of the plan is the end of the kernel's plan. *)
Done(t) == Len(call[t].kernel.plan) - Len(call[t].plan)

PlanInv ==
    \A t \in Threads : call[t].pc = "compute" =>
        /\ Done(t) >= 0
        /\ \A k \in 1..Len(call[t].plan) :
              call[t].plan[k] = call[t].kernel.plan[Done(t) + k]

(* Calls work on tensors that exist, and those that have not taken a cached  *)
(* kernel on tensors of their variables.                                     *)
HasBound(t) ==
    call[t].pc = "compute" \/ (call[t].pc = "lock" /\ call[t].kernel.early)

BoundInv ==
    /\ \A v \in Variables : owner[tensor[v]] = v
    /\ cached = NotCached \/ cached.tensor \in 1..Len(contents)
    /\ \A t \in Threads : HasBound(t) => \A v \in call[t].kernel.vars :
          /\ call[t].bound[v] \in 1..Len(contents)
          /\ ~call[t].hit => owner[call[t].bound[v]] = v

(* The call that created the cached kernel, if it has not returned, has put  *)
(* it in the cache.                                                          *)
Shares(t) == call[t].kernel \in GatherNdOps /\ Done(t) >= 1

HelperInv ==
    /\ cached.op <= Len(ops)
    /\ \A t \in Threads : Active(t) /\ call[t].op = cached.op =>
          call[t].pc = "compute" /\ Shares(t)

(* Locks exclude each other, and a kernel that computes has its locks unless *)
(* it shared its helper; one that looked up its tensors under the lock works *)
(* on the current ones unless its lock has been released.                    *)
MutexInv ==
    \A v \in Variables :
        /\ \A t, u \in writers[v] : t = u
        /\ writers[v] # {} => readers[v] = {}

HoldInv ==
    \A t \in Threads : call[t].pc = "compute" /\ ~call[t].hit =>
        \A v \in call[t].kernel.vars :
            /\ call[t].kernel.lock = "unique" => t \in writers[v]
            /\ call[t].kernel.lock = "shared" => t \in readers[v] \/ Shares(t)
            /\ ~call[t].kernel.early =>
                  \/ call[t].bound[v] = tensor[v]
                  \/ Shares(t) /\ t \notin readers[v]

(* A result that is not written back yet misses only updates that it may     *)
(* overwrite or that were overwritten before, and has only updates that the  *)
(* tensor has or that were overwritten.                                      *)
Missing(t, b) ==
    \A u \in contents[b.tensor] \ b.value :
        Overwritten(b.tensor, u) \/ MayOverwrite(call[t].op, u)

Stale(t, b) ==
    \A u \in b.value :
        \/ u = call[t].op
        \/ u \in contents[b.tensor]
        \/ Overwritten(b.tensor, u)

BuffersInv ==
    \A t \in Threads :
        /\ call[t].intermediate # {} => call[t].pc = "compute" /\ ~call[t].hit
        /\ \A b \in call[t].intermediate :
              /\ \E v \in call[t].kernel.vars : b.tensor = call[t].bound[v]
              /\ call[t].op \in b.value
              /\ Missing(t, b) /\ Stale(t, b)
        /\ \A b, c \in call[t].intermediate : b.tensor = c.tensor => b = c

(* The updates that tensors and results have are of operations that did not  *)
(* fail.                                                                     *)
Good(u) == u \in 1..Len(ops) /\ ops[u].result # "error"

UpdatesInv ==
    /\ \A i \in 1..Len(contents) : \A u \in contents[i] : Good(u)
    /\ \A t \in Threads : \A b \in call[t].intermediate :
          \A u \in b.value : Good(u)

(* The kernel's computation is submitted.                                    *)
HasUpdated(t) ==
    /\ call[t].pc = "compute"
    /\ \E j \in 1..Done(t) : call[t].kernel.plan[j] \in {"inplace", "compute"}

(* The kernel computes into intermediate buffers, but has none for this one. *)
NoResult(t, v) ==
    /\ \A b \in call[t].intermediate : b.tensor # call[t].bound[v]
    /\ \E j \in 1..Len(call[t].kernel.plan) :
          call[t].kernel.plan[j] = "compute"

(* Before the kernel is submitted nothing has the call's update; afterwards  *)
(* each of its tensors that it will not write any more, and that it has a    *)
(* result for, has it or has lost it.                                        *)
Fresh(u) ==
    /\ \A i \in 1..Len(contents) : u \notin contents[i]
    /\ \A t \in Threads : \A b \in call[t].intermediate : u \notin b.value

EffectOn(t, v) ==
    \/ \E k \in 1..Len(call[t].plan) : call[t].plan[k] = v
    \/ call[t].op \in contents[call[t].bound[v]]
    \/ Overwritten(call[t].bound[v], call[t].op)
    \/ NoResult(t, v)

EffectInv ==
    \A t \in Threads :
        /\ Active(t) /\ ~HasUpdated(t) => Fresh(call[t].op)
        /\ HasUpdated(t) => \A v \in call[t].kernel.vars : EffectOn(t, v)

IInv ==
    /\ TypeInv /\ CallsInv /\ PlanInv /\ BoundInv /\ HelperInv /\ MutexInv
    /\ HoldInv /\ BuffersInv /\ UpdatesInv /\ EffectInv

-----------------------------------------------------------------------------
(* SetToSeq lists each element of a set of variables.                        *)
LEMMA SetToSeqLists ==
    ASSUME NEW S \in SUBSET Variables
    PROVE  /\ Cardinality(S) \in Nat
           /\ SetToSeq(S) \in Seq(S)
           /\ Len(SetToSeq(S)) = Cardinality(S)
           /\ \A x \in S : \E k \in 1..Cardinality(S) : SetToSeq(S)[k] = x
<1> DEFINE n == Cardinality(S)
           f == SetToSeq(S)
<1>1. IsFiniteSet(S)
  BY FS_Subset
<1>2. n \in Nat /\ \E g \in [1..n -> S] : IsInjective(g)
  BY <1>1, FS_CardinalityType DEF ExistsBijection, Bijection, Injection
<1>3. f \in [1..n -> S] /\ IsInjective(f)
  BY <1>2 DEF SetToSeq
<1> HIDE DEF f
<1>4. f \in Injection(1..n, S)
  BY <1>3 DEF Injection
<1>5. Cardinality(1..n) = n
  BY <1>2, FS_Interval
<1>6. f \in Surjection(1..n, S)
  BY <1>1, <1>4, <1>5, FS_Injection
<1>7. f \in Seq(S) /\ Len(f) = n
  BY <1>2, <1>3
<1>8. QED
  BY <1>2, <1>6, <1>7 DEF Surjection, f

(* The plan of a kernel updates once, and copies back what it has computed   *)
(* for each of its variables.                                                *)
PlanOK(vs, plan) ==
    /\ plan \in Seq(Steps \cup Variables)
    /\ \A j, k \in 1..Len(plan) :
          /\ plan[j] \in {"inplace", "compute"}
          /\ plan[k] \in {"inplace", "compute"}
          => j = k
    /\ \A j \in 1..Len(plan) : plan[j] = "compute" =>
          \A v \in vs : \E k \in (j + 1)..Len(plan) : plan[k] = v
    /\ \A k \in 1..Len(plan) : plan[k] \in Variables =>
          \E j \in 1..(k - 1) : plan[j] = "compute"

Locked(plan) == \A j \in 1..Len(plan) : plan[j] # "unlock"

Uncached(plan) == \A j \in 1..Len(plan) : plan[j] # "cache"

LEMMA ShortPlans ==
    ASSUME NEW vs
    PROVE  /\ PlanOK(vs, InPlace) /\ Locked(InPlace) /\ Uncached(InPlace)
           /\ PlanOK(vs, ReadOnly) /\ Locked(ReadOnly) /\ Uncached(ReadOnly)
           /\ PlanOK(vs, ReadAndSkip) /\ Locked(ReadAndSkip)
           /\ Uncached(ReadAndSkip)
<1>1. /\ InPlace \in Seq(Steps \cup Variables) /\ Len(InPlace) = 1
      /\ InPlace[1] = "inplace"
  BY DEF InPlace, Steps
<1>2. /\ ReadOnly \in Seq(Steps \cup Variables) /\ Len(ReadOnly) = 1
      /\ ReadOnly[1] = "read"
  BY DEF ReadOnly, Steps
<1>3. /\ ReadAndSkip \in Seq(Steps \cup Variables) /\ Len(ReadAndSkip) = 2
      /\ ReadAndSkip[1] = "read" /\ ReadAndSkip[2] = "inplace"
  BY DEF ReadAndSkip, Steps
<1>4. PlanOK(vs, InPlace) /\ Locked(InPlace) /\ Uncached(InPlace)
  BY <1>1 DEF PlanOK, Locked, Uncached, Steps
<1>5. PlanOK(vs, ReadOnly) /\ Locked(ReadOnly) /\ Uncached(ReadOnly)
  BY <1>2 DEF PlanOK, Locked, Uncached, Steps
<1>6. PlanOK(vs, ReadAndSkip) /\ Locked(ReadAndSkip) /\ Uncached(ReadAndSkip)
  BY <1>3 DEF PlanOK, Locked, Uncached, Steps
<1>7. QED
  BY <1>4, <1>5, <1>6

LEMMA ReadOnlyPlan == Len(ReadOnly) = 1 /\ ReadOnly[1] = "read"
  BY DEF ReadOnly

LEMMA WriteBackPlan ==
    ASSUME NEW vs \in SUBSET Variables
    PROVE  /\ PlanOK(vs, WriteBack(vs)) /\ Locked(WriteBack(vs))
           /\ Uncached(WriteBack(vs))
<1> DEFINE n == Cardinality(vs)
           f == SetToSeq(vs)
           c == <<"compute">>
           w == c \o f
<1>1. /\ n \in Nat /\ f \in Seq(vs) /\ Len(f) = n
      /\ \A x \in vs : \E k \in 1..n : f[k] = x
  BY SetToSeqLists
<1>2. WriteBack(vs) = w
  BY DEF WriteBack
<1> HIDE DEF n, f
<1>3. f \in Seq(Steps \cup Variables) /\ \A k \in 1..n : f[k] \in vs
  BY <1>1, SeqMonotonic, ElementOfSeq
<1>4. c \in Seq(Steps \cup Variables) /\ Len(c) = 1 /\ c[1] = "compute"
  BY DEF Steps
<1> HIDE DEF c
<1>5. /\ w \in Seq(Steps \cup Variables) /\ Len(w) = 1 + n
      /\ w[1] = "compute"
      /\ \A k \in 1..n : w[k + 1] = f[k]
  <2>1. /\ w \in Seq(Steps \cup Variables)
        /\ Len(w) = Len(c) + Len(f)
        /\ \A i \in 1..(Len(c) + Len(f)) : w[i] =
              IF i <= Len(c) THEN c[i] ELSE f[i - Len(c)]
    BY <1>3, <1>4, ConcatProperties, ZenonT(60)
  <2>2. QED
    BY <2>1, <1>1, <1>4
<1> HIDE DEF w
<1>6. \A i \in 1..Len(w) : i # 1 => w[i] \in vs
  <2>1. \A i \in 1..Len(w) : i # 1 => i - 1 \in 1..n /\ i = (i - 1) + 1
    BY <1>1, <1>5
  <2>2. QED
    BY <2>1, <1>3, <1>5
<1>7. \A v \in Variables :
         v \notin {"inplace", "compute", "unlock", "cache"}
  BY DEF Steps
<1>8. \A j \in 1..Len(w) : w[j] = "compute" =>
          \A v \in vs : \E k \in (j + 1)..Len(w) : w[k] = v
  <2> TAKE j \in 1..Len(w)
  <2> HAVE w[j] = "compute"
  <2> TAKE v \in vs
  <2>1. j = 1
    BY <1>6, <1>7
  <2>2. PICK k \in 1..n : f[k] = v
    BY <1>1
  <2>3. k + 1 \in (j + 1)..Len(w) /\ w[k + 1] = v
    BY <1>1, <1>5, <2>1, <2>2
  <2>4. QED
    BY <2>3
<1>9. \A k \in 1..Len(w) : w[k] \in Variables =>
          \E j \in 1..(k - 1) : w[j] = "compute"
  <2> TAKE k \in 1..Len(w)
  <2> HAVE w[k] \in Variables
  <2>1. k # 1
    BY <1>5, <1>7
  <2>2. 1 \in 1..(k - 1)
    BY <1>1, <1>5, <2>1
  <2>3. QED
    BY <1>5, <2>2
<1>10. QED
  BY <1>2, <1>5, <1>6, <1>7, <1>8, <1>9 DEF PlanOK, Locked, Uncached

(* Another step before a plan that is no computation. *)
LEMMA LongerPlan ==
    ASSUME NEW vs, NEW plan, PlanOK(vs, plan),
           NEW step \in {"unlock", "cache"}
    PROVE  /\ PlanOK(vs, <<step>> \o plan)
           /\ step = "cache" /\ Locked(plan) => Locked(<<step>> \o plan)
           /\ step = "unlock" /\ Uncached(plan) =>
                 Uncached(<<step>> \o plan)
<1> DEFINE c == <<step>>
           w == c \o plan
           n == Len(plan)
<1>1. c \in Seq(Steps \cup Variables) /\ Len(c) = 1 /\ c[1] = step
  BY DEF Steps
<1>2. plan \in Seq(Steps \cup Variables) /\ n \in Nat
  BY LenProperties DEF PlanOK
<1> HIDE DEF c
<1>3. /\ w \in Seq(Steps \cup Variables) /\ Len(w) = 1 + n
      /\ w[1] = step
      /\ \A k \in 1..n : w[k + 1] = plan[k]
  <2>1. /\ w \in Seq(Steps \cup Variables)
        /\ Len(w) = Len(c) + n
        /\ \A i \in 1..(Len(c) + n) : w[i] =
              IF i <= Len(c) THEN c[i] ELSE plan[i - Len(c)]
    BY <1>1, <1>2, ConcatProperties, ZenonT(60)
  <2>2. QED
    BY <2>1, <1>1, <1>2
<1> HIDE DEF w, n
<1>4. \A i \in 1..Len(w) :
         i # 1 => i - 1 \in 1..n /\ w[i] = plan[i - 1]
  <2>1. \A i \in 1..Len(w) : i # 1 => i - 1 \in 1..n /\ i = (i - 1) + 1
    BY <1>2, <1>3
  <2>2. QED
    BY <2>1, <1>3
<1>5. \A j, k \in 1..Len(w) :
          /\ w[j] \in {"inplace", "compute"}
          /\ w[k] \in {"inplace", "compute"}
          => j = k
  <2> TAKE j, k \in 1..Len(w)
  <2> HAVE w[j] \in {"inplace", "compute"} /\ w[k] \in {"inplace", "compute"}
  <2>1. j # 1 /\ k # 1
    BY <1>3
  <2>2. j - 1 = k - 1
    BY <2>1, <1>4 DEF PlanOK, n
  <2>3. QED
    BY <2>2
<1>6. \A j \in 1..Len(w) : w[j] = "compute" =>
          \A v \in vs : \E k \in (j + 1)..Len(w) : w[k] = v
  <2> TAKE j \in 1..Len(w)
  <2> HAVE w[j] = "compute"
  <2> TAKE v \in vs
  <2>1. j - 1 \in 1..n /\ plan[j - 1] = "compute"
    BY <1>3, <1>4
  <2>2. PICK k \in ((j - 1) + 1)..n : plan[k] = v
    BY <2>1 DEF PlanOK, n
  <2>3. k + 1 \in (j + 1)..Len(w) /\ w[k + 1] = v
    BY <1>2, <1>3, <2>1, <2>2
  <2>4. QED
    BY <2>3
<1>7. /\ step = "cache" /\ Locked(plan) => Locked(w)
      /\ step = "unlock" /\ Uncached(plan) => Uncached(w)
  <2>1. step = "cache" /\ Locked(plan) => Locked(w)
    BY <1>3, <1>4 DEF Locked, n
  <2>2. step = "unlock" /\ Uncached(plan) => Uncached(w)
    BY <1>3, <1>4 DEF Uncached, n
  <2>3. QED
    BY <2>1, <2>2
<1>8. \A k \in 1..Len(w) : w[k] \in Variables =>
          \E j \in 1..(k - 1) : w[j] = "compute"
  <2> TAKE k \in 1..Len(w)
  <2> HAVE w[k] \in Variables
  <2>1. k # 1
    BY <1>3 DEF Steps
  <2>2. k - 1 \in 1..n /\ plan[k - 1] \in Variables
    BY <1>4, <2>1
  <2>3. PICK j \in 1..((k - 1) - 1) : plan[j] = "compute"
    BY <2>2 DEF PlanOK, n
  <2>4. j \in 1..n /\ j + 1 \in 1..(k - 1)
    BY <1>2, <2>2
  <2>5. w[j + 1] = "compute"
    BY <1>3, <2>3, <2>4
  <2>6. QED
    BY <2>4, <2>5
<1>9. PlanOK(vs, w)
  BY <1>3, <1>5, <1>6, <1>8 DEF PlanOK
<1>10. QED
  BY <1>7, <1>9 DEF w, c

(* A kernel that looks up its tensors under the lock has one, and does not   *)
(* release it itself before it returns.                                      *)
Shape(op) ==
    /\ op.vars \subseteq Variables
    /\ op.lock \in Locks
    /\ op.early \in BOOLEAN
    /\ PlanOK(op.vars, op.plan)
    /\ op.early \/ op.lock # "none"
    /\ op.lock # "none" => Locked(op.plan)
    /\ op \in GatherNdOps \/ Uncached(op.plan)

LEMMA KernelShape ==
    ASSUME NEW op \in Kernels
    PROVE  Shape(op)
<1>1. CASE op \in TrainingOps
  <2>1. PICK vs \in Trained :
           op \in Ops(vs, {"unique", "shared"}, FALSE,
                      {InPlace, WriteBack(vs)})
    BY <1>1 DEF TrainingOps
  <2>2. /\ op.vars = vs /\ op.early = FALSE /\ op.lock \in {"unique", "shared"}
        /\ op.plan \in {InPlace, WriteBack(vs)}
    BY <2>1 DEF Ops
  <2>3. QED
    BY <2>2, ShortPlans, WriteBackPlan DEF Shape, Locks
<1>2. CASE op \in UpdateOps
  <2>1. PICK v \in Accessed : op \in Ops({v}, {"unique"}, FALSE, {InPlace})
    BY <1>2 DEF UpdateOps
  <2>2. /\ op.vars = {v} /\ op.early = FALSE /\ op.lock = "unique"
        /\ op.plan = InPlace
    BY <2>1 DEF Ops
  <2>3. QED
    BY <2>2, ShortPlans DEF Shape, Locks
<1>3. CASE op \in ResourceOps \cup ScatterNdOps
  <2>1. PICK v \in Accessed :
           op \in Ops({v}, {"shared"}, TRUE,
                      {ReadOnly, InPlace, WriteBack({v}), ReadAndSkip})
    <3>1. CASE op \in ResourceOps
      BY <3>1 DEF ResourceOps
    <3>2. CASE op \in ScatterNdOps
      <4>1. PICK v \in Accessed :
               op \in Ops({v}, {"shared"}, TRUE, {InPlace, WriteBack({v})})
        BY <3>2 DEF ScatterNdOps
      <4>2. op \in Ops({v}, {"shared"}, TRUE,
                      {ReadOnly, InPlace, WriteBack({v}), ReadAndSkip})
        BY <4>1 DEF Ops
      <4>3. QED
        BY <4>2, Zenon
    <3>3. QED
      BY <1>3, <3>1, <3>2
  <2>2. /\ op.vars = {v} /\ op.early = TRUE /\ op.lock = "shared"
        /\ op.plan \in {ReadOnly, InPlace, WriteBack({v}), ReadAndSkip}
    BY <2>1 DEF Ops
  <2>3. {v} \in SUBSET Variables
    BY VariablesAssumption
  <2>4. PlanOK({v}, op.plan) /\ Locked(op.plan) /\ Uncached(op.plan)
    <3>1. CASE op.plan = WriteBack({v})
      BY <2>3, <3>1, WriteBackPlan
    <3>2. CASE op.plan \in {ReadOnly, InPlace, ReadAndSkip}
      BY <3>2, ShortPlans
    <3>3. QED
      BY <2>2, <3>1, <3>2
  <2>5. QED
    BY <2>2, <2>3, <2>4 DEF Shape, Locks
<1>4. CASE op \in SliceAssignOps
  <2>1. PICK v \in Accessed :
           op \in Ops({v}, {"none"}, TRUE,
                      {Unlocked(InPlace), Unlocked(WriteBack({v}))})
    BY <1>4 DEF SliceAssignOps
  <2>2. /\ op.vars = {v} /\ op.early = TRUE /\ op.lock = "none"
        /\ op.plan \in {Unlocked(InPlace), Unlocked(WriteBack({v}))}
    BY <2>1 DEF Ops
  <2>3. \A plan : PlanOK({v}, plan) /\ Uncached(plan) =>
           PlanOK({v}, Unlocked(plan)) /\ Uncached(Unlocked(plan))
    BY LongerPlan DEF Unlocked
  <2>4. /\ PlanOK({v}, InPlace) /\ PlanOK({v}, WriteBack({v}))
        /\ Uncached(InPlace) /\ Uncached(WriteBack({v}))
    BY ShortPlans, WriteBackPlan
  <2>5. PlanOK({v}, op.plan) /\ Uncached(op.plan)
    BY <2>2, <2>3, <2>4
  <2>6. QED
    BY <2>2, <2>5 DEF Shape, Locks
<1>5. CASE op \in GatherNdOps
  <2>1. PICK v \in Gathered :
           op \in Ops({v}, {"shared"}, FALSE, {<<"cache">> \o ReadOnly})
    BY <1>5 DEF GatherNdOps
  <2>2. /\ op.vars = {v} /\ op.early = FALSE /\ op.lock = "shared"
        /\ op.plan = <<"cache">> \o ReadOnly
    BY <2>1 DEF Ops
  <2>3. PlanOK({v}, op.plan) /\ Locked(op.plan)
    BY <2>2, ShortPlans, LongerPlan
  <2>4. QED
    BY <1>5, <2>2, <2>3 DEF Shape, Locks
<1>6. QED
  BY <1>1, <1>2, <1>3, <1>4, <1>5 DEF Kernels

(* ResourceGatherNd only reads. *)
LEMMA GatherShape ==
    ASSUME NEW op \in GatherNdOps
    PROVE  /\ op \in Kernels
           /\ Len(op.plan) = 2
           /\ op.plan[1] = "cache" /\ op.plan[2] = "read"
<1>1. op \in Kernels
  BY DEF Kernels
<1>2. PICK v \in Gathered :
         op \in Ops({v}, {"shared"}, FALSE, {<<"cache">> \o ReadOnly})
  BY DEF GatherNdOps
<1>3. op.plan = <<"cache">> \o <<"read">>
  BY <1>2 DEF Ops, ReadOnly
<1>4. QED
  BY <1>1, <1>3

-----------------------------------------------------------------------------
LEMMA IdleCall == Idle \in Calls
<1>1. NoKernel \in Kernels \cup {NoKernel}
  OBVIOUS
<1>2. <<>> \in Seq(Steps \cup Variables) /\ NoTensors \in [Variables -> Nat]
  BY EmptySeq DEF NoTensors
<1>3. QED
  BY <1>1, <1>2 DEF Idle, Calls

LEMMA InitIInv == Init => IInv
<1> SUFFICES ASSUME Init PROVE IInv
  OBVIOUS
<1> USE DEF Init
<1> DEFINE n == Cardinality(Variables)
           f == SetToSeq(Variables)
<1>1. /\ n \in Nat /\ f \in Seq(Variables) /\ Len(f) = n
      /\ \A x \in Variables : \E k \in 1..n : f[k] = x
  BY SetToSeqLists
<1>2. DOMAIN f = 1..n
  BY <1>1, LenProperties
<1>3. \A v \in Variables : tensor[v] \in 1..n /\ f[tensor[v]] = v
  <2> TAKE v \in Variables
  <2>1. tensor[v] = CHOOSE i \in DOMAIN f : f[i] = v
    OBVIOUS
  <2> HIDE DEF f, n
  <2>2. \E i \in DOMAIN f : f[i] = v
    BY <1>1, <1>2
  <2>3. tensor[v] \in DOMAIN f /\ f[tensor[v]] = v
    BY <2>1, <2>2
  <2>4. QED
    BY <1>2, <2>3
<1>4. /\ contents \in Seq(SUBSET Nat) /\ Len(contents) = n
      /\ \A i \in 1..n : contents[i] = {}
  <2>1. contents = [i \in 1..n |-> {}]
    OBVIOUS
  <2> HIDE DEF n, Init
  <2>2. contents \in [1..n -> SUBSET Nat]
    BY <2>1
  <2>3. QED
    BY <1>1, <2>1, <2>2
<1>5. owner = f /\ tensor \in [Variables -> 1..n]
  <2>1. DOMAIN tensor = Variables /\ tensor = [v \in Variables |-> tensor[v]]
    OBVIOUS
  <2>2. tensor \in [Variables -> 1..n]
    BY <2>1, <1>3
  <2>3. QED
    BY <2>2
<1>6. call \in [Threads -> Calls] /\ \A t \in Threads : call[t] = Idle
  BY IdleCall
<1>7. /\ readers \in [Variables -> SUBSET (Threads \cup {Helper})]
      /\ writers \in [Variables -> SUBSET Threads]
      /\ cached \in [op : Nat, tensor : Nat]
      /\ ops \in Seq([lock : Locks, result : {"none", "OK", "error"}])
      /\ Len(ops) = 0
      /\ \A v \in Variables : readers[v] = {} /\ writers[v] = {}
      /\ cached = NotCached
  BY EmptySeq DEF NotCached
<1> HIDE DEF Init, f, n
<1>8. TypeInv
  BY <1>1, <1>4, <1>5, <1>6, <1>7 DEF TypeInv
<1>9. \A t \in Threads :
         /\ call[t].pc = "idle" /\ call[t].hit = FALSE
         /\ call[t].intermediate = {}
  BY <1>6 DEF Idle
<1>10. CallsInv /\ PlanInv /\ HelperInv /\ HoldInv /\ BuffersInv
  <2>1. CallsInv /\ PlanInv /\ HoldInv /\ BuffersInv
    BY <1>9 DEF CallsInv, PlanInv, HoldInv, BuffersInv, Active
  <2>2. HelperInv
    BY <1>7, <1>9 DEF HelperInv, NotCached, Active
  <2>3. QED
    BY <2>1, <2>2
<1>11. BoundInv
  BY <1>3, <1>5, <1>7, <1>9 DEF BoundInv, HasBound
<1>12. MutexInv
  BY <1>7 DEF MutexInv
<1>13. UpdatesInv /\ EffectInv
  BY <1>4, <1>9 DEF UpdatesInv, EffectInv, Active, HasUpdated
<1>14. QED
  BY <1>8, <1>10, <1>11, <1>12, <1>13 DEF IInv

-----------------------------------------------------------------------------
(* A thread starts an operation. *)
LEMMA BeginStep ==
    ASSUME IInv, NEW t \in Threads, NEW op \in Kernels,
           StartOp(t, op),
           call' \in [Threads -> Calls],
           \A u \in Threads \ {t} : call'[u] = call[u],
           call'[t].op = Len(ops) + 1,
           call'[t].kernel = op,
           call'[t].intermediate = {},
           \/ call'[t].pc = "lock" /\ call'[t].hit = FALSE
           \/ /\ call'[t].pc = "compute" /\ call'[t].hit = TRUE
              /\ op \in GatherNdOps /\ call'[t].plan = ReadOnly,
           HasBound(t)' => \A v \in op.vars :
              /\ call'[t].bound[v] \in 1..Len(contents)
              /\ call'[t].hit = FALSE => call'[t].bound[v] = tensor[v],
           UNCHANGED <<tensor, contents, owner, readers, writers, cached,
                       lost>>
    PROVE  IInv'
<1> USE DEF IInv
<1>1. /\ ops' \in Seq([lock : Locks, result : {"none", "OK", "error"}])
      /\ Len(ops') = Len(ops) + 1 /\ Len(ops) \in Nat
      /\ \A i \in 1..Len(ops) : ops'[i] = ops[i]
      /\ ops'[Len(ops) + 1] = [lock |-> op.lock, result |-> "none"]
  <2>1. [lock |-> op.lock, result |-> "none"] \in
           [lock : Locks, result : {"none", "OK", "error"}]
    BY KernelShape DEF Shape
  <2>2. QED
    BY <2>1, AppendProperties, LenProperties DEF TypeInv, StartOp
<1>2. call[t].pc = "idle"
  BY DEF StartOp, At
<1>3. TypeInv'
  BY <1>1 DEF TypeInv
<1>4. CallsInv'
  BY <1>1 DEF CallsInv, Active
<1>5. PlanInv'
  <2>1. \A u \in Threads \ {t} : Done(u)' = Done(u)
    BY DEF Done
  <2>2. CASE call'[t].pc = "lock"
    BY <2>1, <2>2 DEF PlanInv
  <2>3. CASE call'[t].pc = "compute"
    <3>1. call'[t].plan = ReadOnly /\ Len(ReadOnly) = 1 /\ ReadOnly[1] = "read"
      BY <2>3, ReadOnlyPlan
    <3>2. Done(t)' = 1 /\ op.plan[2] = "read"
      BY <2>3, <3>1, GatherShape DEF Done
    <3>3. QED
      BY <2>1, <3>1, <3>2 DEF PlanInv
  <2>4. QED
    BY <2>2, <2>3
<1>6. BoundInv'
  <2>1. \A u \in Threads \ {t} : HasBound(u)' <=> HasBound(u)
    BY DEF HasBound
  <2>2. op.vars \subseteq Variables
    BY KernelShape DEF Shape
  <2>3. QED
    BY <2>1, <2>2 DEF BoundInv
<1>7. MutexInv' /\ HoldInv' /\ HelperInv'
  <2>1. \A u \in Threads \ {t} : /\ Shares(u)' <=> Shares(u)
                                 /\ Active(u)' <=> Active(u)
    BY DEF Shares, Done, Active
  <2>2. MutexInv'
    BY DEF MutexInv
  <2>3. HoldInv'
    BY <2>1 DEF HoldInv
  <2>4. cached.op \in Nat /\ cached'.op = cached.op
    BY DEF TypeInv
  <2>5. call'[t].op # cached'.op
    BY <1>1, <2>4 DEF HelperInv
  <2>6. cached'.op <= Len(ops')
    BY <1>1, <2>4 DEF HelperInv
  <2>7. QED
    BY <2>1, <2>2, <2>3, <2>4, <2>5, <2>6 DEF HelperInv
<1>8. \A u \in Threads : \A b \in call'[u].intermediate :
         u # t /\ b \in call[u].intermediate
  OBVIOUS
<1>9. UpdatesInv'
  <2>1. \A u : Good(u) => Good(u)'
    BY <1>1 DEF Good
  <2>2. QED
    BY <1>8, <2>1 DEF UpdatesInv
<1>10. BuffersInv'
  <2>1. \A u \in Threads : \A b \in call'[u].intermediate :
           /\ \A x \in contents[b.tensor] \ b.value :
                 x \in 1..Len(ops)
           /\ Missing(u, b)'
    <3> SUFFICES ASSUME NEW u \in Threads, NEW b \in call'[u].intermediate,
                        NEW x \in contents[b.tensor] \ b.value
                 PROVE  /\ x \in 1..Len(ops)
                        /\ \/ Overwritten(b.tensor, x)'
                           \/ MayOverwrite(call[u].op, x)'
      BY <1>8 DEF Missing
    <3>1. /\ Active(u)
          /\ \E v \in call[u].kernel.vars : b.tensor = call[u].bound[v]
          /\ Missing(u, b)
      BY <1>8 DEF BuffersInv, Active
    <3>2. call[u].op \in 1..Len(ops) /\ b.tensor \in 1..Len(contents)
      BY <1>8, <3>1 DEF CallsInv, BoundInv, HasBound, BuffersInv
    <3>3. x \in 1..Len(ops)
      BY <3>2 DEF UpdatesInv, Good
    <3>4. Overwritten(b.tensor, x) \/ MayOverwrite(call[u].op, x)
      BY <3>1 DEF Missing
    <3>5. QED
      BY <1>1, <3>2, <3>3, <3>4 DEF Overwritten, MayOverwrite
  <2>2. \A u \in Threads : \A b \in call'[u].intermediate : Stale(u, b)'
    BY <1>8 DEF BuffersInv, Stale, Overwritten
  <2>3. QED
    BY <1>8, <2>1, <2>2 DEF BuffersInv
<1>11. EffectInv'
  <2>1. \A u \in Threads \ {t} :
           /\ Active(u)' <=> Active(u)
           /\ HasUpdated(u)' <=> HasUpdated(u)
           /\ Fresh(call[u].op) => Fresh(call[u].op)'
    BY <1>8 DEF Active, HasUpdated, Fresh, Done
  <2>2. ~HasUpdated(t)'
    <3>1. CASE call'[t].pc = "lock"
      BY <3>1 DEF HasUpdated
    <3>2. CASE call'[t].pc = "compute"
      <4>1. Len(call'[t].plan) = 1
        BY <3>2, ReadOnlyPlan
      <4>2. Done(t)' = 1
        BY <3>2, <4>1, GatherShape DEF Done
      <4>3. QED
        BY <3>2, <4>2, GatherShape DEF HasUpdated
    <3>3. QED
      BY <3>1, <3>2
  <2>3. Fresh(call[t].op)'
    BY <1>1, <1>8 DEF Fresh, UpdatesInv, Good
  <2>4. \A u \in Threads \ {t} : \A v : EffectOn(u, v)' <=> EffectOn(u, v)
    BY DEF EffectOn, Overwritten, NoResult
  <2>5. QED
    BY <2>1, <2>2, <2>3, <2>4 DEF EffectInv
<1>12. QED
  BY <1>3, <1>4, <1>5, <1>6, <1>7, <1>9, <1>10, <1>11

LEMMA StartStep ==
    ASSUME IInv, NEW t \in Threads, NEW op \in Kernels, Start(t, op)
    PROVE  IInv'
<1> DEFINE c == call'[t]
           b == IF LooksUpEarly(op) THEN Tensors(op) ELSE NoTensors
<1>1. /\ StartOp(t, op)
      /\ call' = [call EXCEPT ![t] =
                    [Started(op) EXCEPT !.pc = "lock", !.bound = b]]
      /\ UNCHANGED <<tensor, contents, owner, readers, writers, cached, lost>>
  BY DEF Start
<1>2. TypeInv /\ Len(ops) \in Nat
  BY LenProperties DEF IInv, TypeInv
<1>3. /\ b \in [Variables -> Nat]
      /\ op.early = TRUE => \A v \in op.vars : b[v] = tensor[v]
  <2>1. op.vars \subseteq Variables /\ tensor \in [Variables -> Nat]
    BY <1>2, KernelShape DEF Shape, TypeInv
  <2>2. Tensors(op) \in [Variables -> Nat] /\ NoTensors \in [Variables -> Nat]
    BY <2>1 DEF Tensors, NoTensors
  <2>3. QED
    BY <2>1, <2>2 DEF Tensors, LooksUpEarly
<1> HIDE DEF b
<1>4. c = [Started(op) EXCEPT !.pc = "lock", !.bound = b]
      /\ \A u \in Threads \ {t} : call'[u] = call[u]
  BY <1>1, <1>2 DEF TypeInv
<1>5. c = [pc |-> "lock", op |-> Len(ops) + 1, kernel |-> op, bound |-> b,
           plan |-> <<>>, intermediate |-> {}, hit |-> FALSE]
  BY <1>4 DEF Started, Idle
<1>6. c \in Calls
  <2>1. <<>> \in Seq(Steps \cup Variables)
    BY EmptySeq
  <2>2. QED
    BY <1>2, <1>3, <1>5, <2>1 DEF Calls
<1>7. call' \in [Threads -> Calls]
  BY <1>1, <1>2, <1>4, <1>6 DEF TypeInv
<1>8. /\ c.op = Len(ops) + 1 /\ c.kernel = op /\ c.intermediate = {}
      /\ c.pc = "lock" /\ c.hit = FALSE /\ c.bound = b
  BY <1>5
<1>9. HasBound(t)' => \A v \in op.vars :
         c.bound[v] \in 1..Len(contents) /\ c.bound[v] = tensor[v]
  <2>1. op.early \in BOOLEAN /\ op.vars \subseteq Variables
    BY KernelShape DEF Shape
  <2>2. HasBound(t)' => op.early = TRUE
    BY <1>8, <2>1 DEF HasBound
  <2>3. QED
    BY <1>2, <1>3, <1>8, <2>1, <2>2 DEF TypeInv
<1> HIDE DEF c
<1>10. QED
  BY <1>1, <1>4, <1>7, <1>8, <1>9, BeginStep DEF c

LEMMA StartCachedStep ==
    ASSUME IInv, NEW t \in Threads, NEW op \in GatherNdOps,
           StartCached(t, op)
    PROVE  IInv'
<1> DEFINE c == call'[t]
           b == [v \in Variables |->
                   IF v \in op.vars THEN cached.tensor ELSE 0]
<1>1. /\ StartOp(t, op)
      /\ cached # NotCached
      /\ call' = [call EXCEPT ![t] =
                    [Started(op) EXCEPT !.pc = "compute", !.plan = ReadOnly,
                                        !.bound = b, !.hit = TRUE]]
      /\ UNCHANGED <<tensor, contents, owner, readers, writers, cached, lost>>
  BY DEF StartCached
<1>2. /\ TypeInv /\ Len(ops) \in Nat
      /\ cached.tensor \in 1..Len(contents)
      /\ op \in Kernels /\ op.vars \subseteq Variables
  BY <1>1, LenProperties, GatherShape, KernelShape
  DEF IInv, TypeInv, BoundInv, Shape
<1>3. /\ b \in [Variables -> Nat]
      /\ \A v \in op.vars : b[v] \in 1..Len(contents)
  BY <1>2 DEF TypeInv
<1> HIDE DEF b
<1>4. /\ c = [Started(op) EXCEPT !.pc = "compute", !.plan = ReadOnly,
                                 !.bound = b, !.hit = TRUE]
      /\ \A u \in Threads \ {t} : call'[u] = call[u]
  BY <1>1, <1>2 DEF TypeInv
<1>5. c = [pc |-> "compute", op |-> Len(ops) + 1, kernel |-> op, bound |-> b,
           plan |-> ReadOnly, intermediate |-> {}, hit |-> TRUE]
  BY <1>4 DEF Started, Idle
<1>6. c \in Calls
  <2>1. ReadOnly \in Seq(Steps \cup Variables)
    BY ShortPlans DEF PlanOK
  <2>2. QED
    BY <1>2, <1>3, <1>5, <2>1 DEF Calls
<1>7. call' \in [Threads -> Calls]
  BY <1>1, <1>2, <1>4, <1>6 DEF TypeInv
<1>8. /\ c.op = Len(ops) + 1 /\ c.kernel = op /\ c.intermediate = {}
      /\ c.pc = "compute" /\ c.hit = TRUE /\ c.bound = b
      /\ c.plan = ReadOnly
  BY <1>5
<1>9. \A v \in op.vars : c.bound[v] \in 1..Len(contents)
  BY <1>3, <1>8
<1> HIDE DEF c
<1>10. QED
  BY <1>1, <1>2, <1>4, <1>7, <1>8, <1>9, BeginStep DEF c

-----------------------------------------------------------------------------
(* A step that submits no update: results, updates and losses stay.          *)
LEMMA QuietStep ==
    ASSUME IInv, call' \in [Threads -> Calls],
           UNCHANGED <<contents, ops, lost>>,
           \A u \in Threads :
              \/ call'[u] = call[u]
              \/ /\ call'[u].intermediate = {}
                 /\ call'[u].op = call[u].op
                 /\ Active(u)
                 /\ HasUpdated(u)' <=> HasUpdated(u)
                 /\ HasUpdated(u)' => \A v \in call'[u].kernel.vars :
                       v \in call[u].kernel.vars
                       /\ (EffectOn(u, v) => EffectOn(u, v)')
    PROVE  BuffersInv' /\ UpdatesInv' /\ EffectInv'
<1> USE DEF IInv
<1>1. \A u \in Threads : \A b \in call'[u].intermediate : call'[u] = call[u]
  OBVIOUS
<1>2. BuffersInv'
  <2>1. \A u \in Threads : call'[u] = call[u] => \A b :
           (Missing(u, b) => Missing(u, b)') /\ (Stale(u, b) => Stale(u, b)')
    BY DEF Missing, Stale, Overwritten, MayOverwrite
  <2>2. QED
    BY <1>1, <2>1 DEF BuffersInv
<1>3. UpdatesInv'
  BY <1>1 DEF UpdatesInv, Good
<1>4. EffectInv'
  <2>1. \A x : Fresh(x) => Fresh(x)'
    BY <1>1 DEF Fresh
  <2>2. ASSUME NEW u \in Threads
        PROVE  /\ Active(u)' /\ ~HasUpdated(u)' => Fresh(call[u].op)'
               /\ HasUpdated(u)' => \A v \in call'[u].kernel.vars :
                     EffectOn(u, v)'
    <3>1. CASE call'[u] = call[u]
      <4>1. /\ Active(u)' <=> Active(u)
            /\ HasUpdated(u)' <=> HasUpdated(u)
            /\ Fresh(call[u].op) => Fresh(call[u].op)'
            /\ \A v : EffectOn(u, v) => EffectOn(u, v)'
        BY <3>1, <2>1
        DEF Active, HasUpdated, Done, EffectOn, Overwritten, NoResult, Fresh
      <4>2. QED
        BY <3>1, <4>1 DEF EffectInv
    <3>2. CASE call'[u] # call[u]
      <4>1. Fresh(call[u].op) => Fresh(call[u].op)'
        BY <2>1, <3>2 DEF Fresh
      <4>2. QED
        BY <3>2, <4>1 DEF EffectInv
    <3>3. QED
      BY <3>1, <3>2
  <2>3. QED
    BY <2>2 DEF EffectInv
<1>5. QED
  BY <1>2, <1>3, <1>4

LEMMA LockStep ==
    ASSUME IInv, NEW t \in Threads, Lock(t)
    PROVE  IInv'
<1> DEFINE c == call[t]
           op == call[t].kernel
           b == IF LooksUpEarly(op) THEN call[t].bound ELSE Tensors(op)
<1> USE DEF IInv
<1>1. /\ c.pc = "lock" /\ VariableLock(t)
      /\ UNCHANGED <<tensor, contents, owner, cached, ops, lost>>
  BY DEF Lock, At
<1>2. /\ TypeInv /\ c \in Calls /\ op \in Kernels /\ Shape(op)
      /\ op.vars \subseteq Variables /\ op.plan \in Seq(Steps \cup Variables)
      /\ op.early \in BOOLEAN
  BY <1>1, KernelShape DEF TypeInv, CallsInv, Active, Shape, PlanOK
<1>3. b \in [Variables -> Nat]
  <2>1. tensor \in [Variables -> Nat]
    BY <1>2 DEF TypeInv
  <2>2. Tensors(op) \in [Variables -> Nat] /\ c.bound \in [Variables -> Nat]
    BY <1>2, <2>1 DEF Tensors, Calls
  <2>3. QED
    BY <2>2
<1>4. \A v \in op.vars : /\ b[v] \in 1..Len(contents) /\ owner[b[v]] = v
                         /\ op.early = FALSE => b[v] = tensor[v]
  <2>1. CASE op.early = TRUE
    <3>1. ~c.hit
      BY <1>1 DEF CallsInv
    <3>2. b = c.bound
      BY <2>1 DEF LooksUpEarly
    <3>3. HasBound(t)
      BY <2>1, <1>1 DEF HasBound
    <3>4. QED
      BY <2>1, <3>1, <3>2, <3>3 DEF BoundInv
  <2>2. CASE op.early = FALSE
    <3>1. \A v \in op.vars : b[v] = tensor[v]
      BY <1>2, <2>2 DEF LooksUpEarly, Tensors
    <3>2. QED
      BY <1>2, <3>1 DEF BoundInv, TypeInv
  <2>3. QED
    BY <1>2, <2>1, <2>2
<1>5. call' = [call EXCEPT ![t] = [c EXCEPT !.pc = "compute",
                                           !.plan = op.plan, !.bound = b]]
  BY <1>2 DEF Lock, Kernel, TypeInv, Calls
<1> HIDE DEF b
<1>6. \A u \in Threads \ {t} : call'[u] = call[u]
  BY <1>5, <1>2 DEF TypeInv
<1>7. /\ call'[t].pc = "compute" /\ call'[t].op = c.op
      /\ call'[t].kernel = op /\ call'[t].bound = b
      /\ call'[t].plan = op.plan /\ call'[t].intermediate = {}
      /\ call'[t].hit = FALSE
  <2>0. call'[t] = [c EXCEPT !.pc = "compute", !.plan = op.plan, !.bound = b]
    BY <1>5, <1>2 DEF TypeInv
  <2>1. c.hit \in BOOLEAN /\ DOMAIN c = DOMAIN Idle
    BY <1>2 DEF Calls, Idle
  <2>2. ~c.hit /\ c.intermediate = {}
    BY <1>1 DEF CallsInv, BuffersInv
  <2>3. c.hit = FALSE
    BY <2>1, <2>2
  <2>4. QED
    BY <1>2, <2>0, <2>2, <2>3 DEF Calls
<1>8. call'[t] \in Calls
  <2>1. call'[t] = [c EXCEPT !.pc = "compute", !.plan = op.plan, !.bound = b]
    BY <1>5, <1>2 DEF TypeInv
  <2>2. QED
    BY <1>2, <1>3, <2>1 DEF Calls
<1>9. call' \in [Threads -> Calls]
  BY <1>2, <1>5, <1>8 DEF TypeInv
<1>10. c.kernel \in Kernels /\ c.op \in 1..Len(ops) /\ Active(t)
  BY <1>1 DEF CallsInv, Active
<1> HIDE DEF c, op
<1>11. /\ readers' \in [Variables -> SUBSET (Threads \cup {Helper})]
       /\ writers' \in [Variables -> SUBSET Threads]
       /\ MutexInv'
       /\ \A v \in Variables : /\ readers[v] \subseteq readers'[v]
                               /\ readers'[v] \subseteq readers[v] \cup {t}
                               /\ writers[v] \subseteq writers'[v]
       /\ \A v \in op.vars : IF op.lock = "unique" THEN t \in writers'[v]
                                                  ELSE t \in readers'[v]
  <2>1. CASE op.lock = "unique"
    <3>1. LockUnique(t)
      BY <1>1, <2>1 DEF VariableLock, Kernel, op
    <3>2. /\ readers' = readers
          /\ \A v \in op.vars : writers[v] = {} /\ readers[v] = {}
          /\ writers' = [v \in Variables |->
                           IF v \in op.vars THEN {t} ELSE writers[v]]
      BY <3>1 DEF LockUnique, Kernel, op
    <3>3. /\ readers' \in [Variables -> SUBSET (Threads \cup {Helper})]
          /\ writers' \in [Variables -> SUBSET Threads]
      BY <1>2, <3>2 DEF TypeInv
    <3>4. \A v \in Variables : /\ readers[v] \subseteq readers'[v]
                              /\ readers'[v] \subseteq readers[v] \cup {t}
                              /\ writers[v] \subseteq writers'[v]
      BY <3>2
    <3>5. MutexInv'
      BY <3>2 DEF MutexInv
    <3>6. QED
      BY <1>2, <2>1, <3>2, <3>3, <3>4, <3>5
  <2>2. CASE op.lock # "unique"
    <3>1. LockShared(t)
      BY <1>1, <2>2 DEF VariableLock, Kernel, op
    <3>2. /\ writers' = writers
          /\ \A v \in op.vars : writers[v] = {}
          /\ readers' = [v \in Variables |-> IF v \in op.vars
                           THEN readers[v] \cup {t} ELSE readers[v]]
      BY <3>1 DEF LockShared, Kernel, op
    <3>3. /\ readers' \in [Variables -> SUBSET (Threads \cup {Helper})]
          /\ writers' \in [Variables -> SUBSET Threads]
      BY <1>2, <3>2 DEF TypeInv
    <3>4. \A v \in Variables : /\ readers[v] \subseteq readers'[v]
                              /\ readers'[v] \subseteq readers[v] \cup {t}
                              /\ writers[v] \subseteq writers'[v]
      BY <3>2
    <3>5. MutexInv'
      BY <3>2 DEF MutexInv
    <3>6. QED
      BY <1>2, <2>2, <3>2, <3>3, <3>4, <3>5
  <2>3. QED
    BY <2>1, <2>2
<1>12. TypeInv'
  BY <1>1, <1>2, <1>9, <1>11 DEF TypeInv
<1>13. CallsInv'
  BY <1>1, <1>6, <1>7, <1>10 DEF CallsInv, Active, c, op
<1>14. PlanInv'
  <2>1. Done(t)' = 0
    BY <1>2, <1>7, LenProperties DEF Done
  <2>2. \A u \in Threads \ {t} : Done(u)' = Done(u)
    BY <1>6 DEF Done
  <2>3. QED
    BY <1>6, <1>7, <2>1, <2>2 DEF PlanInv
<1>15. BoundInv'
  <2>1. \A u \in Threads \ {t} : HasBound(u)' <=> HasBound(u)
    BY <1>6 DEF HasBound
  <2>2. QED
    BY <1>1, <1>2, <1>4, <1>6, <1>7, <2>1 DEF BoundInv, HasBound
<1>16. HoldInv'
  <2>1. \A u \in Threads \ {t} : call[u].pc = "compute" =>
           call[u].kernel.vars \subseteq Variables
    BY KernelShape DEF CallsInv, Active, Shape
  <2>2. \A u \in Threads \ {t} : Shares(u)' <=> Shares(u)
    BY <1>6 DEF Shares, Done
  <2>3. ASSUME NEW u \in Threads \ {t}, call[u].pc = "compute", ~call[u].hit,
               NEW v \in call[u].kernel.vars
        PROVE  /\ call[u].kernel.lock = "unique" => u \in writers'[v]
               /\ call[u].kernel.lock = "shared" =>
                     u \in readers'[v] \/ Shares(u)'
               /\ ~call[u].kernel.early =>
                     \/ call[u].bound[v] = tensor'[v]
                     \/ Shares(u)' /\ u \notin readers'[v]
    <3>1. /\ call[u].kernel.lock = "unique" => u \in writers[v]
          /\ call[u].kernel.lock = "shared" => u \in readers[v] \/ Shares(u)
          /\ ~call[u].kernel.early =>
                \/ call[u].bound[v] = tensor[v]
                \/ Shares(u) /\ u \notin readers[v]
      BY <2>3 DEF HoldInv
    <3>2. v \in Variables /\ tensor'[v] = tensor[v]
      BY <1>1, <2>1, <2>3
    <3>3. /\ readers[v] \subseteq readers'[v]
          /\ readers'[v] \subseteq readers[v] \cup {t}
          /\ writers[v] \subseteq writers'[v]
      BY <1>11, <3>2
    <3>4. QED
      BY <2>2, <3>1, <3>2, <3>3
  <2>4. ASSUME NEW v \in op.vars
        PROVE  /\ op.lock = "unique" => t \in writers'[v]
               /\ op.lock = "shared" => t \in readers'[v]
               /\ ~op.early => b[v] = tensor'[v]
    BY <1>1, <1>2, <1>4, <1>11
  <2>5. QED
    BY <1>6, <1>7, <2>3, <2>4 DEF HoldInv
<1>17. BuffersInv' /\ UpdatesInv' /\ EffectInv'
  <2>1. Done(t)' = 0
    BY <1>2, <1>7, LenProperties DEF Done
  <2>2. ~HasUpdated(t)' /\ ~HasUpdated(t) /\ Active(t)
    BY <1>1, <1>10, <2>1 DEF HasUpdated, c
  <2>3. /\ call'[t].intermediate = {} /\ call'[t].op = call[t].op
        /\ HasUpdated(t)' <=> HasUpdated(t)
    BY <1>7, <2>2 DEF c
  <2>4. \A u \in Threads :
           \/ call'[u] = call[u]
           \/ /\ call'[u].intermediate = {}
              /\ call'[u].op = call[u].op
              /\ Active(u)
              /\ HasUpdated(u)' <=> HasUpdated(u)
              /\ HasUpdated(u)' => FALSE
    BY <1>6, <2>2, <2>3
  <2>5. QED
    BY <1>1, <1>9, <2>4, QuietStep
<1>18. HelperInv'
  <2>1. \A u \in Threads \ {t} : /\ Shares(u)' <=> Shares(u)
                                 /\ Active(u)' <=> Active(u)
    BY <1>6 DEF Shares, Done, Active
  <2>2. c.op # cached.op
    BY <1>1, <1>10 DEF HelperInv, c
  <2>3. QED
    BY <1>1, <1>6, <1>7, <2>1, <2>2 DEF HelperInv
<1>19. QED
  BY <1>11, <1>12, <1>13, <1>14, <1>15, <1>16, <1>17, <1>18

LEMMA EvictStep ==
    ASSUME IInv, Evict
    PROVE  IInv'
<1> USE DEF IInv, Evict
<1>1. TypeInv'
  BY DEF TypeInv, NotCached
<1>2. CallsInv' /\ PlanInv'
  <2>1. call' = call /\ ops' = ops
    OBVIOUS
  <2>2. CallsInv'
    BY <2>1 DEF CallsInv, Active
  <2>3. PlanInv'
    BY <2>1 DEF PlanInv, Done
  <2>4. QED
    BY <2>2, <2>3
<1>3. BoundInv'
  BY DEF BoundInv, HasBound
<1>4. MutexInv'
  BY DEF MutexInv, TypeInv
<1>5. HoldInv'
  <2>1. \A u \in Threads : call[u].pc = "compute" =>
           call[u].kernel.vars \subseteq Variables
    BY KernelShape DEF CallsInv, Active, Shape
  <2>2. \A u \in Threads : Shares(u)' <=> Shares(u)
    BY DEF Shares, Done
  <2>3. \A u \in Threads : \A v \in Variables :
           u \in readers'[v] <=> u \in readers[v]
    BY NamesAssumption
  <2>4. QED
    BY <2>1, <2>2, <2>3 DEF HoldInv
<1>6. call' \in [Threads -> Calls] /\ \A u \in Threads : call'[u] = call[u]
  BY DEF TypeInv
<1>7. BuffersInv' /\ UpdatesInv' /\ EffectInv'
  BY <1>6, QuietStep
<1>8. HelperInv'
  <2>1. cached'.op = 0 /\ Len(ops') \in Nat
    BY LenProperties DEF NotCached, TypeInv
  <2>2. \A u \in Threads : Active(u)' => call'[u].op # 0
    BY <1>6 DEF CallsInv, Active
  <2>3. QED
    BY <2>1, <2>2 DEF HelperInv
<1>9. QED
  BY <1>1, <1>2, <1>3, <1>4, <1>5, <1>7, <1>8

-----------------------------------------------------------------------------
(* A call that computes submits the next step of its plan. *)
Computes(t) == call[t].pc = "compute" /\ call[t].plan # <<>>

Advanced(t) ==
    /\ call' \in [Threads -> Calls]
    /\ \A u \in Threads \ {t} : call'[u] = call[u]
    /\ call'[t].pc = "compute"
    /\ call'[t].op = call[t].op
    /\ call'[t].kernel = call[t].kernel
    /\ call'[t].bound = call[t].bound
    /\ call'[t].plan = Tail(call[t].plan)
    /\ call'[t].hit = call[t].hit

LEMMA AdvanceFacts ==
    ASSUME IInv, NEW t \in Threads, Computes(t),
           NEW I \in SUBSET Buffers, Advance(t, I)
    PROVE  Advanced(t) /\ call'[t].intermediate = I
<1> DEFINE c == call[t]
           d == [c EXCEPT !.plan = Tail(c.plan), !.intermediate = I]
<1>1. call \in [Threads -> Calls] /\ c \in Calls
  BY DEF IInv, TypeInv
<1>2. call' = [call EXCEPT ![t] = d]
  BY <1>1 DEF Advance, Calls
<1>3. Tail(c.plan) \in Seq(Steps \cup Variables)
  <2>1. c.plan \in Seq(Steps \cup Variables) /\ c.plan # <<>>
    BY <1>1 DEF Computes, Calls
  <2>2. QED
    BY <2>1, HeadTailProperties
<1>4. d \in Calls
  BY <1>1, <1>3 DEF Calls
<1>5. /\ d.pc = "compute" /\ d.op = c.op /\ d.kernel = c.kernel
      /\ d.bound = c.bound /\ d.plan = Tail(c.plan) /\ d.intermediate = I
  BY <1>1 DEF Computes, Calls
<1>6. d.hit = c.hit
  BY <1>1, Zenon DEF Calls
<1> HIDE DEF d
<1>7. /\ call' \in [Threads -> Calls] /\ call'[t] = d
      /\ \A u \in Threads \ {t} : call'[u] = call[u]
  BY <1>1, <1>2, <1>4
<1>8. QED
  BY <1>5, <1>6, <1>7 DEF Advanced

LEMMA AdvancedPlan ==
    ASSUME IInv, NEW t \in Threads, Computes(t), Advanced(t)
    PROVE  LET op == call[t].kernel
               step == Head(call[t].plan)
           IN  /\ PlanInv'
               /\ HasUpdated(t)' <=>
                     HasUpdated(t) \/ step \in {"inplace", "compute"}
               /\ step \in {"inplace", "compute"} => ~HasUpdated(t)
               /\ step = "compute" => \A v \in op.vars :
                     \E k \in 1..Len(call'[t].plan) : call'[t].plan[k] = v
               /\ \A k \in 1..Len(call[t].plan) :
                     \/ call[t].plan[k] = step
                     \/ \E m \in 1..Len(call'[t].plan) :
                           call'[t].plan[m] = call[t].plan[k]
               /\ op \in GatherNdOps => step \in {"cache", "read"}
               /\ step = "cache" => op \in GatherNdOps
               /\ step \in Variables =>
                     /\ HasUpdated(t)
                     /\ \E j \in 1..Len(op.plan) : op.plan[j] = "compute"
               /\ Done(t) \in Nat /\ Done(t)' = Done(t) + 1
               /\ op.lock # "none" => step # "unlock"
               /\ op \in Kernels /\ Shape(op)
<1> USE DEF IInv
<1> DEFINE op == call[t].kernel
           plan == call[t].plan
           step == Head(plan)
           n == Len(plan)
           m == Len(op.plan)
           d == m - n
<1>1. /\ call[t] \in Calls /\ op \in Kernels /\ Shape(op)
      /\ plan \in Seq(Steps \cup Variables) /\ plan # <<>>
      /\ op.plan \in Seq(Steps \cup Variables) /\ n \in Nat /\ m \in Nat
  <2>1. call[t] \in Calls /\ op \in Kernels
    BY DEF TypeInv, CallsInv, Computes, Active
  <2>2. Shape(op) /\ op.plan \in Seq(Steps \cup Variables)
    BY <2>1, KernelShape DEF Shape, PlanOK
  <2>3. plan \in Seq(Steps \cup Variables) /\ plan # <<>>
    BY <2>1 DEF Calls, Computes
  <2>4. QED
    BY <2>1, <2>2, <2>3, LenProperties
<1>2. /\ step = plan[1] /\ n > 0
      /\ call'[t].plan = Tail(plan) /\ Len(Tail(plan)) = n - 1
      /\ \A k \in 1..(n - 1) : Tail(plan)[k] = plan[k + 1]
  BY <1>1, HeadTailProperties, EmptySeq DEF Advanced
<1>3. /\ d >= 0 /\ Done(t) = d
      /\ \A k \in 1..n : plan[k] = op.plan[d + k]
  BY DEF PlanInv, Computes, Done
<1>4. Done(t)' = d + 1 /\ call'[t].kernel = op /\ call'[t].pc = "compute"
  <2>1. call'[t].kernel = op /\ call'[t].pc = "compute"
    BY DEF Advanced
  <2>2. Done(t)' = m - (n - 1)
    BY <1>2, <2>1 DEF Done
  <2>3. QED
    BY <1>1, <2>1, <2>2
<1> HIDE DEF op, plan, step, n
<1>5. /\ d \in Nat /\ d + n = m /\ d + 1 \in 1..m
      /\ op.plan[d + 1] = step
  <2>1. d + 1 \in 1..m /\ 1 \in 1..n
    BY <1>1, <1>2, <1>3
  <2>2. QED
    BY <1>1, <1>2, <1>3, <2>1
<1> HIDE DEF d, m
<1>6. PlanInv'
  <2>1. \A u \in Threads \ {t} : Done(u)' = Done(u) /\ call'[u] = call[u]
    BY DEF Advanced, Done
  <2>2. \A k \in 1..(n - 1) : Tail(plan)[k] = op.plan[(d + 1) + k]
    <3> TAKE k \in 1..(n - 1)
    <3>1. n \in Nat /\ d \in Nat
      BY <1>1, <1>5
    <3>2. k + 1 \in 1..n /\ d + (k + 1) = (d + 1) + k
      BY <3>1
    <3>3. QED
      BY <1>2, <1>3, <3>2
  <2>3. (d + 1) >= 0
    BY <1>5
  <2>4. /\ Done(t)' >= 0
        /\ \A k \in 1..Len(call'[t].plan) :
              call'[t].plan[k] = call'[t].kernel.plan[Done(t)' + k]
    BY <1>2, <1>4, <2>2, <2>3
  <2>5. \A u \in Threads \ {t} : call'[u].pc = "compute" =>
        /\ Done(u)' >= 0
        /\ \A k \in 1..Len(call'[u].plan) :
              call'[u].plan[k] = call'[u].kernel.plan[Done(u)' + k]
    BY <2>1 DEF PlanInv
  <2>6. QED
    BY <2>4, <2>5 DEF PlanInv
<1>7. HasUpdated(t)' <=> HasUpdated(t) \/ step \in {"inplace", "compute"}
  <2>1. HasUpdated(t) <=>
           \E j \in 1..d : op.plan[j] \in {"inplace", "compute"}
    BY <1>3 DEF HasUpdated, Computes, op
  <2>2. HasUpdated(t)' <=>
           \E j \in 1..(d + 1) : op.plan[j] \in {"inplace", "compute"}
    BY <1>4 DEF HasUpdated
  <2>3. \A j : j \in 1..(d + 1) <=> j \in 1..d \/ j = d + 1
    BY <1>5
  <2>4. QED
    BY <1>5, <2>1, <2>2, <2>3
<1>8. step \in {"inplace", "compute"} => ~HasUpdated(t)
  <2> SUFFICES ASSUME step \in {"inplace", "compute"}, HasUpdated(t)
               PROVE  FALSE
    OBVIOUS
  <2>1. PICK j \in 1..d : op.plan[j] \in {"inplace", "compute"}
    BY <1>3 DEF HasUpdated, op
  <2>2. j \in 1..m /\ j # d + 1
    BY <1>1, <1>5
  <2>3. QED
    BY <1>1, <1>5, <2>1, <2>2 DEF Shape, PlanOK, m
<1>9. step = "compute" => \A v \in op.vars :
          \E k \in 1..Len(call'[t].plan) : call'[t].plan[k] = v
  <2> HAVE step = "compute"
  <2> TAKE v \in op.vars
  <2>1. PICK k \in ((d + 1) + 1)..m : op.plan[k] = v
    BY <1>1, <1>5 DEF Shape, PlanOK, m
  <2>2. /\ k - d \in 1..n /\ d + (k - d) = k
        /\ k - d - 1 \in 1..(n - 1) /\ (k - d - 1) + 1 = k - d
    BY <1>1, <1>2, <1>5, <2>1
  <2>3. Tail(plan)[k - d - 1] = v
    BY <1>2, <1>3, <2>1, <2>2
  <2>4. QED
    BY <1>2, <2>2, <2>3
<1>10. \A k \in 1..n :
          \/ plan[k] = step
          \/ \E j \in 1..Len(call'[t].plan) : call'[t].plan[j] = plan[k]
  <2> TAKE k \in 1..n
  <2>1. CASE k = 1
    BY <1>2, <2>1
  <2>2. CASE k # 1
    <3>1. k - 1 \in 1..(n - 1) /\ (k - 1) + 1 = k
      BY <1>1, <2>2
    <3>2. QED
      BY <1>2, <3>1
  <2>3. QED
    BY <2>1, <2>2
<1>11. op \in GatherNdOps => step \in {"cache", "read"}
  <2> HAVE op \in GatherNdOps
  <2>1. m = 2 /\ op.plan[1] = "cache" /\ op.plan[2] = "read"
    BY GatherShape DEF m
  <2>2. QED
    BY <1>5, <2>1
<1>12. /\ op.lock # "none" => step # "unlock"
       /\ step = "cache" => op \in GatherNdOps
  BY <1>1, <1>5 DEF Shape, Locked, Uncached, m
<1>13. step \in Variables =>
          /\ HasUpdated(t)
          /\ \E j \in 1..m : op.plan[j] = "compute"
  <2> HAVE step \in Variables
  <2>1. PICK j \in 1..((d + 1) - 1) : op.plan[j] = "compute"
    BY <1>1, <1>5 DEF Shape, PlanOK, m
  <2>2. j \in 1..d /\ j \in 1..m
    BY <1>1, <1>5
  <2>3. HasUpdated(t)
    BY <1>3, <2>1, <2>2 DEF HasUpdated, Computes, op
  <2>4. QED
    BY <2>1, <2>2, <2>3
<1>14. QED
  BY <1>1, <1>3, <1>4, <1>5, <1>6, <1>7, <1>8, <1>9, <1>10, <1>11, <1>12,
     <1>13
  DEF op, plan, step, n, m

(* The parts of the invariant that no submitted command can disturb. *)
LEMMA AdvanceStep ==
    ASSUME IInv, NEW t \in Threads, Computes(t), Advanced(t),
           UNCHANGED <<tensor, owner, ops>>,
           contents' \in Seq(SUBSET Nat), Len(contents') = Len(contents),
           cached' \in [op : Nat, tensor : Nat],
           cached' = NotCached \/ cached'.tensor \in 1..Len(contents),
           readers' \in [Variables -> SUBSET (Threads \cup {Helper})],
           writers' \in [Variables -> SUBSET Threads]
    PROVE  TypeInv' /\ CallsInv' /\ PlanInv' /\ BoundInv'
<1> USE DEF IInv
<1>1. TypeInv'
  BY DEF TypeInv, Advanced
<1>2. CallsInv'
  <2>1. \A u \in Threads :
           /\ Active(u)' <=> Active(u)
           /\ call'[u].op = call[u].op /\ call'[u].kernel = call[u].kernel
           /\ call'[u].pc = call[u].pc
           /\ call'[u].hit = call[u].hit
    BY DEF Active, Advanced, Computes
  <2>2. QED
    BY <2>1, SMTT(30) DEF CallsInv
<1>3. PlanInv'
  BY AdvancedPlan
<1>4. BoundInv'
  <2>1. \A u \in Threads : HasBound(u)' <=> HasBound(u)
    BY DEF HasBound, Advanced, Computes
  <2>2. QED
    BY <2>1 DEF BoundInv, Advanced
<1>5. QED
  BY <1>1, <1>2, <1>3, <1>4

(* A command keeps the locks, and the helper if it caches no kernel.         *)
LEMMA AdvanceLocks ==
    ASSUME IInv, NEW t \in Threads, Computes(t), Advanced(t),
           UNCHANGED <<tensor, ops>>
    PROVE  /\ UNCHANGED <<readers, writers>> => MutexInv' /\ HoldInv'
           /\ cached' = cached => HelperInv'
<1> USE DEF IInv
<1>1. \A u \in Threads :
         /\ Active(u)' <=> Active(u)
         /\ call'[u].op = call[u].op /\ call'[u].kernel = call[u].kernel
         /\ call'[u].bound = call[u].bound
         /\ call'[u].pc = call[u].pc
         /\ call'[u].hit = call[u].hit
  BY DEF Active, Advanced, Computes
<1>2. \A u \in Threads : Shares(u) => Shares(u)'
  <2>1. Done(t) \in Nat /\ Done(t)' = Done(t) + 1
    BY AdvancedPlan
  <2>2. Done(t) >= 1 => Done(t)' >= 1
    BY <2>1
  <2>3. \A u \in Threads \ {t} : Done(u)' = Done(u)
    BY DEF Advanced, Done
  <2>4. QED
    BY <1>1, <2>2, <2>3 DEF Shares
<1>3. UNCHANGED <<readers, writers>> => MutexInv' /\ HoldInv'
  <2> HAVE UNCHANGED <<readers, writers>>
  <2>1. MutexInv'
    BY DEF MutexInv
  <2>2. HoldInv'
    BY <1>1, <1>2, Zenon DEF HoldInv
  <2>3. QED
    BY <2>1, <2>2
<1>4. cached' = cached => HelperInv'
  BY <1>1, <1>2 DEF HelperInv
<1>5. QED
  BY <1>3, <1>4

(* Two operations that compute on the same tensor and could not overwrite    *)
(* each other's update would both hold the lock of its variable.             *)
LEMMA Conflict ==
    ASSUME IInv, NEW t \in Threads, NEW u \in Threads, t # u,
           call[t].pc = "compute", ~call[t].hit,
           call[u].pc = "compute", ~call[u].hit,
           call[t].kernel \notin GatherNdOps,
           call[u].kernel \notin GatherNdOps,
           NEW v \in call[t].kernel.vars, NEW w \in call[u].kernel.vars,
           call[t].bound[v] = call[u].bound[w]
    PROVE  MayOverwrite(call[u].op, call[t].op)
<1> USE DEF IInv
<1>1. v = w
  BY DEF BoundInv, HasBound
<1>2. /\ ops[call[t].op].lock = call[t].kernel.lock
      /\ ops[call[u].op].lock = call[u].kernel.lock
      /\ Shape(call[t].kernel) /\ Shape(call[u].kernel)
  BY KernelShape DEF CallsInv, Active
<1>3. SUFFICES ASSUME call[t].kernel.lock # "none",
                      call[u].kernel.lock # "none",
                      \/ call[t].kernel.lock = "unique"
                      \/ call[u].kernel.lock = "unique"
               PROVE  FALSE
  BY <1>2 DEF MayOverwrite
<1>4. v \in Variables /\ call[t].kernel.lock \in Locks
      /\ call[u].kernel.lock \in Locks
  BY <1>2 DEF Shape
<1>5. /\ t \in writers[v] \/ t \in readers[v]
      /\ u \in writers[v] \/ u \in readers[v]
      /\ t \in writers[v] \/ u \in writers[v]
  BY <1>1, <1>3, <1>4 DEF HoldInv, Shares, Locks
<1>6. QED
  BY <1>4, <1>5 DEF MutexInv

(* Steps of a plan that update nothing. *)
LEMMA QuietAdvance ==
    ASSUME IInv, NEW t \in Threads, Computes(t), Advanced(t),
           Head(call[t].plan) \in {"read", "cache", "unlock"},
           call'[t].intermediate = {},
           UNCHANGED <<contents, ops, lost>>
    PROVE  BuffersInv' /\ UpdatesInv' /\ EffectInv'
<1>1. /\ call[t].kernel.vars \subseteq Variables
      /\ HasUpdated(t)' <=> HasUpdated(t)
  BY AdvancedPlan DEF Shape
<1>2. \A v \in call[t].kernel.vars : EffectOn(t, v) => EffectOn(t, v)'
  <2> SUFFICES ASSUME NEW v \in call[t].kernel.vars, EffectOn(t, v)
               PROVE  EffectOn(t, v)'
    OBVIOUS
  <2>1. v # Head(call[t].plan)
    BY <1>1 DEF Steps
  <2>2. CASE \E k \in 1..Len(call[t].plan) : call[t].plan[k] = v
    <3>1. \E m \in 1..Len(call'[t].plan) : call'[t].plan[m] = v
      <4>1. PICK k \in 1..Len(call[t].plan) : call[t].plan[k] = v
        BY <2>2
      <4>2. call[t].plan[k] # Head(call[t].plan)
        BY <2>1, <4>1
      <4>3. \E m \in 1..Len(call'[t].plan) :
               call'[t].plan[m] = call[t].plan[k]
        BY <4>2, AdvancedPlan
      <4>4. QED
        BY <4>1, <4>3
    <3>2. QED
      BY <3>1 DEF EffectOn
  <2>3. CASE \/ call[t].op \in contents[call[t].bound[v]]
             \/ Overwritten(call[t].bound[v], call[t].op)
    BY <2>3 DEF EffectOn, Overwritten, Advanced
  <2>4. CASE NoResult(t, v)
    <3>1. NoResult(t, v)'
      BY <2>4 DEF NoResult, Advanced
    <3>2. QED
      BY <3>1 DEF EffectOn
  <2>5. QED
    BY <2>2, <2>3, <2>4 DEF EffectOn
<1>3. Active(t)
  BY DEF Active, Computes
<1>4. \A u \in Threads :
         \/ call'[u] = call[u]
         \/ /\ call'[u].intermediate = {}
            /\ call'[u].op = call[u].op
            /\ Active(u)
            /\ HasUpdated(u)' <=> HasUpdated(u)
            /\ HasUpdated(u)' => \A v \in call'[u].kernel.vars :
                  v \in call[u].kernel.vars
                  /\ (EffectOn(u, v) => EffectOn(u, v)')
  BY <1>1, <1>2, <1>3 DEF Advanced
<1>5. call' \in [Threads -> Calls]
  BY DEF Advanced
<1>6. QED
  BY <1>4, <1>5, QuietStep

LEMMA ReadStep ==
    ASSUME IInv, NEW t \in Threads, Computes(t),
           Head(call[t].plan) = "read", Read(t),
           UNCHANGED <<tensor, owner, ops>>
    PROVE  IInv'
<1>1. /\ Advance(t, {})
      /\ UNCHANGED <<contents, readers, writers, cached, lost>>
  BY DEF Read
<1>2. Advanced(t) /\ call'[t].intermediate = {}
  BY <1>1, AdvanceFacts
<1>3. TypeInv' /\ CallsInv' /\ PlanInv' /\ BoundInv'
  BY <1>1, <1>2, AdvanceStep DEF IInv, TypeInv, BoundInv
<1>4. MutexInv' /\ HoldInv' /\ HelperInv'
  BY <1>1, <1>2, AdvanceLocks
<1>5. QED
  BY <1>1, <1>2, <1>3, <1>4, QuietAdvance DEF IInv

LEMMA CacheStep ==
    ASSUME IInv, NEW t \in Threads, Computes(t),
           Head(call[t].plan) = "cache", CacheKernel(t),
           UNCHANGED <<tensor, owner, ops>>
    PROVE  IInv'
<1>1. /\ Advance(t, {})
      /\ UNCHANGED <<contents, readers, writers, lost>>
  BY DEF CacheKernel
<1>2. Advanced(t) /\ call'[t].intermediate = {}
  BY <1>1, AdvanceFacts
<1>3. /\ cached' \in [op : Nat, tensor : Nat]
      /\ cached' = NotCached \/ cached'.tensor \in 1..Len(contents)
  <2>1. CASE cached # NotCached
    BY <2>1 DEF CacheKernel, IInv, TypeInv, BoundInv
  <2>2. CASE cached = NotCached
    <3>1. PICK i \in Bound(t) : cached' = [op |-> call[t].op, tensor |-> i]
      BY <2>2 DEF CacheKernel
    <3>2. i \in 1..Len(contents) /\ call[t].op \in Nat
      BY <3>1 DEF Bound, Kernel, IInv, BoundInv, HasBound, Computes, TypeInv,
                  Calls
    <3>3. i \in Nat
      BY <3>2
    <3>4. QED
      BY <3>1, <3>2, <3>3
  <2>3. QED
    BY <2>1, <2>2
<1>4. TypeInv' /\ CallsInv' /\ PlanInv' /\ BoundInv'
  BY <1>1, <1>2, <1>3, AdvanceStep DEF IInv, TypeInv
<1>5. MutexInv' /\ HoldInv'
  BY <1>1, <1>2, AdvanceLocks
<1>6. HelperInv'
  <2>1. CASE cached # NotCached
    <3>1. cached' = cached
      BY <2>1 DEF CacheKernel
    <3>2. QED
      BY <1>2, <3>1, AdvanceLocks
  <2>2. CASE cached = NotCached
    <3>1. cached'.op = call[t].op
      BY <2>2 DEF CacheKernel
    <3>2. Active(t) /\ call[t].op \in 1..Len(ops) /\ Len(ops) \in Nat
      BY LenProperties DEF Computes, Active, IInv, CallsInv, TypeInv
    <3>3. cached'.op <= Len(ops)
      BY <3>1, <3>2
    <3>4. Shares(t)' /\ call'[t].pc = "compute"
      <4>1. /\ call[t].kernel \in GatherNdOps
            /\ Done(t) \in Nat /\ Done(t)' = Done(t) + 1
        BY <1>2, AdvancedPlan
      <4>2. Done(t)' >= 1
        BY <4>1
      <4>3. QED
        BY <1>2, <4>1, <4>2 DEF Shares, Advanced
    <3>5. \A u \in Threads \ {t} :
             call'[u] = call[u] /\ (Active(u)' <=> Active(u))
      BY <1>2 DEF Advanced, Active
    <3>6. \A u \in Threads \ {t} : Active(u) => call[u].op # call[t].op
      BY <3>2 DEF IInv, CallsInv
    <3>7. QED
      BY <3>1, <3>3, <3>4, <3>5, <3>6 DEF HelperInv
  <2>3. QED
    BY <2>1, <2>2
<1>7. QED
  BY <1>1, <1>2, <1>4, <1>5, <1>6, QuietAdvance DEF IInv

LEMMA UnlockStep ==
    ASSUME IInv, NEW t \in Threads, Computes(t),
           Head(call[t].plan) = "unlock", UnlockEarly(t),
           UNCHANGED <<tensor, owner, ops>>
    PROVE  IInv'
<1>1. /\ Advance(t, {}) /\ Unlock(t)
      /\ UNCHANGED <<contents, cached, lost>>
  BY DEF UnlockEarly
<1>2. Advanced(t) /\ call'[t].intermediate = {}
  BY <1>1, AdvanceFacts
<1>3. /\ readers' \in [Variables -> SUBSET (Threads \cup {Helper})]
      /\ writers' \in [Variables -> SUBSET Threads]
      /\ \A v \in Variables : /\ readers'[v] \subseteq readers[v]
                              /\ writers'[v] \subseteq writers[v]
                              /\ readers[v] \ {t} \subseteq readers'[v]
                              /\ writers[v] \ {t} \subseteq writers'[v]
  <2>1. ~call[t].hit
    BY <1>2, AdvancedPlan DEF IInv, CallsInv
  <2>2. HeldByHelper(t) = {t}
    BY <2>1 DEF HeldByHelper
  <2>3. QED
    BY <1>1, <2>2 DEF Unlock, IInv, TypeInv
<1>4. TypeInv' /\ CallsInv' /\ PlanInv' /\ BoundInv'
  BY <1>1, <1>2, <1>3, AdvanceStep DEF IInv, TypeInv, BoundInv
<1>5. MutexInv'
  BY <1>3 DEF IInv, MutexInv
<1>6. HoldInv'
  <2>1. call[t].kernel.lock = "none" /\ call[t].kernel.early
    BY <1>2, AdvancedPlan DEF Shape
  <2>2. \A u \in Threads : call[u].pc = "compute" =>
           call[u].kernel.vars \subseteq Variables
    BY KernelShape DEF IInv, CallsInv, Active, Shape
  <2>3. \A u \in Threads \ {t} :
           call'[u] = call[u] /\ (Shares(u)' <=> Shares(u))
    BY <1>2 DEF Advanced, Shares, Done
  <2>4. \A u \in Threads \ {t} : \A v \in Variables :
           /\ u \in readers'[v] <=> u \in readers[v]
           /\ u \in writers'[v] <=> u \in writers[v]
    BY <1>3
  <2>5. /\ call'[t].kernel.lock = "none" /\ call'[t].kernel.early
        /\ call'[t].kernel = call[t].kernel
    BY <1>2, <2>1 DEF Advanced
  <2>6. QED
    BY <2>2, <2>3, <2>4, <2>5 DEF IInv, HoldInv
<1>7. HelperInv'
  BY <1>1, <1>2, AdvanceLocks
<1>8. QED
  BY <1>1, <1>2, <1>4, <1>5, <1>6, <1>7, QuietAdvance DEF IInv

(* ResourceGatherNd updates nothing. *)
LEMMA GatherUpdates ==
    ASSUME IInv, NEW t \in Threads, call[t].kernel \in GatherNdOps
    PROVE  ~HasUpdated(t)
<1>1. /\ Len(call[t].kernel.plan) = 2 /\ call[t].kernel.plan[1] = "cache"
      /\ call[t].kernel.plan[2] = "read"
  BY GatherShape
<1>2. Len(call[t].plan) \in Nat
  BY LenProperties DEF IInv, TypeInv, Calls
<1>3. Done(t) <= 2 /\ Done(t) \in Int
  BY <1>1, <1>2 DEF Done
<1>4. QED
  BY <1>1, <1>3 DEF HasUpdated

(* What is known of a result that is not written back. *)
LEMMA BufferFacts ==
    ASSUME IInv, NEW u \in Threads, NEW b \in call[u].intermediate
    PROVE  /\ call[u].pc = "compute" /\ ~call[u].hit /\ Active(u)
           /\ b \in Buffers
           /\ b.tensor \in 1..Len(contents)
           /\ call[u].op \in b.value
           /\ Missing(u, b) /\ Stale(u, b)
           /\ \E w \in call[u].kernel.vars : b.tensor = call[u].bound[w]
           /\ \A c \in call[u].intermediate : b.tensor = c.tensor => b = c
           /\ call[u].kernel \notin GatherNdOps
<1> USE DEF IInv
<1>1. /\ call[u].pc = "compute" /\ ~call[u].hit
      /\ call[u].op \in b.value
      /\ Missing(u, b) /\ Stale(u, b)
      /\ \A c \in call[u].intermediate : b.tensor = c.tensor => b = c
  BY DEF BuffersInv
<1>2. PICK w \in call[u].kernel.vars : b.tensor = call[u].bound[w]
  BY DEF BuffersInv
<1>3. b \in Buffers
  BY DEF TypeInv, Calls
<1>4. b.tensor \in 1..Len(contents)
  BY <1>1, <1>2 DEF BoundInv, HasBound
<1>5. call[u].kernel \notin GatherNdOps
  <2>1. Active(u)
    BY <1>1 DEF Active
  <2>2. HasUpdated(u)
    BY <1>1, <2>1 DEF EffectInv, Fresh
  <2>3. QED
    BY <2>2, GatherUpdates
<1>6. QED
  BY <1>1, <1>2, <1>3, <1>4, <1>5 DEF Active

(* An update submitted by one call leaves the updates of the others, unless  *)
(* it overwrites them, and brings no update from nowhere.                    *)
LEMMA UpdateStep ==
    ASSUME IInv, NEW t \in Threads, Computes(t), Advanced(t),
           UNCHANGED ops, lost \subseteq lost',
           Len(contents') = Len(contents),
           \A i \in 1..Len(contents) : \A x \in contents[i] :
              x \in contents'[i] \/ Overwritten(i, x)',
           \A i \in 1..Len(contents) : \A x \in contents'[i] :
              \/ x = call[t].op
              \/ x \in contents[i]
              \/ \E c \in call[t].intermediate : x \in c.value,
           \A b \in call'[t].intermediate : \A x \in b.value :
              \/ x = call[t].op
              \/ \E i \in 1..Len(contents) : x \in contents[i]
              \/ \E c \in call[t].intermediate : x \in c.value
    PROVE  /\ UpdatesInv'
           /\ \A u \in Threads \ {t} :
                 /\ Active(u)' /\ ~HasUpdated(u)' => Fresh(call[u].op)'
                 /\ HasUpdated(u)' => \A v \in call'[u].kernel.vars :
                       EffectOn(u, v)'
                 /\ \A b \in call[u].intermediate : Stale(u, b)'
<1> DEFINE n == Len(contents)
<1>1. /\ \A u \in Threads \ {t} : call'[u] = call[u]
      /\ call[t].op \in 1..Len(ops) /\ Good(call[t].op) /\ Active(t)
  BY DEF Advanced, Computes, Active, IInv, CallsInv, Good
<1>2. \A i, x : Overwritten(i, x) => Overwritten(i, x)'
  BY DEF Overwritten
<1>3. UpdatesInv'
  <2>1. \A x : Good(x)' <=> Good(x)
    BY DEF Good
  <2>2. \A i \in 1..n : \A x \in contents'[i] : Good(x)
    BY <1>1 DEF IInv, UpdatesInv
  <2>3. \A b \in call'[t].intermediate : \A x \in b.value : Good(x)
    BY <1>1 DEF IInv, UpdatesInv
  <2>4. \A u \in Threads \ {t} : \A b \in call'[u].intermediate :
           \A x \in b.value : Good(x)
    BY <1>1 DEF IInv, UpdatesInv
  <2>5. QED
    BY <2>1, <2>2, <2>3, <2>4 DEF UpdatesInv
<1>4. ASSUME NEW u \in Threads \ {t}
      PROVE  /\ Active(u)' /\ ~HasUpdated(u)' => Fresh(call[u].op)'
             /\ HasUpdated(u)' => \A v \in call'[u].kernel.vars :
                   EffectOn(u, v)'
             /\ \A b \in call[u].intermediate : Stale(u, b)'
  <2>1. call'[u] = call[u]
    BY <1>1
  <2>2. (Active(u)' <=> Active(u)) /\ (HasUpdated(u)' <=> HasUpdated(u))
    BY <2>1 DEF Active, HasUpdated, Done
  <2>3. Active(u) => call[u].op # call[t].op
    BY <1>1 DEF IInv, CallsInv
  <2>4. Active(u) /\ Fresh(call[u].op) => Fresh(call[u].op)'
    <3> HAVE Active(u) /\ Fresh(call[u].op)
    <3>1. \A i \in 1..n : call[u].op \notin contents'[i]
      BY <2>3 DEF Fresh
    <3>2. \A b \in call'[t].intermediate : call[u].op \notin b.value
      BY <2>3 DEF Fresh
    <3>3. \A s \in Threads \ {t} : \A b \in call'[s].intermediate :
             call[u].op \notin b.value
      BY <1>1 DEF Fresh
    <3>4. QED
      BY <2>1, <3>1, <3>2, <3>3 DEF Fresh
  <2>5. HasUpdated(u) => \A v \in call[u].kernel.vars : EffectOn(u, v)'
    <3> SUFFICES ASSUME HasUpdated(u), NEW v \in call[u].kernel.vars
                 PROVE  EffectOn(u, v)'
      OBVIOUS
    <3>1. EffectOn(u, v)
      BY DEF IInv, EffectInv
    <3>2. PICK i \in 1..n : i = call[u].bound[v]
      BY DEF IInv, BoundInv, HasBound, HasUpdated
    <3>3. call[u].op \in contents[i] \/ Overwritten(i, call[u].op) =>
             call[u].op \in contents'[i] \/ Overwritten(i, call[u].op)'
      BY <1>2, <2>1, <3>2 DEF Overwritten
    <3>4. NoResult(u, v) => NoResult(u, v)'
      BY <2>1 DEF NoResult
    <3>5. QED
      BY <2>1, <3>1, <3>2, <3>3, <3>4 DEF EffectOn
  <2>6. \A b \in call[u].intermediate : Stale(u, b)'
    <3> TAKE b \in call[u].intermediate
    <3>1. Stale(u, b) /\ b.tensor \in 1..n
      BY BufferFacts
    <3>2. QED
      BY <1>2, <2>1, <3>1 DEF Stale
  <2>7. QED
    BY <2>1, <2>2, <2>4, <2>5, <2>6 DEF IInv, EffectInv
<1>5. QED
  BY <1>3, <1>4

LEMMA InPlaceStep ==
    ASSUME IInv, NEW t \in Threads, Computes(t),
           Head(call[t].plan) = "inplace", UpdateInPlace(t),
           UNCHANGED <<tensor, owner, ops>>
    PROVE  IInv'
<1> DEFINE n == Len(contents)
<1>1. /\ Advance(t, {})
      /\ contents' = [i \in DOMAIN contents |->
                        IF i \in Bound(t) THEN Updated(t, i) ELSE contents[i]]
      /\ UNCHANGED <<readers, writers, cached, lost>>
  BY DEF UpdateInPlace
<1>2. Advanced(t) /\ call'[t].intermediate = {}
  BY <1>1, AdvanceFacts
<1>3. /\ ~call[t].hit /\ HasUpdated(t)' /\ ~HasUpdated(t)
      /\ call[t].kernel \notin GatherNdOps
      /\ call[t].kernel.vars \subseteq Variables
      /\ call[t].op \in Nat /\ Good(call[t].op) /\ Active(t)
  <2>1. /\ HasUpdated(t)' /\ ~HasUpdated(t)
        /\ call[t].kernel \notin GatherNdOps
        /\ call[t].kernel.vars \subseteq Variables
    BY <1>2, AdvancedPlan DEF Shape
  <2>2. Active(t)
    BY DEF Computes, Active
  <2>3. Good(call[t].op) /\ call[t].op \in Nat
    BY <2>2 DEF IInv, CallsInv, Good, TypeInv, Calls
  <2>4. ~call[t].hit
    BY <2>1 DEF IInv, CallsInv
  <2>5. QED
    BY <2>1, <2>2, <2>3, <2>4
<1>4. /\ contents \in Seq(SUBSET Nat) /\ n \in Nat /\ DOMAIN contents = 1..n
      /\ \A i \in 1..n : contents[i] \in SUBSET Nat
  BY LenProperties, ElementOfSeq DEF IInv, TypeInv
<1>5. \A i \in 1..n :
         /\ i \in Bound(t) => contents'[i] = contents[i] \cup {call[t].op}
         /\ i \notin Bound(t) => contents'[i] = contents[i]
  BY <1>1, <1>4 DEF Updated
<1>6. contents' \in [1..n -> SUBSET Nat]
  <2>1. \A i \in 1..n : contents'[i] \in SUBSET Nat
    BY <1>3, <1>4, <1>5
  <2>2. QED
    BY <1>1, <1>4, <2>1
<1>7. contents' \in Seq(SUBSET Nat) /\ Len(contents') = n
  <2> HIDE DEF n
  <2>1. QED
    BY <1>4, <1>6
<1>8. TypeInv' /\ CallsInv' /\ PlanInv' /\ BoundInv'
  BY <1>1, <1>2, <1>7, AdvanceStep DEF IInv, TypeInv, BoundInv
<1>9. MutexInv' /\ HoldInv' /\ HelperInv'
  BY <1>1, <1>2, AdvanceLocks
<1>10. \A u \in Threads : \A b \in call'[u].intermediate :
          u # t /\ call'[u] = call[u] /\ b \in call[u].intermediate
  BY <1>2 DEF Advanced
<1>11. \A i, x : Overwritten(i, x)' <=> Overwritten(i, x)
  BY <1>1 DEF Overwritten
<1>12. /\ UpdatesInv'
       /\ \A u \in Threads \ {t} :
             /\ Active(u)' /\ ~HasUpdated(u)' => Fresh(call[u].op)'
             /\ HasUpdated(u)' => \A v \in call'[u].kernel.vars :
                   EffectOn(u, v)'
             /\ \A b \in call[u].intermediate : Stale(u, b)'
  <2>1. \A i \in 1..n : contents[i] \subseteq contents'[i]
    BY <1>5
  <2>2. \A i \in 1..n : \A x \in contents'[i] :
           x \in contents[i] \/ x = call[t].op
    BY <1>5
  <2>3. QED
    BY <1>1, <1>2, <1>7, <2>1, <2>2, UpdateStep
<1>13. BuffersInv'
  <2>1. ASSUME NEW u \in Threads, NEW b \in call'[u].intermediate
        PROVE  Missing(u, b)' /\ Stale(u, b)'
    <3>1. u # t /\ call'[u] = call[u] /\ b \in call[u].intermediate
      BY <1>10
    <3>2. /\ call[u].pc = "compute" /\ ~call[u].hit
          /\ call[u].kernel \notin GatherNdOps
          /\ b.tensor \in 1..n /\ Missing(u, b)
          /\ \E w \in call[u].kernel.vars : b.tensor = call[u].bound[w]
      BY <3>1, BufferFacts
    <3>3. \A x \in contents'[b.tensor] :
             \/ x \in contents[b.tensor]
             \/ x = call[t].op /\ b.tensor \in Bound(t)
      BY <1>5, <3>2
    <3>4. b.tensor \in Bound(t) => MayOverwrite(call[u].op, call[t].op)
      <4> HAVE b.tensor \in Bound(t)
      <4>1. PICK v \in call[t].kernel.vars : b.tensor = call[t].bound[v]
        BY DEF Bound, Kernel
      <4>2. PICK w \in call[u].kernel.vars : b.tensor = call[u].bound[w]
        BY <3>2
      <4>3. QED
        BY <1>3, <3>1, <3>2, <4>1, <4>2, Conflict DEF Computes
    <3>5. \A x : MayOverwrite(call[u].op, x) => MayOverwrite(call[u].op, x)'
      BY <3>1 DEF MayOverwrite
    <3>6. Missing(u, b)'
      <4> SUFFICES ASSUME NEW x \in contents'[b.tensor] \ b.value
                   PROVE  Overwritten(b.tensor, x)'
                          \/ MayOverwrite(call[u].op, x)'
        BY DEF Missing
      <4>1. CASE x \in contents[b.tensor]
        BY <1>11, <3>2, <3>5, <4>1 DEF Missing
      <4>2. CASE x = call[t].op /\ b.tensor \in Bound(t)
        BY <3>4, <3>5, <4>2
      <4>3. QED
        BY <3>3, <4>1, <4>2
    <3>7. QED
      BY <1>12, <3>1, <3>6
  <2>2. QED
    BY <1>10, <2>1 DEF IInv, BuffersInv
<1>14. EffectInv'
  <2>1. \A v \in call[t].kernel.vars : EffectOn(t, v)'
    <3> TAKE v \in call[t].kernel.vars
    <3>1. call[t].bound[v] \in Bound(t) /\ call[t].bound[v] \in 1..n
      BY DEF Bound, Kernel, Computes, IInv, BoundInv, HasBound
    <3>2. call[t].op \in contents'[call[t].bound[v]]
      BY <1>5, <3>1
    <3>3. QED
      BY <1>2, <3>2 DEF EffectOn, Advanced
  <2>2. QED
    BY <1>2, <1>3, <1>12, <2>1 DEF EffectInv, Advanced
<1>15. QED
  BY <1>8, <1>9, <1>12, <1>13, <1>14 DEF IInv

LEMMA ComputeStep ==
    ASSUME IInv, NEW t \in Threads, Computes(t),
           Head(call[t].plan) = "compute", Compute(t),
           UNCHANGED <<tensor, owner, ops>>
    PROVE  IInv'
<1> DEFINE n == Len(contents)
<1>0. PICK allocated \in SUBSET Bound(t) : Advance(t, Results(t, allocated))
  BY DEF Compute
<1> DEFINE I == Results(t, allocated)
<1>1. /\ Advance(t, I)
      /\ UNCHANGED <<contents, readers, writers, cached, lost>>
  BY <1>0 DEF Compute
<1>2. Active(t) /\ call[t].op \in Nat
  BY DEF Computes, Active, IInv, TypeInv, Calls
<1>3. /\ contents \in Seq(SUBSET Nat) /\ n \in Nat
      /\ \A i \in 1..n : contents[i] \in SUBSET Nat
  BY LenProperties, ElementOfSeq DEF IInv, TypeInv
<1>4. \A b \in I : \E v \in call[t].kernel.vars :
         /\ call[t].bound[v] \in 1..n
         /\ b.tensor = call[t].bound[v]
         /\ b.value = contents[b.tensor] \cup {call[t].op}
         /\ b = [tensor |-> b.tensor, value |-> b.value]
  <2> TAKE b \in I
  <2>1. PICK i \in Bound(t) : b = [tensor |-> i, value |-> Updated(t, i)]
    BY DEF Results
  <2>2. PICK v \in call[t].kernel.vars : i = call[t].bound[v]
    BY <2>1 DEF Bound, Kernel
  <2>3. call[t].bound[v] \in 1..n
    BY DEF Computes, IInv, BoundInv, HasBound
  <2>4. QED
    BY <2>1, <2>2, <2>3 DEF Updated
<1>5. \A b, c \in I : b.tensor = c.tensor => b = c
  BY DEF Results
<1> HIDE DEF I
<1>6. I \in SUBSET Buffers
  <2> SUFFICES ASSUME NEW b \in I PROVE b \in Buffers
    OBVIOUS
  <2>1. /\ b = [tensor |-> b.tensor, value |-> b.value]
        /\ b.tensor \in 1..n
        /\ b.value = contents[b.tensor] \cup {call[t].op}
    BY <1>4
  <2>2. b.tensor \in Nat /\ b.value \in SUBSET Nat
    BY <1>2, <1>3, <2>1
  <2>3. QED
    BY <2>1, <2>2 DEF Buffers
<1>7. Advanced(t) /\ call'[t].intermediate = I
  BY <1>1, <1>6, AdvanceFacts
<1>8. TypeInv' /\ CallsInv' /\ PlanInv' /\ BoundInv'
  BY <1>1, <1>7, AdvanceStep DEF IInv, TypeInv, BoundInv
<1>9. MutexInv' /\ HoldInv' /\ HelperInv'
  BY <1>1, <1>7, AdvanceLocks
<1>10. /\ UpdatesInv'
       /\ \A u \in Threads \ {t} :
             /\ Active(u)' /\ ~HasUpdated(u)' => Fresh(call[u].op)'
             /\ HasUpdated(u)' => \A v \in call'[u].kernel.vars :
                   EffectOn(u, v)'
             /\ \A b \in call[u].intermediate : Stale(u, b)'
  <2>1. \A b \in call'[t].intermediate : \A x \in b.value :
           x = call[t].op \/ \E i \in 1..n : x \in contents[i]
    BY <1>4, <1>7
  <2>2. QED
    BY <1>1, <1>7, <2>1, UpdateStep
<1>11. ~call[t].hit /\ HasUpdated(t)'
       /\ \A v \in call[t].kernel.vars :
             \E k \in 1..Len(call'[t].plan) : call'[t].plan[k] = v
  BY <1>7, AdvancedPlan DEF IInv, CallsInv
<1>12. BuffersInv'
  <2>1. ASSUME NEW u \in Threads \ {t}, NEW b \in call'[u].intermediate
        PROVE  Missing(u, b)' /\ Stale(u, b)'
    <3>1. call'[u] = call[u] /\ b \in call[u].intermediate
      BY <1>7 DEF Advanced
    <3>2. Missing(u, b)
      BY <3>1, BufferFacts
    <3>3. Missing(u, b)'
      BY <1>1, <3>1, <3>2 DEF Missing, Overwritten, MayOverwrite
    <3>4. QED
      BY <1>10, <3>1, <3>3
  <2>2. ASSUME NEW b \in call'[t].intermediate
        PROVE  /\ \E v \in call'[t].kernel.vars : b.tensor = call'[t].bound[v]
               /\ call'[t].op \in b.value
               /\ Missing(t, b)' /\ Stale(t, b)'
    <3>1. PICK v \in call[t].kernel.vars :
             /\ b.tensor = call[t].bound[v]
             /\ b.value = contents[b.tensor] \cup {call[t].op}
      BY <1>4, <1>7
    <3>2. Missing(t, b)' /\ Stale(t, b)'
      BY <1>1, <1>7, <3>1 DEF Missing, Stale, Advanced
    <3>3. QED
      BY <1>7, <3>1, <3>2 DEF Advanced
  <2>3. call'[t].pc = "compute" /\ ~call'[t].hit
    BY <1>7, <1>11 DEF Advanced
  <2>4. \A u \in Threads \ {t} : call'[u] = call[u]
    BY <1>7 DEF Advanced
  <2>5. QED
    BY <1>5, <1>7, <2>1, <2>2, <2>3, <2>4 DEF IInv, BuffersInv
<1>13. EffectInv'
  <2>1. \A v \in call'[t].kernel.vars : EffectOn(t, v)'
    BY <1>7, <1>11 DEF EffectOn, Advanced
  <2>2. QED
    BY <1>10, <1>11, <2>1 DEF EffectInv
<1>14. QED
  BY <1>8, <1>9, <1>10, <1>12, <1>13 DEF IInv

(* The copy of a buffer that could not be allocated. *)
LEMMA EmptyCopyStep ==
    ASSUME IInv, NEW t \in Threads, Computes(t),
           NEW v \in Variables, Head(call[t].plan) = v,
           \A b \in call[t].intermediate : b.tensor # call[t].bound[v],
           Advance(t, call[t].intermediate),
           UNCHANGED <<tensor, owner, ops, contents, lost, readers, writers,
                       cached>>
    PROVE  IInv'
<1>1. call[t].intermediate \in SUBSET Buffers
  BY DEF IInv, TypeInv, Calls
<1>2. Advanced(t) /\ call'[t].intermediate = call[t].intermediate
  BY <1>1, AdvanceFacts
<1>3. TypeInv' /\ CallsInv' /\ PlanInv' /\ BoundInv'
  BY <1>2, AdvanceStep DEF IInv, TypeInv, BoundInv
<1>4. MutexInv' /\ HoldInv' /\ HelperInv'
  BY <1>2, AdvanceLocks
<1>5. /\ UpdatesInv'
      /\ \A u \in Threads \ {t} :
            /\ Active(u)' /\ ~HasUpdated(u)' => Fresh(call[u].op)'
            /\ HasUpdated(u)' => \A w \in call'[u].kernel.vars :
                  EffectOn(u, w)'
  BY <1>2, UpdateStep
<1>6. \A u \in Threads :
         /\ call'[u].intermediate = call[u].intermediate
         /\ call'[u].kernel = call[u].kernel /\ call'[u].op = call[u].op
         /\ call'[u].bound = call[u].bound
         /\ call'[u].pc = call[u].pc /\ call'[u].hit = call[u].hit
  BY <1>2 DEF Advanced, Computes
<1>7. BuffersInv'
  <2>1. \A u \in Threads : \A b \in call'[u].intermediate :
           Missing(u, b)' /\ Stale(u, b)'
    <3> SUFFICES ASSUME NEW u \in Threads, NEW b \in call'[u].intermediate
                 PROVE  Missing(u, b)' /\ Stale(u, b)'
      OBVIOUS
    <3>1. Missing(u, b) /\ Stale(u, b) /\ call'[u].op = call[u].op
      BY <1>6, BufferFacts
    <3>2. QED
      BY <3>1 DEF Missing, Stale, Overwritten, MayOverwrite
  <2>2. QED
    BY <1>6, <2>1 DEF IInv, BuffersInv
<1>8. EffectInv'
  <2>1. /\ HasUpdated(t) /\ HasUpdated(t)'
        /\ \E j \in 1..Len(call[t].kernel.plan) :
              call[t].kernel.plan[j] = "compute"
    BY <1>2, AdvancedPlan
  <2>2. ASSUME NEW w \in call[t].kernel.vars
        PROVE  EffectOn(t, w)'
    <3>1. EffectOn(t, w)
      BY <2>1 DEF IInv, EffectInv
    <3>2. CASE w = v
      <4>1. NoResult(t, w)'
        BY <1>6, <2>1, <3>2 DEF NoResult
      <4>2. QED
        BY <4>1 DEF EffectOn
    <3>3. CASE w # v /\ \E k \in 1..Len(call[t].plan) : call[t].plan[k] = w
      <4>1. \E m \in 1..Len(call'[t].plan) : call'[t].plan[m] = w
        <5>1. PICK k \in 1..Len(call[t].plan) : call[t].plan[k] = w
          BY <3>3
        <5>2. call[t].plan[k] # Head(call[t].plan)
          BY <3>3, <5>1
        <5>3. \E m \in 1..Len(call'[t].plan) :
                 call'[t].plan[m] = call[t].plan[k]
          BY <1>2, <5>2, AdvancedPlan
        <5>4. QED
          BY <5>1, <5>3
      <4>2. QED
        BY <4>1 DEF EffectOn
    <3>4. CASE \/ call[t].op \in contents[call[t].bound[w]]
               \/ Overwritten(call[t].bound[w], call[t].op)
      BY <1>6, <3>4 DEF EffectOn, Overwritten
    <3>5. CASE NoResult(t, w)
      <4>1. NoResult(t, w)'
        BY <1>6, <3>5 DEF NoResult
      <4>2. QED
        BY <4>1 DEF EffectOn
    <3>6. QED
      BY <3>1, <3>2, <3>3, <3>4, <3>5 DEF EffectOn
  <2>3. QED
    BY <1>5, <1>6, <2>1, <2>2 DEF EffectInv
<1>9. QED
  BY <1>3, <1>4, <1>5, <1>7, <1>8 DEF IInv

LEMMA CopyBackStep ==
    ASSUME IInv, NEW t \in Threads, Computes(t),
           NEW v \in Variables, Head(call[t].plan) = v,
           NEW buffer \in call[t].intermediate,
           buffer.tensor = call[t].bound[v], CopyFrom(t, buffer),
           Advance(t, call[t].intermediate),
           UNCHANGED <<tensor, owner, ops, readers, writers, cached>>
    PROVE  /\ IInv'
           /\ \A l \in lost' \ lost :
                 \/ Overwritten(l.tensor, l.update)
                 \/ MayOverwrite(l.by, l.update)
<1> DEFINE n == Len(contents)
           i == buffer.tensor
<1>2. /\ i = call[t].bound[v]
      /\ contents' = [contents EXCEPT ![i] = buffer.value]
      /\ lost' = lost \cup
            {[tensor |-> i, update |-> x, by |-> call[t].op] :
                x \in contents[i] \ buffer.value}
  BY Zenon DEF CopyFrom
<1>3. /\ call[t].pc = "compute" /\ ~call[t].hit /\ Active(t)
      /\ buffer \in Buffers /\ i \in 1..n /\ call[t].op \in buffer.value
      /\ Missing(t, buffer) /\ Stale(t, buffer)
      /\ \E w \in call[t].kernel.vars : i = call[t].bound[w]
      /\ \A c \in call[t].intermediate : i = c.tensor => c = buffer
      /\ call[t].kernel \notin GatherNdOps
  BY BufferFacts
<1>4. call[t].intermediate \in SUBSET Buffers /\ buffer.value \in SUBSET Nat
  BY <1>3 DEF IInv, TypeInv, Calls, Buffers
<1>5. Advanced(t) /\ call'[t].intermediate = call[t].intermediate
  BY <1>2, <1>4, AdvanceFacts
<1>6. /\ contents \in Seq(SUBSET Nat) /\ n \in Nat /\ DOMAIN contents = 1..n
      /\ contents \in [1..n -> SUBSET Nat]
  BY LenProperties DEF IInv, TypeInv
<1> HIDE DEF i, n
<1>7. /\ contents' \in [1..n -> SUBSET Nat]
      /\ contents'[i] = buffer.value
      /\ \A j \in 1..n : j # i => contents'[j] = contents[j]
  BY <1>2, <1>3, <1>4, <1>6
<1>8. contents' \in Seq(SUBSET Nat) /\ Len(contents') = n
  BY <1>6, <1>7
<1>9. TypeInv' /\ CallsInv' /\ PlanInv' /\ BoundInv'
  BY <1>2, <1>5, <1>8, AdvanceStep DEF IInv, TypeInv, BoundInv, n
<1>10. MutexInv' /\ HoldInv' /\ HelperInv'
  BY <1>5, AdvanceLocks
<1>11. \A j, x : Overwritten(j, x) => Overwritten(j, x)'
  BY <1>2 DEF Overwritten
<1>12. \A x \in contents[i] \ buffer.value : Overwritten(i, x)'
  <2> SUFFICES ASSUME NEW x \in contents[i] \ buffer.value,
                      NEW j, j = i
               PROVE  Overwritten(j, x)'
    BY DEF i
  <2>1. [tensor |-> j, update |-> x, by |-> call[t].op] \in lost'
    BY <1>2
  <2>2. QED
    BY <2>1 DEF Overwritten
<1>13. /\ UpdatesInv'
       /\ \A u \in Threads \ {t} :
             /\ Active(u)' /\ ~HasUpdated(u)' => Fresh(call[u].op)'
             /\ HasUpdated(u)' => \A w \in call'[u].kernel.vars :
                   EffectOn(u, w)'
             /\ \A b \in call[u].intermediate : Stale(u, b)'
  <2>1. \A j \in 1..n : \A x \in contents[j] :
           x \in contents'[j] \/ Overwritten(j, x)'
    <3> TAKE j \in 1..n
    <3>1. CASE j # i
      BY <1>7, <3>1
    <3>2. CASE j = i
      BY <1>7, <1>12, <3>2 DEF Overwritten
    <3>3. QED
      BY <3>1, <3>2
  <2>2. \A j \in 1..n : \A x \in contents'[j] :
           x \in contents[j] \/ \E c \in call[t].intermediate : x \in c.value
    BY <1>7
  <2>3. \A b \in call'[t].intermediate : \A x \in b.value :
           \E c \in call[t].intermediate : x \in c.value
    BY <1>5
  <2>4. lost \subseteq lost'
    BY <1>2
  <2>5. QED
    BY <1>5, <1>8, <2>1, <2>2, <2>3, <2>4, UpdateStep DEF n
<1>14. ASSUME NEW u \in Threads \ {t}, NEW b \in call[u].intermediate
       PROVE  Missing(u, b)'
  <2>1. /\ call[u].pc = "compute" /\ ~call[u].hit /\ b.tensor \in 1..n
        /\ Missing(u, b) /\ call[u].kernel \notin GatherNdOps
        /\ \E w \in call[u].kernel.vars : b.tensor = call[u].bound[w]
    BY BufferFacts DEF n
  <2>2. call'[u] = call[u]
    BY <1>5 DEF Advanced
  <2>3. \A x : MayOverwrite(call[u].op, x) => MayOverwrite(call[u].op, x)'
    BY <2>2 DEF MayOverwrite
  <2>4. SUFFICES ASSUME NEW x \in contents'[b.tensor] \ b.value
                 PROVE  \/ Overwritten(b.tensor, x)'
                        \/ MayOverwrite(call[u].op, x)'
    BY DEF Missing
  <2>5. CASE x \in contents[b.tensor]
    BY <1>11, <2>1, <2>3, <2>4, <2>5 DEF Missing
  <2>6. CASE x \notin contents[b.tensor]
    <3>1. b.tensor = i /\ x \in buffer.value
      BY <1>7, <2>1, <2>4, <2>6
    <3>2. x = call[t].op \/ Overwritten(b.tensor, x)
      BY <1>3, <2>6, <3>1 DEF Stale, i
    <3>3. MayOverwrite(call[u].op, call[t].op)
      <4>1. PICK w \in call[u].kernel.vars : b.tensor = call[u].bound[w]
        BY <2>1
      <4>2. PICK y \in call[t].kernel.vars : i = call[t].bound[y]
        BY <1>3
      <4>3. QED
        BY <1>3, <2>1, <3>1, <4>1, <4>2, Conflict
    <3>4. QED
      BY <1>11, <2>3, <3>2, <3>3
  <2>7. QED
    BY <2>5, <2>6
<1>15. ASSUME NEW b \in call[t].intermediate
       PROVE  Missing(t, b)' /\ Stale(t, b)'
  <2>1. Missing(t, b) /\ Stale(t, b) /\ b.tensor \in 1..n
    BY BufferFacts DEF n
  <2>2. call'[t].op = call[t].op /\ ops' = ops
    BY <1>5 DEF Advanced
  <2>3. CASE b.tensor = i
    <3>1. contents'[b.tensor] = b.value
      BY <1>3, <1>7, <2>3
    <3>2. QED
      BY <3>1 DEF Missing, Stale
  <2>4. CASE b.tensor # i
    <3>1. contents'[b.tensor] = contents[b.tensor]
      BY <1>7, <2>1, <2>4
    <3>2. \A x : MayOverwrite(call[t].op, x) => MayOverwrite(call[t].op, x)'
      BY <2>2 DEF MayOverwrite
    <3>3. QED
      BY <1>11, <2>1, <2>2, <3>1, <3>2 DEF Missing, Stale
  <2>5. QED
    BY <2>3, <2>4
<1>16. BuffersInv'
  <2>1. \A u \in Threads :
           /\ call'[u].intermediate = call[u].intermediate
           /\ call'[u].kernel = call[u].kernel /\ call'[u].op = call[u].op
           /\ call'[u].bound = call[u].bound
           /\ call'[u].pc = call[u].pc /\ call'[u].hit = call[u].hit
    BY <1>3, <1>5 DEF Advanced
  <2>2. \A u \in Threads : \A b \in call'[u].intermediate :
           Missing(u, b)' /\ Stale(u, b)'
    BY <1>13, <1>14, <1>15, <2>1
  <2>3. QED
    BY <2>1, <2>2 DEF IInv, BuffersInv
<1>17. EffectInv'
  <2>1. HasUpdated(t) /\ (HasUpdated(t)' <=> HasUpdated(t))
    <3>1. HasUpdated(t)
      BY <1>3 DEF IInv, EffectInv, Fresh
    <3>2. v \notin {"inplace", "compute"}
      BY DEF Steps
    <3>3. QED
      BY <1>5, <3>1, <3>2, AdvancedPlan
  <2>2. ASSUME NEW w \in call[t].kernel.vars
        PROVE  EffectOn(t, w)'
    <3>1. EffectOn(t, w)
      BY <2>1 DEF IInv, EffectInv
    <3>2. PICK j \in 1..n : j = call[t].bound[w]
      BY <1>3 DEF IInv, BoundInv, HasBound, n
    <3>3. call'[t].op = call[t].op /\ call'[t].bound = call[t].bound
      BY <1>5 DEF Advanced
    <3>4. CASE j = i
      <4>1. call'[t].op \in contents'[call'[t].bound[w]]
        BY <1>3, <1>7, <3>2, <3>3, <3>4
      <4>2. QED
        BY <4>1 DEF EffectOn
    <3>5. CASE j # i
      <4>1. w # v
        BY <1>2, <3>2, <3>5
      <4>2. CASE \E k \in 1..Len(call[t].plan) : call[t].plan[k] = w
        <5>1. \E m \in 1..Len(call'[t].plan) : call'[t].plan[m] = w
          <6>1. PICK k \in 1..Len(call[t].plan) : call[t].plan[k] = w
            BY <4>2
          <6>2. call[t].plan[k] # Head(call[t].plan)
            BY <4>1, <6>1
          <6>3. \E m \in 1..Len(call'[t].plan) :
                   call'[t].plan[m] = call[t].plan[k]
            BY <1>5, <6>2, AdvancedPlan
          <6>4. QED
            BY <6>1, <6>3
        <5>2. QED
          BY <5>1 DEF EffectOn
      <4>3. CASE call[t].op \in contents[j]
        <5>1. call'[t].op \in contents'[call'[t].bound[w]]
          BY <1>7, <3>2, <3>3, <3>5, <4>3
        <5>2. QED
          BY <5>1 DEF EffectOn
      <4>4. CASE Overwritten(j, call[t].op)
        <5>1. Overwritten(call[t].bound[w], call[t].op)'
          BY <1>2, <3>2, <3>3, <4>4 DEF Overwritten
        <5>2. QED
          BY <5>1 DEF EffectOn
      <4>5. CASE NoResult(t, w)
        <5>1. NoResult(t, w)'
          BY <1>5, <4>5 DEF NoResult, Advanced
        <5>2. QED
          BY <5>1 DEF EffectOn
      <4>6. QED
        BY <3>1, <3>2, <4>2, <4>3, <4>4, <4>5 DEF EffectOn
    <3>6. QED
      BY <3>4, <3>5
  <2>3. call'[t].kernel = call[t].kernel
    BY <1>5 DEF Advanced
  <2>4. QED
    BY <1>13, <2>1, <2>2, <2>3 DEF EffectInv
<1>18. \A l \in lost' \ lost :
          Overwritten(l.tensor, l.update) \/ MayOverwrite(l.by, l.update)
  <2> TAKE l \in lost' \ lost
  <2>1. PICK x \in contents[i] \ buffer.value :
           l = [tensor |-> i, update |-> x, by |-> call[t].op]
    BY <1>2
  <2>2. l.tensor = i /\ l.update = x /\ l.by = call[t].op
    BY <2>1
  <2>3. QED
    BY <1>3, <2>2 DEF Missing, i
<1>19. QED
  BY <1>9, <1>10, <1>13, <1>16, <1>17, <1>18 DEF IInv

-----------------------------------------------------------------------------
(* The call gives up its locks, and another one may have its lock released   *)
(* only if it created the kernel in the cache.                               *)
GivesUp(t) ==
    /\ readers' \in [Variables -> SUBSET (Threads \cup {Helper})]
    /\ writers' \in [Variables -> SUBSET Threads]
    /\ \A v \in Variables :
          /\ readers'[v] # {} => readers[v] # {}
          /\ writers'[v] \subseteq writers[v]
          /\ writers[v] \ {t} \subseteq writers'[v]
          /\ \A u \in Threads \ {t} :
                /\ u \in readers'[v] => u \in readers[v]
                /\ u \in readers[v] =>
                      u \in readers'[v] \/ call[u].op = cached.op

(* The operation returns.  If it fails, it has not submitted its update.     *)
LEMMA ReturnStep ==
    ASSUME IInv, NEW t \in Threads, call[t].pc = "compute",
           NEW result \in {"OK", "error"}, Return(t, result),
           result = "error" => ~HasUpdated(t),
           GivesUp(t)
    PROVE  IInv'
<1> USE DEF IInv
<1> DEFINE n == Len(ops)
           OpRecords == [lock : Locks, result : {"none", "OK", "error"}]
<1>1. /\ ops' = [ops EXCEPT ![call[t].op].result = result]
      /\ call' = [call EXCEPT ![t] = Idle]
      /\ UNCHANGED <<tensor, contents, owner, cached, lost>>
  BY DEF Return
<1>2. PICK o : o = call[t].op
  OBVIOUS
<1>3. /\ o \in 1..n /\ Active(t) /\ n \in Nat
      /\ ops \in [1..n -> OpRecords] /\ ops \in Seq(OpRecords)
  BY <1>2, LenProperties DEF CallsInv, Active, TypeInv
<1> HIDE DEF n
<1>4. /\ ops' \in [1..n -> OpRecords]
      /\ \A x \in 1..n : x # o => ops'[x] = ops[x]
      /\ ops'[o].lock = ops[o].lock /\ ops'[o].result = result
  <2>1. ops' = [ops EXCEPT ![o] = [ops[o] EXCEPT !.result = result]]
    BY <1>1, <1>2, <1>3
  <2>2. ops[o] \in OpRecords
    BY <1>3
  <2>3. [ops[o] EXCEPT !.result = result] \in OpRecords
    BY <2>2
  <2>4. QED
    BY <1>3, <2>1, <2>2, <2>3
<1>5. ops' \in Seq(OpRecords) /\ Len(ops') = n
  <2> HIDE DEF OpRecords
  <2>1. QED
    BY <1>3, <1>4
<1>6. /\ call' \in [Threads -> Calls] /\ call'[t] = Idle
      /\ \A u \in Threads \ {t} : call'[u] = call[u]
  BY <1>1, IdleCall DEF TypeInv
<1>7. /\ call'[t].pc = "idle" /\ call'[t].hit = FALSE
      /\ call'[t].intermediate = {}
  BY <1>6 DEF Idle
<1>8. TypeInv'
  BY <1>1, <1>5, <1>6 DEF TypeInv, GivesUp
<1>9. CallsInv'
  <2>1. \A u \in Threads \ {t} : Active(u) =>
           /\ call[u].op \in 1..n /\ call[u].op # o
           /\ ops'[call[u].op] = ops[call[u].op]
    BY <1>2, <1>3, <1>4 DEF CallsInv, n
  <2>2. \A u \in Threads \ {t} : Active(u)' <=> Active(u)
    BY <1>6 DEF Active
  <2>3. ~Active(t)'
    BY <1>7 DEF Active
  <2>4. QED
    BY <1>5, <1>6, <1>7, <2>1, <2>2, <2>3 DEF CallsInv
<1>10. PlanInv'
  <2>1. \A u \in Threads \ {t} : Done(u)' = Done(u)
    BY <1>6 DEF Done
  <2>2. QED
    BY <1>6, <1>7, <2>1 DEF PlanInv
<1>11. BoundInv'
  <2>1. \A u \in Threads \ {t} : HasBound(u)' <=> HasBound(u)
    BY <1>6 DEF HasBound
  <2>2. ~HasBound(t)'
    BY <1>7 DEF HasBound
  <2>3. QED
    BY <1>1, <1>6, <2>1, <2>2 DEF BoundInv
<1>12. MutexInv' /\ HelperInv'
  <2>1. \A u \in Threads \ {t} : /\ Shares(u)' <=> Shares(u)
                                 /\ Active(u)' <=> Active(u)
    BY <1>6 DEF Shares, Done, Active
  <2>2. HelperInv'
    BY <1>1, <1>5, <1>6, <1>7, <2>1 DEF HelperInv, Active, n
  <2>3. MutexInv'
    BY DEF MutexInv, GivesUp
  <2>4. QED
    BY <2>2, <2>3
<1>13. HoldInv'
  <2> SUFFICES ASSUME NEW u \in Threads, call'[u].pc = "compute",
                      ~call'[u].hit, NEW v \in call'[u].kernel.vars
               PROVE  /\ call'[u].kernel.lock = "unique" => u \in writers'[v]
                      /\ call'[u].kernel.lock = "shared" =>
                            u \in readers'[v] \/ Shares(u)'
                      /\ ~call'[u].kernel.early =>
                            \/ call'[u].bound[v] = tensor'[v]
                            \/ Shares(u)' /\ u \notin readers'[v]
    BY DEF HoldInv
  <2>1. u # t /\ call'[u] = call[u] /\ Active(u) /\ v \in Variables
    BY <1>6, <1>7, KernelShape DEF CallsInv, Active, Shape
  <2>2. /\ Shares(u)' <=> Shares(u)
        /\ tensor' = tensor
    BY <1>1, <2>1 DEF Shares, Done
  <2>3. /\ call[u].kernel.lock = "unique" => u \in writers[v]
        /\ call[u].kernel.lock = "shared" => u \in readers[v] \/ Shares(u)
        /\ ~call[u].kernel.early =>
              \/ call[u].bound[v] = tensor[v]
              \/ Shares(u) /\ u \notin readers[v]
    BY <2>1 DEF HoldInv
  <2>4. call[u].op = cached.op => Shares(u)
    BY <2>1 DEF HelperInv
  <2>5. /\ u \in writers[v] => u \in writers'[v]
        /\ u \in readers'[v] => u \in readers[v]
        /\ u \in readers[v] => u \in readers'[v] \/ Shares(u)
    BY <2>1, <2>4 DEF GivesUp
  <2>6. QED
    BY <2>1, <2>2, <2>3, <2>5
<1>14. \A u \in Threads : \A b \in call'[u].intermediate :
          u # t /\ call'[u] = call[u] /\ b \in call[u].intermediate
  BY <1>6, <1>7
<1>15. \A x, y \in 1..n : MayOverwrite(x, y)' <=> MayOverwrite(x, y)
  BY <1>4 DEF MayOverwrite
<1>16. \A j, x : Overwritten(j, x)' <=> Overwritten(j, x)
  BY <1>1 DEF Overwritten
<1>17. BuffersInv'
  <2>1. ASSUME NEW u \in Threads, NEW b \in call'[u].intermediate
        PROVE  Missing(u, b)' /\ Stale(u, b)'
    <3>1. /\ call'[u] = call[u] /\ b \in call[u].intermediate
          /\ Missing(u, b) /\ Stale(u, b) /\ Active(u)
          /\ b.tensor \in 1..Len(contents)
      BY <1>14, BufferFacts
    <3>2. PICK c \in 1..n : c = call[u].op
      BY <3>1 DEF CallsInv, n
    <3>3. \A x \in contents[b.tensor] : x \in 1..n
      BY <3>1 DEF UpdatesInv, Good, n
    <3>4. \A x \in contents[b.tensor] \ b.value :
             Overwritten(b.tensor, x)' \/ MayOverwrite(c, x)'
      BY <1>15, <1>16, <3>1, <3>2, <3>3 DEF Missing
    <3>5. Missing(u, b)'
      BY <1>1, <3>1, <3>2, <3>4 DEF Missing
    <3>6. Stale(u, b)'
      BY <1>1, <1>16, <3>1 DEF Stale
    <3>7. QED
      BY <3>5, <3>6
  <2>2. QED
    BY <1>7, <1>14, <2>1 DEF BuffersInv
<1>18. UpdatesInv'
  <2>1. result = "error" => Fresh(o)
    BY <1>2, <1>3 DEF EffectInv
  <2>2. \A x : Good(x) /\ (x = o => ~Fresh(o)) => Good(x)'
    BY <1>4, <1>5, <2>1 DEF Good, n
  <2>3. \A j \in 1..Len(contents) : \A x \in contents[j] : Good(x)'
    BY <2>2 DEF Fresh, UpdatesInv
  <2>4. \A u \in Threads : \A b \in call'[u].intermediate :
           \A x \in b.value : Good(x)'
    BY <1>14, <2>2 DEF Fresh, UpdatesInv
  <2>5. QED
    BY <1>1, <2>3, <2>4 DEF UpdatesInv
<1>19. EffectInv'
  <2>1. ~Active(t)' /\ ~HasUpdated(t)'
    BY <1>7 DEF Active, HasUpdated
  <2>2. ASSUME NEW u \in Threads \ {t}
        PROVE  /\ Active(u)' /\ ~HasUpdated(u)' => Fresh(call[u].op)'
               /\ HasUpdated(u)' => \A v \in call'[u].kernel.vars :
                     EffectOn(u, v)'
    <3>1. call'[u] = call[u]
      BY <1>6
    <3>2. (Active(u)' <=> Active(u)) /\ (HasUpdated(u)' <=> HasUpdated(u))
      BY <3>1 DEF Active, HasUpdated, Done
    <3>3. Fresh(call[u].op) => Fresh(call[u].op)'
      BY <1>1, <1>14, <3>1 DEF Fresh
    <3>4. \A v : EffectOn(u, v) => EffectOn(u, v)'
      BY <1>1, <3>1 DEF EffectOn, Overwritten, NoResult
    <3>5. QED
      BY <3>1, <3>2, <3>3, <3>4 DEF EffectInv
  <2>3. QED
    BY <2>1, <2>2 DEF EffectInv
<1>20. QED
  BY <1>8, <1>9, <1>10, <1>11, <1>12, <1>13, <1>17, <1>18, <1>19

(* What a call has executed is the beginning of its kernel's plan. *)
LEMMA ExecutedSteps ==
    ASSUME IInv, NEW t \in Threads, call[t].pc = "compute"
    PROVE  /\ Executed(t) = {call[t].kernel.plan[j] : j \in 1..Done(t)}
           /\ HasUpdated(t) <=>
                 Executed(t) \cap {"inplace", "compute"} # {}
<1> DEFINE plan == call[t].kernel.plan
           m == Len(plan)
           n == Len(call[t].plan)
           d == m - n
           s == SubSeq(plan, 1, d)
<1>1. /\ plan \in Seq(Steps \cup Variables) /\ m \in Nat /\ n \in Nat
      /\ Done(t) = d /\ d >= 0
  <2>1. call[t].kernel \in Kernels /\ call[t] \in Calls
    BY DEF IInv, CallsInv, Active, TypeInv
  <2>2. plan \in Seq(Steps \cup Variables)
    BY <2>1, KernelShape DEF Shape, PlanOK
  <2>3. call[t].plan \in Seq(Steps \cup Variables)
    BY <2>1 DEF Calls
  <2>4. QED
    BY <2>2, <2>3, LenProperties DEF IInv, PlanInv, Done
<1>2. Executed(t) = ToSet(s)
  BY DEF Executed, Kernel
<1> HIDE DEF plan, m, n
<1>3. d \in Nat /\ d <= m
  BY <1>1
<1> HIDE DEF d
<1>4. \A j \in 1..d : plan[j] \in Steps \cup Variables
  BY <1>1, <1>3, ElementOfSeq DEF m
<1>5. /\ s \in Seq(Steps \cup Variables)
      /\ Len(s) = IF 1 <= d THEN d - 1 + 1 ELSE 0
      /\ \A j \in 1..(d - 1 + 1) : s[j] = plan[1 + j - 1]
  BY <1>3, <1>4, SubSeqProperties
<1>6. DOMAIN s = 1..d /\ \A j \in 1..d : s[j] = plan[j]
  BY <1>3, <1>5, LenProperties
<1>7. Executed(t) = {plan[j] : j \in 1..d}
  BY <1>2, <1>6 DEF ToSet
<1>8. HasUpdated(t) <=> \E j \in 1..d : plan[j] \in {"inplace", "compute"}
  BY <1>1 DEF HasUpdated, plan
<1>9. QED
  BY <1>1, <1>7, <1>8 DEF plan

(* A kernel that has worked in place has no other computation in its plan. *)
LEMMA InPlaceOnly ==
    ASSUME IInv, NEW t \in Threads, call[t].pc = "compute",
           "inplace" \in Executed(t),
           NEW k \in 1..Len(call[t].kernel.plan)
    PROVE  call[t].kernel.plan[k] # "compute"
<1> DEFINE plan == call[t].kernel.plan
           m == Len(plan)
<1>1. /\ Shape(call[t].kernel) /\ m \in Nat
      /\ Len(call[t].plan) \in Nat
  <2>1. call[t].kernel \in Kernels /\ call[t] \in Calls
    BY DEF IInv, CallsInv, Active, TypeInv
  <2>2. QED
    BY <2>1, KernelShape, LenProperties DEF Shape, PlanOK, Calls
<1>2. PICK j \in 1..Done(t) : plan[j] = "inplace"
  BY ExecutedSteps
<1>3. j \in 1..m
  BY <1>1 DEF Done
<1>4. plan[k] = "compute" => j = k
  BY <1>1, <1>2, <1>3 DEF Shape, PlanOK
<1>5. QED
  BY <1>2, <1>4

(* A kernel updates only once. *)
LEMMA UpdatesOnce ==
    ASSUME IInv, NEW t \in Threads, Computes(t),
           Head(call[t].plan) \in {"inplace", "compute"}
    PROVE  ~HasUpdated(t)
<1> DEFINE op == call[t].kernel
           d == Done(t)
           m == Len(op.plan)
           n == Len(call[t].plan)
<1>1. /\ call[t] \in Calls /\ Shape(op)
      /\ op.plan \in Seq(Steps \cup Variables)
  BY KernelShape DEF IInv, TypeInv, CallsInv, Computes, Active, Shape, PlanOK
<1>2. /\ call[t].plan \in Seq(Steps \cup Variables) /\ n \in Nat /\ n > 0
      /\ Head(call[t].plan) = call[t].plan[1] /\ m \in Nat /\ d = m - n
  <2>1. call[t].plan \in Seq(Steps \cup Variables)
    BY <1>1 DEF Calls
  <2>2. QED
    BY <1>1, <2>1, LenProperties, EmptySeq DEF Computes, Done
<1>3. d >= 0 /\ call[t].plan[1] = op.plan[d + 1]
  <2>1. d >= 0 /\ \A k \in 1..n : call[t].plan[k] = op.plan[d + k]
    BY DEF IInv, PlanInv, Computes
  <2>2. 1 \in 1..n
    BY <1>2
  <2>3. QED
    BY <2>1, <2>2
<1> HIDE DEF n, m, d
<1>4. d + 1 \in 1..m /\ \A j \in 1..d : j \in 1..m /\ j # d + 1
  BY <1>2, <1>3
<1>5. op.plan[d + 1] \in {"inplace", "compute"}
  BY <1>2, <1>3
<1>6. \A j \in 1..d : op.plan[j] \notin {"inplace", "compute"}
  BY <1>1, <1>4, <1>5 DEF Shape, PlanOK, m
<1>7. QED
  BY <1>6 DEF HasUpdated, d

(* Unlocking takes the call from the locks, or what its kernel's helper has. *)
LEMMA UnlockLocks ==
    ASSUME IInv, NEW t \in Threads, Unlock(t)
    PROVE  GivesUp(t)
<1>1. /\ readers \in [Variables -> SUBSET (Threads \cup {Helper})]
      /\ writers \in [Variables -> SUBSET Threads]
  BY DEF IInv, TypeInv
<1>2. /\ readers' = [v \in Variables |-> readers[v] \ HeldByHelper(t)]
      /\ writers' = [v \in Variables |-> writers[v] \ {t}]
  BY DEF Unlock
<1>3. \A u \in Threads \ {t} :
         u \in HeldByHelper(t) => call[u].op = cached.op
  BY NamesAssumption DEF HeldByHelper
<1>4. QED
  BY <1>1, <1>2, <1>3 DEF GivesUp

LEMMA SucceedsStep ==
    ASSUME IInv, NEW t \in Threads, Succeeds(t)
    PROVE  IInv'
<1>1. call[t].pc = "compute" /\ Unlock(t) /\ Return(t, "OK")
  BY DEF Succeeds, At
<1>2. QED
  BY <1>1, UnlockLocks, ReturnStep

LEMMA FailsStep ==
    ASSUME IInv, NEW t \in Threads, Fails(t)
    PROVE  IInv'
<1>1. call[t].pc = "compute" /\ Unlock(t) /\ Return(t, "error")
  BY DEF Fails, At, ReleaseOnError
<1>2. ~HasUpdated(t)
  <2>1. CASE Executed(t) \subseteq {"cache", "unlock"}
    BY <1>1, <2>1, ExecutedSteps
  <2>2. CASE /\ call[t].plan # <<>>
             /\ Head(call[t].plan) \in {"compute", "inplace"}
    BY <1>1, <2>2, UpdatesOnce DEF Computes
  <2>3. QED
    BY <2>1, <2>2 DEF Fails, CanFail
<1>3. QED
  BY <1>1, <1>2, UnlockLocks, ReturnStep

LEMMA FailsWithoutUnlockStep ==
    ASSUME IInv, NEW t \in Threads, FailsWithoutUnlock(t)
    PROVE  IInv'
<1>1. /\ call[t].pc = "compute" /\ Return(t, "error")
      /\ call[t].kernel \in GatherNdOps
      /\ readers' = [v \in Variables |->
                     IF t \in readers[v] THEN (readers[v] \ {t}) \cup {Helper}
                     ELSE readers[v]]
      /\ UNCHANGED writers
  BY DEF FailsWithoutUnlock, At, Kernel
<1>2. ~HasUpdated(t)
  BY <1>1, GatherUpdates
<1>3. /\ readers' \in [Variables -> SUBSET (Threads \cup {Helper})]
      /\ writers' \in [Variables -> SUBSET Threads]
  BY <1>1 DEF IInv, TypeInv
<1>4. \A v \in Variables :
         /\ readers'[v] # {} => readers[v] # {}
         /\ writers'[v] = writers[v]
         /\ \A u \in Threads \ {t} : u \in readers'[v] <=> u \in readers[v]
  BY <1>1, NamesAssumption
<1>5. GivesUp(t)
  BY <1>3, <1>4 DEF GivesUp
<1>6. QED
  BY <1>1, <1>2, <1>5, ReturnStep

-----------------------------------------------------------------------------
LEMMA AssignStep ==
    ASSUME IInv, NEW v \in Variables, AssignVariable(v)
    PROVE  IInv'
<1> USE DEF IInv
<1> DEFINE n == Len(contents)
<1>1. /\ readers[v] = {} /\ writers[v] = {}
      /\ contents' = Append(contents, {})
      /\ tensor' = [tensor EXCEPT ![v] = n + 1]
      /\ owner' = Append(owner, v)
      /\ UNCHANGED <<readers, writers, call, cached, ops, lost>>
  BY DEF AssignVariable
<1>2. /\ contents' \in Seq(SUBSET Nat) /\ Len(contents') = n + 1 /\ n \in Nat
      /\ \A i \in 1..n : contents'[i] = contents[i]
      /\ contents'[n + 1] = {}
  BY <1>1, AppendProperties, LenProperties DEF TypeInv
<1>3. /\ owner' \in Seq(Variables) /\ Len(owner') = n + 1
      /\ \A i \in 1..n : owner'[i] = owner[i]
      /\ owner'[n + 1] = v
  BY <1>1, AppendProperties DEF TypeInv
<1>4. /\ tensor \in [Variables -> 1..n] /\ tensor'[v] = n + 1
      /\ \A w \in Variables \ {v} : tensor'[w] = tensor[w]
      /\ tensor' \in [Variables -> 1..(n + 1)]
  <2>1. tensor \in [Variables -> 1..n]
    BY DEF TypeInv
  <2> HIDE DEF n
  <2>2. 1..n \subseteq 1..(n + 1) /\ n + 1 \in 1..(n + 1)
    BY <1>2
  <2>3. QED
    BY <1>1, <2>1, <2>2
<1> HIDE DEF n
<1>5. TypeInv'
  BY <1>1, <1>2, <1>3, <1>4 DEF TypeInv
<1>6. CallsInv' /\ MutexInv' /\ HelperInv' /\ HoldInv'
  <2>1. CallsInv' /\ MutexInv'
    BY <1>1 DEF CallsInv, Active, MutexInv
  <2>2. \A t \in Threads : /\ Shares(t)' <=> Shares(t)
                           /\ Active(t)' <=> Active(t)
    BY <1>1 DEF Shares, Done, Active
  <2>3. HelperInv'
    BY <1>1, <2>2 DEF HelperInv
  <2>4. ASSUME NEW t \in Threads, call[t].pc = "compute", ~call[t].hit,
               NEW w \in call[t].kernel.vars, ~call[t].kernel.early,
               call[t].bound[w] = tensor[w]
        PROVE  \/ call[t].bound[w] = tensor'[w]
               \/ Shares(t) /\ t \notin readers[w]
    <3>1. w \in Variables /\ Shape(call[t].kernel)
      BY <2>4, KernelShape DEF CallsInv, Active, Shape
    <3>2. CASE w # v
      BY <1>4, <2>4, <3>1, <3>2
    <3>3. CASE w = v
      <4>1. call[t].kernel.lock \in {"unique", "shared"}
        BY <2>4, <3>1 DEF Shape, Locks
      <4>2. t \in writers[w] \/ t \in readers[w] \/ Shares(t)
        BY <2>4, <4>1 DEF HoldInv
      <4>3. QED
        BY <1>1, <3>3, <4>2
    <3>4. QED
      BY <3>2, <3>3
  <2>5. ASSUME NEW t \in Threads, call[t].pc = "compute", ~call[t].hit,
               NEW w \in call[t].kernel.vars
        PROVE  /\ call[t].kernel.lock = "unique" => t \in writers[w]
               /\ call[t].kernel.lock = "shared" =>
                     t \in readers[w] \/ Shares(t)
               /\ ~call[t].kernel.early =>
                     \/ call[t].bound[w] = tensor'[w]
                     \/ Shares(t) /\ t \notin readers[w]
    BY <2>4, <2>5 DEF HoldInv
  <2>6. HoldInv'
    BY <1>1, <2>2, <2>5 DEF HoldInv
  <2>7. QED
    BY <2>1, <2>3, <2>6
<1>7. PlanInv'
  BY <1>1 DEF PlanInv, Done
<1>8. BoundInv'
  <2>1. \A w \in Variables : owner'[tensor'[w]] = w
    <3> TAKE w \in Variables
    <3>1. tensor[w] \in 1..n /\ owner[tensor[w]] = w
      BY <1>4 DEF BoundInv
    <3>2. CASE w = v
      BY <1>3, <1>4, <3>2
    <3>3. CASE w # v
      BY <1>3, <1>4, <3>1, <3>3
    <3>4. QED
      BY <3>2, <3>3
  <2>2. cached' = NotCached \/ cached'.tensor \in 1..Len(contents')
    BY <1>1, <1>2 DEF BoundInv, n
  <2>3. ASSUME NEW t \in Threads, HasBound(t), NEW w \in call[t].kernel.vars
        PROVE  /\ call[t].bound[w] \in 1..Len(contents')
               /\ ~call[t].hit => owner'[call[t].bound[w]] = w
    <3>1. /\ call[t].bound[w] \in 1..n
          /\ ~call[t].hit => owner[call[t].bound[w]] = w
      BY <2>3 DEF BoundInv, n
    <3>2. QED
      BY <1>2, <1>3, <3>1
  <2>4. call' = call /\ \A t \in Threads : HasBound(t)' <=> HasBound(t)
    BY <1>1 DEF HasBound
  <2>5. QED
    BY <2>1, <2>2, <2>3, <2>4 DEF BoundInv
<1>9. \A i, x : Overwritten(i, x)' <=> Overwritten(i, x)
  BY <1>1 DEF Overwritten
<1>10. BuffersInv'
  <2>1. ASSUME NEW u \in Threads, NEW b \in call[u].intermediate
        PROVE  Missing(u, b)' /\ Stale(u, b)'
    <3>1. Missing(u, b) /\ Stale(u, b) /\ b.tensor \in 1..n
      BY BufferFacts DEF n
    <3>2. contents'[b.tensor] = contents[b.tensor]
      BY <1>2, <3>1
    <3>3. \A x : MayOverwrite(call[u].op, x)' <=> MayOverwrite(call[u].op, x)
      BY <1>1 DEF MayOverwrite
    <3>4. QED
      BY <1>1, <1>9, <3>1, <3>2, <3>3 DEF Missing, Stale
  <2>2. QED
    BY <1>1, <2>1 DEF BuffersInv
<1>11. \A i \in 1..(n + 1) : \A x \in contents'[i] :
          i \in 1..n /\ x \in contents[i]
  BY <1>2
<1>12. UpdatesInv'
  <2>1. \A x : Good(x)' <=> Good(x)
    BY <1>1 DEF Good
  <2>2. QED
    BY <1>1, <1>2, <1>11, <2>1 DEF UpdatesInv, n
<1>13. EffectInv'
  <2>1. ASSUME NEW u \in Threads
        PROVE  /\ Active(u)' /\ ~HasUpdated(u)' => Fresh(call[u].op)'
               /\ HasUpdated(u)' => \A w \in call'[u].kernel.vars :
                     EffectOn(u, w)'
    <3>1. (Active(u)' <=> Active(u)) /\ (HasUpdated(u)' <=> HasUpdated(u))
      BY <1>1 DEF Active, HasUpdated, Done
    <3>2. Fresh(call[u].op) => Fresh(call[u].op)'
      BY <1>1, <1>2, <1>11 DEF Fresh, n
    <3>3. ASSUME HasUpdated(u), NEW w \in call[u].kernel.vars
          PROVE  EffectOn(u, w)'
      <4>1. EffectOn(u, w)
        BY <3>3 DEF EffectInv
      <4>2. call[u].bound[w] \in 1..n
        BY <3>3 DEF BoundInv, HasBound, HasUpdated, n
      <4>3. contents'[call[u].bound[w]] = contents[call[u].bound[w]]
        BY <1>2, <4>2
      <4>4. QED
        BY <1>1, <4>1, <4>3 DEF EffectOn, Overwritten, NoResult
    <3>4. QED
      BY <1>1, <3>1, <3>2, <3>3 DEF EffectInv
  <2>2. QED
    BY <2>1 DEF EffectInv
<1>14. QED
  BY <1>5, <1>6, <1>7, <1>8, <1>10, <1>12, <1>13

-----------------------------------------------------------------------------
LEMMA SubmitStep ==
    ASSUME IInv, NEW t \in Threads, Submit(t)
    PROVE  /\ IInv'
           /\ \A l \in lost' \ lost :
                 \/ Overwritten(l.tensor, l.update)
                 \/ MayOverwrite(l.by, l.update)
<1> DEFINE step == Head(call[t].plan)
<1>1. Computes(t) /\ UNCHANGED <<tensor, owner, ops>>
  BY DEF Submit, Computes, At
<1>2. CASE step = "read" /\ Read(t)
  BY <1>1, <1>2, ReadStep DEF Read
<1>3. CASE step = "inplace" /\ UpdateInPlace(t)
  BY <1>1, <1>3, InPlaceStep DEF UpdateInPlace
<1>4. CASE step = "compute" /\ Compute(t)
  BY <1>1, <1>4, ComputeStep DEF Compute
<1>5. CASE step \in Variables /\ CopyBack(t, step)
  <2>1. /\ Advance(t, call[t].intermediate)
        /\ UNCHANGED <<readers, writers, cached>>
    BY <1>5 DEF CopyBack
  <2>2. CASE \E buffer \in call[t].intermediate :
                buffer.tensor = call[t].bound[step] /\ CopyFrom(t, buffer)
    BY <1>1, <1>5, <2>1, <2>2, CopyBackStep
  <2>3. CASE /\ \A buffer \in call[t].intermediate :
                   buffer.tensor # call[t].bound[step]
             /\ UNCHANGED <<contents, lost>>
    BY <1>1, <1>5, <2>1, <2>3, EmptyCopyStep
  <2>4. QED
    BY <1>5, <2>2, <2>3 DEF CopyBack
<1>6. CASE step = "unlock" /\ UnlockEarly(t)
  BY <1>1, <1>6, UnlockStep DEF UnlockEarly
<1>7. CASE step = "cache" /\ CacheKernel(t)
  BY <1>1, <1>7, CacheStep DEF CacheKernel
<1>8. QED
  BY <1>2, <1>3, <1>4, <1>5, <1>6, <1>7 DEF Submit

LEMMA StutterStep ==
    ASSUME IInv, UNCHANGED vars
    PROVE  IInv'
<1> USE DEF IInv, vars
<1>1. TypeInv' /\ CallsInv' /\ HelperInv' /\ MutexInv' /\ HoldInv'
  <2>1. TypeInv'
    BY DEF TypeInv
  <2>2. CallsInv'
    BY DEF CallsInv, Active
  <2>3. MutexInv' /\ HoldInv'
    BY DEF MutexInv, HoldInv, Shares, Done
  <2>4. HelperInv'
    BY DEF HelperInv, Shares, Done, Active
  <2>5. QED
    BY <2>1, <2>2, <2>3, <2>4
<1>2. PlanInv' /\ BoundInv'
  BY DEF PlanInv, Done, BoundInv, HasBound
<1>3. call' \in [Threads -> Calls] /\ \A u \in Threads : call'[u] = call[u]
  BY DEF TypeInv
<1>4. BuffersInv' /\ UpdatesInv' /\ EffectInv'
  BY <1>3, QuietStep
<1>5. QED
  BY <1>1, <1>2, <1>4

(* Each step keeps the invariant, and loses only updates that may be lost. *)
LEMMA NextIInv ==
    ASSUME IInv, [Next]_vars
    PROVE  /\ IInv'
           /\ \A l \in lost' \ lost :
                 \/ Overwritten(l.tensor, l.update)
                 \/ MayOverwrite(l.by, l.update)
<1>1. CASE UNCHANGED vars
  BY <1>1, StutterStep DEF vars
<1>2. ASSUME NEW t \in Threads, NEW op \in Kernels, Start(t, op)
      PROVE  IInv' /\ lost' = lost
  BY <1>2, StartStep DEF Start
<1>3. ASSUME NEW t \in Threads, NEW op \in GatherNdOps, StartCached(t, op)
      PROVE  IInv' /\ lost' = lost
  BY <1>3, StartCachedStep DEF StartCached
<1>4. ASSUME NEW t \in Threads, Lock(t)
      PROVE  IInv' /\ lost' = lost
  BY <1>4, LockStep DEF Lock
<1>5. ASSUME NEW t \in Threads, Succeeds(t)
      PROVE  IInv' /\ lost' = lost
  BY <1>5, SucceedsStep DEF Succeeds, Return
<1>6. ASSUME NEW t \in Threads, Fails(t)
      PROVE  IInv' /\ lost' = lost
  BY <1>6, FailsStep DEF Fails, Return
<1>7. ASSUME NEW t \in Threads, FailsWithoutUnlock(t)
      PROVE  IInv' /\ lost' = lost
  BY <1>7, FailsWithoutUnlockStep DEF FailsWithoutUnlock, Return
<1>8. ASSUME NEW v \in Variables, AssignVariable(v)
      PROVE  IInv' /\ lost' = lost
  BY <1>8, AssignStep DEF AssignVariable
<1>9. ASSUME Evict
      PROVE  IInv' /\ lost' = lost
  BY <1>9, EvictStep DEF Evict
<1>10. QED
  BY <1>1, <1>2, <1>3, <1>4, <1>5, <1>6, <1>7, <1>8, <1>9, SubmitStep
  DEF Next, Continue, Kernels

(* The inductive invariant holds in every reachable state. *)
THEOREM Invariance == Spec => []IInv
<1>1. Init => IInv
  BY InitIInv
<1>2. IInv /\ [Next]_vars => IInv'
  BY NextIInv
<1>3. QED
  BY <1>1, <1>2, PTL DEF Spec

(* An operation that looks up its tensors under the lock works on the        *)
(* current tensors of its variables, whatever other threads assign, unless   *)
(* it put its kernel in the cache and a hit has released its lock.           *)
THEOREM LockedTensors == Spec => []LockedTensorsAreCurrent
<1>1. IInv => LockedTensorsAreCurrent
  <2> SUFFICES ASSUME IInv PROVE LockedTensorsAreCurrent
    OBVIOUS
  <2> USE DEF IInv
  <2>1. DOMAIN contents = 1..Len(contents) /\ DOMAIN ops = 1..Len(ops)
    BY LenProperties DEF TypeInv
  <2>2. \A i \in DOMAIN contents : contents[i] \subseteq DOMAIN ops
    BY <2>1 DEF UpdatesInv, Good
  <2>3. \A t \in Threads : /\ call[t].pc \in {"idle", "lock", "compute"}
                           /\ At(t, "idle") \/ call[t].op \in DOMAIN ops
    BY <2>1 DEF TypeInv, Calls, CallsInv, Active, At
  <2>4. cached.tensor \in {0} \cup DOMAIN contents
    BY <2>1 DEF BoundInv, NotCached
  <2>5. TypeOK
    BY <2>1, <2>2, <2>3, <2>4 DEF TypeInv, BoundInv, TypeOK
  <2>6. ASSUME NEW t \in Threads, At(t, "compute"), ~Kernel(t).early,
               ~call[t].hit, NEW v \in Kernel(t).vars
        PROVE  call[t].bound[v] = tensor[v] \/ ReleasedByHit(t, v)
    <3>1. \/ call[t].bound[v] = tensor[v]
          \/ Shares(t) /\ t \notin readers[v]
      BY <2>6 DEF HoldInv, At, Kernel
    <3>2. Shares(t) => "cache" \in Executed(t)
      <4> HAVE Shares(t)
      <4>1. Executed(t) = {call[t].kernel.plan[j] : j \in 1..Done(t)}
        BY <2>6, ExecutedSteps DEF At
      <4>2. call[t].kernel.plan[1] = "cache"
        BY GatherShape DEF Shares
      <4>3. 1 \in 1..Done(t)
        <5>1. Len(call[t].plan) \in Nat /\ Len(call[t].kernel.plan) = 2
          BY LenProperties, GatherShape DEF TypeInv, Calls, Shares
        <5>2. QED
          BY <5>1 DEF Shares, Done
      <4>4. QED
        BY <4>1, <4>2, <4>3
    <3>3. QED
      BY <3>1, <3>2 DEF ReleasedByHit
  <2>7. QED
    BY <2>5, <2>6 DEF LockedTensorsAreCurrent
<1>2. QED
  BY <1>1, Invariance, PTL

(* The first loss of an update never involves only locks of which one is     *)
(* unique: the invariant says so of the results that are not written back.   *)
THEOREM UpdatesKept == Spec => UniqueUpdatesAreKept
<1>1. IInv /\ [Next]_vars =>
       [\A l \in lost' \ lost :
          Overwritten(l.tensor, l.update) \/ MayOverwrite(l.by, l.update)]_vars
  BY NextIInv
<1>2. QED
  BY <1>1, Invariance, PTL DEF Spec, UniqueUpdatesAreKept

(* Operations that fail have updated nothing, and the others have updated    *)
(* each tensor that they have a result for, in place or in a buffer.         *)
THEOREM Atomicity == Spec => []UpdatesMatchResults
<1>1. IInv => UpdatesMatchResults
  <2> SUFFICES ASSUME IInv PROVE UpdatesMatchResults
    OBVIOUS
  <2>1. DOMAIN contents = 1..Len(contents)
    BY LenProperties DEF IInv, TypeInv
  <2>2. \A i \in DOMAIN contents : \A u \in contents[i] :
           ops[u].result # "error"
    BY <2>1 DEF IInv, UpdatesInv, Good
  <2>3. ASSUME NEW t \in Threads, At(t, "compute"), call[t].plan = <<>>,
               NEW i \in Computed(t)
        PROVE  call[t].op \in contents[i] \/ Overwritten(i, call[t].op)
    <3>1. Len(call[t].plan) = 0
      BY <2>3, EmptySeq
    <3>2. CASE \E b \in call[t].intermediate : i = b.tensor
      <4>1. PICK b \in call[t].intermediate : i = b.tensor
        BY <3>2
      <4>2. /\ call[t].op \in b.value /\ Active(t)
            /\ \E w \in call[t].kernel.vars : b.tensor = call[t].bound[w]
        BY <4>1, BufferFacts
      <4>3. HasUpdated(t)
        BY <4>1, <4>2 DEF IInv, EffectInv, Fresh
      <4>4. PICK v \in call[t].kernel.vars : i = call[t].bound[v]
        BY <4>1, <4>2
      <4>5. EffectOn(t, v) /\ ~NoResult(t, v)
        BY <4>1, <4>3, <4>4 DEF IInv, EffectInv, NoResult
      <4>6. QED
        BY <3>1, <4>4, <4>5 DEF EffectOn
    <3>3. CASE i \in Bound(t) /\ "inplace" \in Executed(t)
      <4>1. HasUpdated(t)
        BY <2>3, <3>3, ExecutedSteps DEF At
      <4>2. PICK v \in call[t].kernel.vars : i = call[t].bound[v]
        BY <3>3 DEF Bound, Kernel
      <4>3. ~NoResult(t, v)
        BY <2>3, <3>3, InPlaceOnly DEF At, NoResult
      <4>4. EffectOn(t, v)
        BY <4>1 DEF IInv, EffectInv
      <4>5. QED
        BY <3>1, <4>2, <4>3, <4>4 DEF EffectOn
    <3>4. QED
      BY <2>3, <3>2, <3>3 DEF Computed
  <2>4. QED
    BY <2>2, <2>3 DEF UpdatesMatchResults
<1>2. QED
  BY <1>1, Invariance, PTL

=============================================================================

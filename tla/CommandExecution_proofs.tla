----------------------- MODULE CommandExecution_proofs -----------------------
(***************************************************************************)
(* Proofs about the way of a command to the GPU.                           *)
(*                                                                         *)
(* ExecutionContext, for every set of callers, every batch size and any    *)
(* number of commands: its inductive invariant IInv says that the executed *)
(* commands, the lists in flight, the batch taken by the thread and the    *)
(* write batch are consecutive pieces of the sequence of commands issued,  *)
(* each with its fence value.                                              *)
(*                                                                         *)
(* CommandList, for every number of command allocators, every capacity of  *)
(* the descriptor heaps, and any number of lists and commands: its         *)
(* inductive invariant ListInv says which fence covers each allocator and  *)
(* which descriptors are taken.                                            *)
(***************************************************************************)
EXTENDS ExecutionContext, CommandList, SequenceTheorems,
        WellFoundedInduction, TLAPS

-----------------------------------------------------------------------------
(* ExecutionContext *)

USE BatchFlushSizeAssumption, MaxCommandsAssumption

(* The invariant holds when the context has been constructed. *)
LEMMA InitIInv == Init => IInv
<1> SUFFICES ASSUME Init PROVE IInv
  OBVIOUS
<1> USE DEF Init, QueueInit, GetCurrentCompletionEvent
<1>1. TypeOK
  <2>1. /\ exit_requested \in BOOLEAN /\ flush_requested \in BOOLEAN
        /\ elapsed \in BOOLEAN /\ timer_expired \in BOOLEAN
    BY Zenon
  <2>2. sync \in [Callers -> [waiting : BOOLEAN, event : Nat, point : Nat]]
    OBVIOUS
  <2>3. QED
    BY <2>1, <2>2 DEF TypeOK
<1>2. FencesInv
  BY DEF FencesInv, Taken
<1>3. BatchesInv
  BY DEF BatchesInv, Taken, Held
<1>4. RecordedInv
  BY DEF RecordedInv
<1>5. OrderInv
  BY DEF OrderInv, LastQueued, LastTaken, LastOf, Held, Taken, WriteBatch
<1>6. EventsInv
  BY DEF EventsInv, LastQueued, LastTaken, LastOf, Held, Taken, WriteBatch,
         LastEvent
<1>7. SyncInv
  BY DEF SyncInv
<1>8. QED
  BY <1>1, <1>2, <1>3, <1>4, <1>5, <1>6, <1>7 DEF IInv

-----------------------------------------------------------------------------
(* The types of the derived pieces. *)
LEMMA PieceTypes ==
    ASSUME TypeOK
    PROVE  /\ next_flush_event \in Nat
           /\ last_fence_value \in Nat
           /\ completed \in Nat
           /\ Len(in_flight) \in Nat
           /\ issued \in Seq(Nat)
           /\ Len(issued) \in Nat
           /\ \A i \in 1..Len(issued) : issued[i] \in Nat
           /\ WriteBatch \in Seq(Nat)
           /\ Held \in Seq(Nat)
           /\ LastTaken \in Int
           /\ LastQueued \in Int
           /\ LastQueued <= LastTaken
           /\ LastTaken <= Len(issued)
<1>1. WriteBatch \in Seq(Nat) /\ Held \in Seq(Nat)
  BY DEF TypeOK, WriteBatch, Held
<1>2. /\ next_flush_event \in Nat /\ last_fence_value \in Nat
      /\ completed \in Nat /\ Len(in_flight) \in Nat
      /\ issued \in Seq(Nat) /\ Len(issued) \in Nat
      /\ \A i \in 1..Len(issued) : issued[i] \in Nat
  BY DEF TypeOK
<1>3. QED
  BY <1>1, <1>2 DEF LastTaken, LastQueued

(* A step that leaves the queue, the batches and the issued commands alone,  *)
(* and does not change whether or which batch is taken, keeps the pieces.    *)
LEMMA PiecesUnchanged ==
    ASSUME IInv,
           UNCHANGED <<queueVars, batches, write_batch_index,
                       next_flush_event, issued>>,
           Taken' = Taken,
           Held' = Held
    PROVE  FencesInv' /\ OrderInv' /\ EventsInv'
<1> USE DEF IInv, queueVars
<1>1. FencesInv'
  BY DEF FencesInv
<1>2. /\ LastTaken' = LastTaken
      /\ LastQueued' = LastQueued
      /\ WriteBatch' = WriteBatch
  BY DEF LastTaken, LastQueued, WriteBatch
<1>3. \A k : LastOf(k)' = LastOf(k)
  BY DEF LastOf
<1>4. OrderInv'
  BY <1>2, <1>3 DEF OrderInv
<1>5. EventsInv'
  BY <1>2, <1>3 DEF EventsInv, LastEvent
<1>6. QED
  BY <1>1, <1>4, <1>5

-----------------------------------------------------------------------------
(* Every step keeps the types. *)
LEMMA TypeStep == TypeOK /\ FencesInv /\ [Next]_vars => TypeOK'
<1> SUFFICES ASSUME TypeOK, FencesInv, [Next]_vars PROVE TypeOK'
  OBVIOUS
<1> USE DEF queueVars, batchVars, threadVars
<1>1. CASE Submit
  <2>1. Append(batches[write_batch_index], Len(issued) + 1) \in Seq(Nat)
    BY DEF TypeOK
  <2>2. batches' \in [0..1 -> Seq(Nat)]
    BY <1>1, <2>1 DEF Submit, TypeOK
  <2>3. issued' \in Seq(Nat)
    BY <1>1 DEF Submit, TypeOK
  <2>4. QED
    BY <1>1, <2>2, <2>3 DEF Submit, NotifyAll, TypeOK
<1>2. ASSUME NEW c \in Callers, Flush(c) PROVE TypeOK'
  <2>1. CompletionEvent \in Nat
    BY DEF CompletionEvent, FencesInv, TypeOK
  <2>2. flush_requested' \in BOOLEAN
    BY <1>2, Zenon DEF Flush
  <2>3. QED
    BY <1>2, <2>1, <2>2 DEF Flush, NotifyAll, TypeOK
<1>3. ASSUME NEW c \in Callers, SyncReturns(c) PROVE TypeOK'
  BY <1>3 DEF SyncReturns, TypeOK
<1>4. CASE Destroy
  <2>1. exit_requested' \in BOOLEAN
    BY <1>4, Zenon DEF Destroy
  <2>2. QED
    BY <1>4, <2>1 DEF Destroy, NotifyAll, TypeOK
<1>5. CASE ThreadReadsClock
  BY <1>5 DEF ThreadReadsClock, TypeOK
<1>6. CASE ThreadExits \/ ThreadWaits \/ SpuriousWakeup \/ ThreadCloses
           \/ ThreadClosesOutOfMemory \/ ThreadReportsFailure
  BY <1>6 DEF ThreadExits, ThreadWaits, SpuriousWakeup, ThreadCloses,
              ThreadClosesOutOfMemory, ThreadReportsFailure, TypeOK
<1>7. CASE ThreadSkips
  <2>1. flush_requested' \in BOOLEAN
    BY <1>7, Zenon DEF ThreadSkips
  <2>2. QED
    BY <1>7, <2>1 DEF ThreadSkips, TypeOK
<1>8. CASE ThreadSwaps
  <2>1. flush_requested' \in BOOLEAN
    BY <1>8, Zenon DEF ThreadSwaps
  <2>2. QED
    BY <1>8, <2>1 DEF ThreadSwaps, SwapBatches, TypeOK
<1>9. CASE ThreadOpens
  BY <1>9 DEF ThreadOpens, TypeOK
<1>10. CASE ThreadRecords
  <2>1. batches[exec_batch][Len(recorded) + 1] \in Nat
    BY <1>10 DEF ThreadRecords, TypeOK
  <2>2. recorded' \in Seq(Nat)
    BY <1>10, <2>1 DEF ThreadRecords, TypeOK
  <2>3. QED
    BY <1>10, <2>2 DEF ThreadRecords, TypeOK
<1>11. CASE ThreadExecutes
  <2>1. [commands |-> recorded, signal |-> last_fence_value + 1]
            \in [commands : Seq(Nat), signal : Nat]
    BY DEF TypeOK
  <2>2. in_flight' \in Seq([commands : Seq(Nat), signal : Nat])
    BY <1>11, <2>1 DEF ThreadExecutes, ExecuteCommandLists, TypeOK
  <2>3. QED
    BY <1>11, <2>2 DEF ThreadExecutes, ExecuteCommandLists, TypeOK
<1>12. CASE ThreadClears
  <2>1. timer_expired' \in BOOLEAN
    BY <1>12, Zenon DEF ThreadClears
  <2>2. QED
    BY <1>12, <2>1 DEF ThreadClears, TypeOK
<1>13. CASE TimePasses
  <2>1. timer_expired' \in BOOLEAN
    BY <1>13, Zenon DEF TimePasses
  <2>2. QED
    BY <1>13, <2>1 DEF TimePasses, TypeOK
<1>14. CASE GpuStep
  <2>1. Head(in_flight) \in [commands : Seq(Nat), signal : Nat]
    BY <1>14, HeadTailProperties DEF GpuStep, GpuCompletes, TypeOK
  <2>2. in_flight' \in Seq([commands : Seq(Nat), signal : Nat])
    BY <1>14, HeadTailProperties DEF GpuStep, GpuCompletes, TypeOK
  <2>3. executed' \in Seq(Nat)
    BY <1>14, <2>1, ConcatProperties DEF GpuStep, GpuCompletes, TypeOK
  <2>4. QED
    BY <1>14, <2>1, <2>2, <2>3 DEF GpuStep, GpuCompletes, TypeOK
<1>15. CASE UNCHANGED vars
  BY <1>15 DEF vars, TypeOK
<1>16. QED
  BY <1>1, <1>2, <1>3, <1>4, <1>5, <1>6, <1>7, <1>8, <1>9, <1>10, <1>11,
     <1>12, <1>13, <1>14, <1>15 DEF Next, ThreadStep

-----------------------------------------------------------------------------
(* A call of Submit extends the write batch with a command whose event is    *)
(* the next flush.                                                           *)
LEMMA SubmitStep == IInv /\ Submit /\ TypeOK' => IInv'
<1>s. SUFFICES ASSUME IInv, Submit, TypeOK' PROVE IInv'
  OBVIOUS
<1> USE DEF queueVars
<1>0. TypeOK /\ FencesInv /\ BatchesInv /\ RecordedInv /\ OrderInv
      /\ EventsInv /\ SyncInv
  BY <1>s DEF IInv
<1>1. Taken' = Taken /\ Held' = Held
  <2>1. Taken' = Taken
    BY <1>s, <1>0 DEF Submit, NotifyAll, Taken, TypeOK
  <2>2. CASE Taken
    BY <1>s, <1>0, <2>1, <2>2 DEF Submit, Held, BatchesInv, TypeOK
  <2>3. CASE ~Taken
    BY <2>1, <2>3 DEF Held
  <2>4. QED
    BY <2>1, <2>2, <2>3
<1>2. /\ Len(issued') = Len(issued) + 1
      /\ \A i \in 1..Len(issued) : issued'[i] = issued[i]
      /\ issued'[Len(issued) + 1] = next_flush_event
  BY <1>s, <1>0 DEF Submit, TypeOK
<1>3. /\ Len(WriteBatch') = Len(WriteBatch) + 1
      /\ \A i \in 1..Len(WriteBatch) : WriteBatch'[i] = WriteBatch[i]
      /\ WriteBatch'[Len(WriteBatch) + 1] = Len(issued) + 1
  <2>1. WriteBatch \in Seq(Nat) /\ Len(issued) + 1 \in Nat
    BY <1>0 DEF WriteBatch, TypeOK
  <2>2. WriteBatch' = Append(WriteBatch, Len(issued) + 1)
    BY <1>s, <1>0 DEF Submit, WriteBatch, TypeOK
  <2>3. QED
    BY <2>1, <2>2
<1>4. LastTaken' = LastTaken /\ LastQueued' = LastQueued
  BY <1>0, <1>1, <1>2, <1>3 DEF LastTaken, LastQueued, TypeOK, WriteBatch
<1>5. /\ in_flight' = in_flight
      /\ \A k : LastOf(k)' = LastOf(k)
  BY <1>s DEF Submit, LastOf
<1>6. FencesInv'
  BY <1>s, <1>0, <1>1 DEF FencesInv, Submit
<1>7. BatchesInv'
  BY <1>s, <1>0, <1>1 DEF BatchesInv, Submit, NotifyAll, TypeOK
<1>8. RecordedInv'
  BY <1>s, <1>0, <1>1 DEF RecordedInv, Submit, NotifyAll
<1>9. OrderInv'
  <2>1. LastQueued' \in Nat /\ LastOf(Len(in_flight))' = LastQueued'
    BY <1>0, <1>4, <1>5 DEF OrderInv
  <2>2. \A i \in 1..Len(executed') : executed'[i] = i
    BY <1>s, <1>0 DEF OrderInv, Submit
  <2>3. \A k \in 0..Len(in_flight') : LastOf(k)' \in 0..LastQueued'
    BY <1>0, <1>4, <1>5 DEF OrderInv
  <2>4. \A k \in 1..Len(in_flight') :
          /\ in_flight'[k].commands # << >>
          /\ \A i \in 1..Len(in_flight'[k].commands) :
                in_flight'[k].commands[i] = LastOf(k - 1)' + i
    BY <1>0, <1>5 DEF OrderInv
  <2>5. \A i \in 1..Len(Held') : Held'[i] = LastQueued' + i
    BY <1>0, <1>1, <1>4 DEF OrderInv
  <2>6. \A i \in 1..Len(WriteBatch') : WriteBatch'[i] = LastTaken' + i
    <3>1. WriteBatch \in Seq(Nat) /\ issued \in Seq(Nat)
      BY <1>0 DEF WriteBatch, TypeOK
    <3>2. Len(issued) + 1 = LastTaken + (Len(WriteBatch) + 1)
      BY <3>1 DEF LastTaken
    <3>3. QED
      <4> SUFFICES ASSUME NEW i \in 1..Len(WriteBatch')
                   PROVE  WriteBatch'[i] = LastTaken + i
        BY <1>4
      <4>1. CASE i \in 1..Len(WriteBatch)
        BY <1>0, <1>3, <4>1 DEF OrderInv
      <4>2. CASE i = Len(WriteBatch) + 1
        BY <1>3, <3>2, <4>2
      <4>3. QED
        BY <1>3, <3>1, <4>1, <4>2
  <2>7. QED
    BY <2>1, <2>2, <2>3, <2>4, <2>5, <2>6 DEF OrderInv
<1>10. EventsInv'
  <2>1. LastTaken <= Len(issued) /\ LastTaken \in Int /\ Len(issued) \in Nat
    BY <1>0 DEF LastTaken, TypeOK, WriteBatch
  <2>2. \A k \in 0..Len(in_flight) : LastOf(k) \in 0..LastQueued
    BY <1>0 DEF OrderInv
  <2>3. LastQueued \in Nat /\ LastQueued <= LastTaken
    BY <1>0 DEF LastQueued, LastTaken, OrderInv, Held, WriteBatch, TypeOK
  <2>4. ASSUME NEW k \in 0..Len(in_flight), NEW i \in 1..Len(issued')
        PROVE  issued'[i] <= completed + k <=> i <= LastOf(k)
    <3>1. CASE i <= Len(issued)
      BY <1>0, <1>2, <2>1, <3>1 DEF EventsInv
    <3>2. CASE i = Len(issued) + 1
      <4>1. i > LastOf(k)
        BY <2>1, <2>2, <2>3, <3>2
      <4>2. next_flush_event > completed + k
        BY <1>0 DEF FencesInv, TypeOK
      <4>3. QED
        BY <1>0, <1>2, <3>2, <4>1, <4>2, <2>2 DEF TypeOK
    <3>3. QED
      BY <1>2, <2>1, <3>1, <3>2
  <2>5. ASSUME NEW i \in 1..Len(issued')
        PROVE  /\ i > LastQueued /\ i <= LastTaken
                     => issued'[i] = last_fence_value + 1
               /\ i > LastTaken => issued'[i] = next_flush_event
    BY <1>0, <1>2, <2>1, <2>3 DEF EventsInv
  <2>6. next_flush_event' <= LastEvent' + 1
    <3>1. issued' # << >> /\ LastEvent' = next_flush_event
      BY <1>0, <1>2 DEF LastEvent, TypeOK
    <3>2. next_flush_event' = next_flush_event /\ next_flush_event \in Nat
      BY <1>s, <1>0 DEF Submit, TypeOK
    <3>3. QED
      BY <3>1, <3>2
  <2>7. QED
    BY <1>s, <1>0, <1>2, <1>4, <1>5, <2>4, <2>5, <2>6 DEF EventsInv, Submit
<1>11. SyncInv'
  <2> SUFFICES ASSUME NEW c \in Callers
               PROVE  /\ sync[c].point <= Len(issued')
                      /\ \A i \in 1..sync[c].point :
                            issued'[i] <= sync[c].event
    BY <1>s DEF SyncInv, Submit
  <2>1. sync[c].point \in Nat /\ Len(issued) \in Nat
    BY <1>0 DEF TypeOK
  <2>2. QED
    BY <1>0, <1>2, <2>1 DEF SyncInv
<1>12. QED
  BY <1>s, <1>6, <1>7, <1>8, <1>9, <1>10, <1>11 DEF IInv

-----------------------------------------------------------------------------
(* The event that Flush returns is not older than any event handed out. *)
LEMMA CompletionEventCovers ==
    ASSUME IInv
    PROVE  \A i \in 1..Len(issued) : issued[i] <= CompletionEvent
<1> SUFFICES ASSUME NEW i \in 1..Len(issued)
             PROVE  issued[i] <= CompletionEvent
  OBVIOUS
<1>0. TypeOK /\ FencesInv /\ OrderInv /\ EventsInv
  BY DEF IInv
<1>1. /\ issued[i] \in Nat /\ next_flush_event \in Nat
      /\ last_fence_value \in Nat /\ completed \in Nat
      /\ Len(in_flight) \in Nat /\ Len(issued) \in Nat
      /\ WriteBatch \in Seq(Nat) /\ Held \in Seq(Nat)
  BY <1>0, PieceTypes
<1>2. /\ LastTaken = Len(issued) - Len(WriteBatch)
      /\ LastQueued = LastTaken - Len(Held)
      /\ Held # << >> => Taken
  BY DEF LastTaken, LastQueued, Held
<1>3. /\ LastOf(Len(in_flight)) = LastQueued
      /\ last_fence_value = completed + Len(in_flight)
      /\ next_flush_event = last_fence_value + (IF Taken THEN 2 ELSE 1)
  BY <1>0 DEF OrderInv, FencesInv
<1>4. CASE i <= LastQueued
  <2>1. issued[i] <= last_fence_value
    <3>1. Len(in_flight) \in 0..Len(in_flight)
      BY <1>1
    <3>2. issued[i] <= completed + Len(in_flight)
             <=> i <= LastOf(Len(in_flight))
      BY <1>0, <3>1 DEF EventsInv
    <3>3. QED
      BY <3>2, <1>3, <1>4
  <2>2. QED
    BY <1>1, <1>3, <2>1 DEF CompletionEvent
<1>5. CASE i > LastQueued /\ i <= LastTaken
  <2>1. issued[i] = last_fence_value + 1
    BY <1>0, <1>5 DEF EventsInv
  <2>2. Held # << >>
    BY <1>1, <1>2, <1>5
  <2>3. QED
    BY <1>1, <1>2, <1>3, <2>1, <2>2 DEF CompletionEvent
<1>6. CASE i > LastTaken
  <2>1. issued[i] = next_flush_event
    BY <1>0, <1>6 DEF EventsInv
  <2>2. WriteBatch # << >>
    BY <1>1, <1>2, <1>6
  <2>3. QED
    BY <1>1, <2>1, <2>2 DEF CompletionEvent
<1>7. QED
  BY <1>1, <1>2, <1>4, <1>5, <1>6

-----------------------------------------------------------------------------
(* Sync calls only touch the callers' own state and the flush flag. *)
LEMMA SyncStep ==
    ASSUME NEW c \in Callers, IInv, Flush(c) \/ SyncReturns(c), TypeOK'
    PROVE  IInv'
<1> USE DEF queueVars, batchVars, threadVars
<1>0. TypeOK /\ FencesInv /\ BatchesInv /\ RecordedInv /\ OrderInv
      /\ EventsInv /\ SyncInv
  BY DEF IInv
<1>1. Taken' = Taken /\ Held' = Held
  BY DEF Flush, SyncReturns, NotifyAll, Taken, Held
<1>2. FencesInv' /\ OrderInv' /\ EventsInv'
  <2>1. UNCHANGED <<queueVars, batches, write_batch_index, next_flush_event,
                    issued>>
    BY DEF Flush, SyncReturns
  <2>2. QED
    BY <1>1, <2>1, PiecesUnchanged
<1>3. BatchesInv'
  BY <1>0, <1>1 DEF BatchesInv, Flush, SyncReturns, NotifyAll
<1>4. RecordedInv'
  BY <1>0, <1>1 DEF RecordedInv, Flush, SyncReturns, NotifyAll
<1>5. SyncInv'
  <2>1. issued' = issued /\ \A d \in Callers : d # c => sync'[d] = sync[d]
    BY <1>0 DEF Flush, SyncReturns, TypeOK
  <2>2. /\ sync'[c].point <= Len(issued)
        /\ \A i \in 1..sync'[c].point : issued[i] <= sync'[c].event
    <3>1. CASE SyncReturns(c)
      <4>1. sync'[c].point = sync[c].point /\ sync'[c].event = sync[c].event
        BY <1>0, <3>1 DEF SyncReturns, TypeOK
      <4>2. QED
        BY <1>0, <4>1 DEF SyncInv
    <3>2. CASE Flush(c)
      <4>1. /\ sync'[c].point = Len(issued)
            /\ sync'[c].event = CompletionEvent
        BY <1>0, <3>2 DEF Flush, TypeOK
      <4>2. \A i \in 1..Len(issued) : issued[i] <= CompletionEvent
        BY CompletionEventCovers
      <4>3. QED
        BY <1>0, <4>1, <4>2 DEF TypeOK
    <3>3. QED
      BY <3>1, <3>2
  <2>3. QED
    BY <1>0, <2>1, <2>2 DEF SyncInv
<1>6. QED
  BY <1>2, <1>3, <1>4, <1>5 DEF IInv

-----------------------------------------------------------------------------
(* Steps that move no command from one piece to the next. *)
QuietStep ==
    \/ Destroy \/ ThreadReadsClock \/ ThreadExits \/ ThreadWaits
    \/ SpuriousWakeup \/ ThreadSkips \/ ThreadOpens \/ ThreadRecords
    \/ ThreadCloses \/ ThreadClosesOutOfMemory \/ ThreadReportsFailure
    \/ TimePasses

LEMMA QuietStepKeepsIInv == ASSUME IInv, QuietStep, TypeOK' PROVE IInv'
<1> USE DEF queueVars, batchVars, threadVars
<1>0. TypeOK /\ FencesInv /\ BatchesInv /\ RecordedInv /\ OrderInv
      /\ EventsInv /\ SyncInv
  BY DEF IInv
<1>a. UNCHANGED <<queueVars, batches, write_batch_index, next_flush_event,
                  issued, exec_batch, sync>>
  BY DEF QuietStep, Destroy, ThreadReadsClock, ThreadExits, ThreadWaits,
         SpuriousWakeup, ThreadSkips, ThreadOpens, ThreadRecords,
         ThreadCloses, ThreadClosesOutOfMemory, ThreadReportsFailure,
         TimePasses
<1>1. Taken' = Taken
  <2>1. CASE Destroy \/ TimePasses
    BY <2>1 DEF Destroy, TimePasses, NotifyAll, Taken
  <2>2. CASE ThreadReadsClock \/ ThreadExits \/ ThreadWaits
             \/ SpuriousWakeup \/ ThreadSkips
    BY <2>2 DEF ThreadReadsClock, ThreadExits, ThreadWaits, SpuriousWakeup,
                ThreadSkips, Taken
  <2>3. CASE ThreadOpens \/ ThreadRecords \/ ThreadCloses
             \/ ThreadClosesOutOfMemory \/ ThreadReportsFailure
    BY <2>3 DEF ThreadOpens, ThreadRecords, ThreadCloses,
                ThreadClosesOutOfMemory, ThreadReportsFailure, Taken
  <2>4. QED
    BY <2>1, <2>2, <2>3 DEF QuietStep
<1>2. Held' = Held
  BY <1>a, <1>1 DEF Held
<1>3. FencesInv' /\ OrderInv' /\ EventsInv'
  BY <1>a, <1>1, <1>2, PiecesUnchanged
<1>4. BatchesInv'
  <2>1. /\ status' # "OK" => pc' = "exited"
        /\ pc' = "clear" <=> pc = "clear"
    BY <1>0 DEF QuietStep, Destroy, ThreadReadsClock, ThreadExits, ThreadWaits,
         SpuriousWakeup, ThreadSkips, ThreadOpens, ThreadRecords,
         ThreadCloses, ThreadClosesOutOfMemory, ThreadReportsFailure,
         TimePasses, NotifyAll, BatchesInv
  <2>2. QED
    BY <1>0, <1>a, <1>1, <1>2, <2>1 DEF BatchesInv
<1>5. RecordedInv'
  <2>1. CASE Destroy \/ TimePasses
    BY <1>0, <1>2, <2>1 DEF Destroy, TimePasses, NotifyAll, RecordedInv
  <2>2. CASE ThreadReadsClock \/ ThreadExits \/ ThreadWaits
             \/ SpuriousWakeup \/ ThreadSkips \/ ThreadClosesOutOfMemory
             \/ ThreadReportsFailure
    BY <2>2 DEF ThreadReadsClock, ThreadExits, ThreadWaits, SpuriousWakeup,
                ThreadSkips, ThreadClosesOutOfMemory, ThreadReportsFailure,
                RecordedInv
  <2>3. CASE ThreadOpens
    <3>1. Held \in Seq(Nat)
      BY <1>0, PieceTypes
    <3>2. QED
      BY <1>2, <2>3, <3>1 DEF ThreadOpens, RecordedInv
  <2>4. CASE ThreadRecords
    <3>1. pc = "record" /\ pc' = "record" /\ Held = batches[exec_batch]
      BY <2>4 DEF ThreadRecords, Held, Taken
    <3>2. recorded \in Seq(Nat) /\ Held \in Seq(Nat)
      BY <1>0, PieceTypes DEF TypeOK
    <3>3. recorded' = Append(recorded, Held[Len(recorded) + 1])
          /\ Len(recorded) < Len(Held)
      BY <2>4, <3>1 DEF ThreadRecords
    <3>4. Held[Len(recorded) + 1] \in Nat
      BY <3>2, <3>3
    <3>5. QED
      BY <1>0, <1>2, <3>1, <3>2, <3>3, <3>4 DEF RecordedInv
  <2>5. CASE ThreadCloses
    <3>1. pc = "record" /\ Held = batches[exec_batch] /\ recorded' = recorded
          /\ Len(recorded) = Len(Held) /\ pc' = "execute"
      BY <2>5 DEF ThreadCloses, Held, Taken
    <3>2. recorded \in Seq(Nat) /\ Held \in Seq(Nat)
      BY <1>0, PieceTypes DEF TypeOK
    <3>3. recorded = Held
      BY <1>0, <3>1, <3>2, SeqEqual DEF RecordedInv
    <3>4. QED
      BY <1>2, <3>1, <3>3 DEF RecordedInv
  <2>6. QED
    BY <2>1, <2>2, <2>3, <2>4, <2>5 DEF QuietStep
<1>6. SyncInv'
  BY <1>0, <1>a DEF SyncInv
<1>7. QED
  BY <1>3, <1>4, <1>5, <1>6 DEF IInv

-----------------------------------------------------------------------------
(* The swap turns the write batch into the taken one. *)
LEMMA SwapStep == ASSUME IInv, ThreadSwaps, TypeOK' PROVE IInv'
<1> USE DEF queueVars, SwapBatches
<1>0. TypeOK /\ FencesInv /\ BatchesInv /\ RecordedInv /\ OrderInv
      /\ EventsInv /\ SyncInv
  BY DEF IInv
<1>1. ~Taken /\ Taken' /\ pc' = "open" /\ status' = "OK"
  BY <1>0 DEF ThreadSwaps, Taken, BatchesInv
<1>2. /\ Held = << >>
      /\ Held' = WriteBatch
      /\ Held' # << >>
      /\ WriteBatch' = << >>
      /\ exec_batch' # write_batch_index'
  <2>1. write_batch_index \in 0..1
    BY <1>0 DEF TypeOK
  <2>2. /\ exec_batch' = write_batch_index
        /\ write_batch_index' \in 0..1
        /\ write_batch_index' # write_batch_index
    BY <2>1 DEF ThreadSwaps
  <2>3. batches' = batches /\ WriteBatch # << >>
    BY DEF ThreadSwaps
  <2>4. pc # "clear"
    BY DEF ThreadSwaps
  <2>5. batches[write_batch_index'] = << >>
    BY <1>0, <1>1, <2>2, <2>4 DEF BatchesInv
  <2>6. QED
    BY <1>1, <2>2, <2>3, <2>5 DEF Held, WriteBatch
<1>3. UNCHANGED <<last_fence_value, in_flight, completed, executed, issued,
                  sync>>
  BY DEF ThreadSwaps
<1>4. /\ LastTaken' = Len(issued)
      /\ LastQueued' = LastTaken
      /\ LastQueued = LastTaken
      /\ LastTaken < Len(issued)
  BY <1>0, <1>2, <1>3, PieceTypes DEF LastTaken, LastQueued
<1>5. \A k : LastOf(k)' = LastOf(k)
  BY <1>3 DEF LastOf
<1>6. FencesInv'
  BY <1>0, <1>1, <1>3 DEF FencesInv, ThreadSwaps, TypeOK
<1>7. BatchesInv'
  BY <1>1, <1>2 DEF BatchesInv
<1>8. RecordedInv'
  BY <1>1 DEF RecordedInv
<1>9. OrderInv'
  BY <1>0, <1>2, <1>3, <1>4, <1>5 DEF OrderInv
<1>10. EventsInv'
  <2>1. next_flush_event = last_fence_value + 1
    BY <1>0, <1>1 DEF FencesInv
  <2>2. \A i \in 1..Len(issued) :
           i > LastTaken => issued[i] = last_fence_value + 1
    BY <1>0, <2>1 DEF EventsInv
  <2>3. next_flush_event' <= LastEvent' + 1
    <3>1. Len(issued) \in Nat /\ issued # << >> /\ next_flush_event \in Nat
      <4>1. issued \in Seq(Nat) /\ next_flush_event \in Nat
        BY <1>0 DEF TypeOK
      <4>2. LastQueued \in Nat /\ Len(issued) # 0
        BY <1>0, <1>4, <4>1 DEF OrderInv
      <4>3. QED
        BY <4>1, <4>2
    <3>2. Len(issued) \in 1..Len(issued) /\ Len(issued) > LastTaken
      BY <1>0, <1>4, <3>1, PieceTypes
    <3>3. issued[Len(issued)] = next_flush_event
      BY <2>1, <2>2, <3>2
    <3>4. next_flush_event' = next_flush_event + 1
      BY DEF ThreadSwaps
    <3>5. QED
      BY <1>3, <3>1, <3>3, <3>4 DEF LastEvent
  <2>4. \A k \in 0..Len(in_flight') : \A i \in 1..Len(issued') :
          issued'[i] <= completed' + k <=> i <= LastOf(k)'
    BY <1>0, <1>3, <1>5 DEF EventsInv
  <2>5. \A i \in 1..Len(issued') :
          /\ i > LastQueued' /\ i <= LastTaken'
                => issued'[i] = last_fence_value' + 1
          /\ i > LastTaken' => issued'[i] = next_flush_event'
    BY <1>0, <1>3, <1>4, <2>2, PieceTypes
  <2>6. QED
    BY <2>3, <2>4, <2>5 DEF EventsInv
<1>11. SyncInv'
  BY <1>0, <1>3 DEF SyncInv
<1>12. QED
  BY <1>6, <1>7, <1>8, <1>9, <1>10, <1>11 DEF IInv

-----------------------------------------------------------------------------
(* Clearing the executed batch makes room for the next swap. *)
LEMMA ClearStep == ASSUME IInv, ThreadClears, TypeOK' PROVE IInv'
<1> USE DEF queueVars
<1>0. TypeOK /\ FencesInv /\ BatchesInv /\ RecordedInv /\ OrderInv
      /\ EventsInv /\ SyncInv
  BY DEF IInv
<1>1. /\ ~Taken /\ ~Taken' /\ pc' = "loop" /\ pc = "clear"
      /\ status' = status /\ status = "OK"
  BY <1>0 DEF ThreadClears, Taken, BatchesInv
<1>2. /\ WriteBatch' = WriteBatch
      /\ \A b \in 0..1 : b # write_batch_index' => batches'[b] = << >>
  BY <1>0, <1>1 DEF ThreadClears, WriteBatch, BatchesInv, TypeOK
<1>3. Held' = << >> /\ Held = << >>
  BY <1>1 DEF Held
<1>4. UNCHANGED <<last_fence_value, in_flight, completed, executed, issued,
                  sync, next_flush_event>>
  BY DEF ThreadClears
<1>5. LastTaken' = LastTaken /\ LastQueued' = LastQueued
  BY <1>2, <1>3, <1>4 DEF LastTaken, LastQueued
<1>6. \A k : LastOf(k)' = LastOf(k)
  BY <1>4 DEF LastOf
<1>7. FencesInv'
  BY <1>0, <1>1, <1>4 DEF FencesInv
<1>8. BatchesInv'
  BY <1>1, <1>2, <1>3 DEF BatchesInv
<1>9. RecordedInv'
  BY <1>1 DEF RecordedInv
<1>10. OrderInv'
  BY <1>0, <1>2, <1>3, <1>4, <1>5, <1>6 DEF OrderInv
<1>11. EventsInv'
  BY <1>0, <1>4, <1>5, <1>6 DEF EventsInv, LastEvent
<1>12. SyncInv'
  BY <1>0, <1>4 DEF SyncInv
<1>13. QED
  BY <1>7, <1>8, <1>9, <1>10, <1>11, <1>12 DEF IInv

-----------------------------------------------------------------------------
(* Submitting the recorded list turns the taken batch into the youngest list *)
(* in flight, with the fence value its commands were promised.               *)
LEMMA ExecuteStep == ASSUME IInv, ThreadExecutes, TypeOK' PROVE IInv'
<1>0. TypeOK /\ FencesInv /\ BatchesInv /\ RecordedInv /\ OrderInv
      /\ EventsInv /\ SyncInv
  BY DEF IInv
<1>n. PICK n \in Nat : n = Len(in_flight)
  BY <1>0, PieceTypes
<1>1. Taken /\ ~Taken' /\ pc' = "clear" /\ status' = "OK" /\ Held' = << >>
  BY <1>0 DEF ThreadExecutes, Taken, Held, BatchesInv, batchVars
<1>2. /\ Held \in Seq(Nat) /\ Held # << >> /\ recorded = Held
      /\ Len(Held) \in Nat \ {0}
  BY <1>0, <1>1, PieceTypes, EmptySeq
     DEF RecordedInv, ThreadExecutes, BatchesInv
<1>3. UNCHANGED <<completed, executed, issued, sync, batches, exec_batch,
                  write_batch_index, next_flush_event>>
  BY DEF ThreadExecutes, ExecuteCommandLists, batchVars
<1>4. last_fence_value' = last_fence_value + 1
  BY DEF ThreadExecutes, ExecuteCommandLists
<1>5. /\ Len(in_flight') = n + 1
      /\ \A k \in 1..n : in_flight'[k] = in_flight[k]
      /\ in_flight'[n + 1].commands = Held
      /\ in_flight'[n + 1].signal = last_fence_value + 1
  <2>1. [commands |-> Held, signal |-> last_fence_value + 1]
            \in [commands : Seq(Nat), signal : Nat]
    <3>1. Held \in Seq(Nat) /\ last_fence_value + 1 \in Nat
      BY <1>0, <1>2 DEF TypeOK
    <3>2. QED
      BY <3>1
  <2>2. in_flight' = Append(in_flight, [commands |-> Held,
                                        signal |-> last_fence_value + 1])
    BY <1>2 DEF ThreadExecutes, ExecuteCommandLists
  <2>3. in_flight \in Seq([commands : Seq(Nat), signal : Nat])
    BY <1>0 DEF TypeOK
  <2>4. QED
    BY <1>n, <2>1, <2>2, <2>3
<1>6. /\ WriteBatch' = WriteBatch
      /\ LastTaken' = LastTaken
      /\ LastQueued' = LastTaken
      /\ LastTaken = LastQueued + Len(Held)
  BY <1>0, <1>1, <1>2, <1>3, PieceTypes DEF WriteBatch, LastTaken, LastQueued
<1>7. \A k \in 0..n : LastOf(k)' = LastOf(k)
  BY <1>2, <1>3, <1>5, <1>n DEF LastOf
<1>8. LastOf(n + 1)' = LastTaken
  <2>1. LastOf(n + 1)' = Held[Len(Held)]
    BY <1>2, <1>5 DEF LastOf
  <2>2. Held[Len(Held)] = LastQueued + Len(Held)
    BY <1>0, <1>2 DEF OrderInv
  <2>3. QED
    BY <1>6, <2>1, <2>2
<1>9. FencesInv'
  <2>1. /\ last_fence_value = completed + n
        /\ next_flush_event = last_fence_value + 2
    BY <1>0, <1>1, <1>n DEF FencesInv
  <2>2. ASSUME NEW k \in 1..n + 1
        PROVE  in_flight'[k].signal = completed + k
    <3>1. CASE k \in 1..n
      BY <1>0, <1>n, <1>5, <3>1 DEF FencesInv
    <3>2. CASE k = n + 1
      <4>1. in_flight'[k].signal = last_fence_value + 1
        BY <1>5, <3>2
      <4>2. completed \in Nat /\ n \in Nat
        BY <1>0, <1>n, PieceTypes
      <4>3. QED
        BY <2>1, <3>2, <4>1, <4>2
    <3>3. QED
      BY <3>1, <3>2
  <2>3. /\ last_fence_value' = completed' + Len(in_flight')
        /\ next_flush_event' = last_fence_value' + 1
    <3>1. completed \in Nat /\ last_fence_value \in Nat
      BY <1>0, PieceTypes
    <3>2. completed' = completed /\ next_flush_event' = next_flush_event
      BY <1>3
    <3>3. Len(in_flight') = n + 1
      BY <1>5
    <3>4. QED
      BY <1>4, <2>1, <3>1, <3>2, <3>3
  <2>4. \A k \in 1..Len(in_flight') : in_flight'[k].signal = completed' + k
    BY <1>3, <1>5, <2>2
  <2>5. QED
    BY <1>1, <2>3, <2>4 DEF FencesInv
<1>10. BatchesInv'
  BY <1>0, <1>1, <1>3 DEF BatchesInv
<1>11. RecordedInv'
  BY <1>1 DEF RecordedInv
<1>12. OrderInv'
  <2>1. LastQueued' \in Nat /\ LastOf(Len(in_flight))' = LastQueued'
    BY <1>0, <1>2, <1>5, <1>n, <1>6, <1>8 DEF OrderInv
  <2>2. \A i \in 1..Len(executed') : executed'[i] = i
    BY <1>0, <1>3 DEF OrderInv
  <2>3. \A k \in 0..Len(in_flight') : LastOf(k)' \in 0..LastQueued'
    <3> SUFFICES ASSUME NEW k \in 0..n + 1 PROVE LastOf(k)' \in 0..LastQueued'
      BY <1>5
    <3>1. CASE k \in 0..n
      <4>1. LastOf(k) \in 0..LastQueued
        BY <1>0, <1>n, <3>1 DEF OrderInv
      <4>2. LastQueued \in Nat
        BY <1>0 DEF OrderInv
      <4>3. QED
        BY <1>2, <1>6, <1>7, <3>1, <4>1, <4>2
    <3>2. CASE k = n + 1
      BY <1>6, <1>8, <2>1, <3>2
    <3>3. QED
      BY <1>2, <3>1, <3>2
  <2>4. ASSUME NEW k \in 1..Len(in_flight')
        PROVE  /\ in_flight'[k].commands # << >>
               /\ \A i \in 1..Len(in_flight'[k].commands) :
                     in_flight'[k].commands[i] = LastOf(k - 1)' + i
    <3>1. CASE k \in 1..n
      <4>1. in_flight'[k] = in_flight[k] /\ LastOf(k - 1)' = LastOf(k - 1)
        BY <1>5, <1>7, <3>1
      <4>2. QED
        BY <1>0, <1>n, <3>1, <4>1 DEF OrderInv
    <3>2. CASE k = n + 1
      <4>1. LastOf(k - 1)' = LastQueued
        BY <1>0, <1>n, <1>2, <1>7, <3>2 DEF OrderInv
      <4>2. \A i \in 1..Len(Held) : Held[i] = LastQueued + i
        BY <1>0 DEF OrderInv
      <4>3. QED
        BY <1>2, <1>5, <1>n, <3>2, <4>1, <4>2
    <3>3. QED
      BY <1>2, <1>5, <1>n, <3>1, <3>2
  <2>5. \A i \in 1..Len(Held') : Held'[i] = LastQueued' + i
    BY <1>1
  <2>6. \A i \in 1..Len(WriteBatch') : WriteBatch'[i] = LastTaken' + i
    BY <1>0, <1>6 DEF OrderInv
  <2>7. QED
    BY <2>1, <2>2, <2>3, <2>4, <2>5, <2>6 DEF OrderInv
<1>13. EventsInv'
  <2>1. ASSUME NEW k \in 0..Len(in_flight'), NEW i \in 1..Len(issued)
        PROVE  issued[i] <= completed + k <=> i <= LastOf(k)'
    <3>1. CASE k \in 0..n
      BY <1>0, <1>n, <1>7, <3>1 DEF EventsInv
    <3>2. CASE k = n + 1
      <4>1. /\ completed + k = last_fence_value + 1
            /\ next_flush_event = last_fence_value + 2
        <5>1. /\ last_fence_value = completed + n
              /\ next_flush_event = last_fence_value + 2
          BY <1>0, <1>n, <1>1 DEF FencesInv
        <5>2. completed \in Nat /\ n \in Nat
          BY <1>0, <1>n, PieceTypes
        <5>3. QED
          BY <3>2, <5>1, <5>2
      <4>2. CASE i <= LastQueued
        <5>1. n \in 0..n /\ LastOf(n) = LastQueued
              /\ last_fence_value = completed + n
          BY <1>0, <1>n, <1>2 DEF OrderInv, FencesInv
        <5>2. issued[i] <= last_fence_value
          BY <1>0, <1>n, <4>2, <5>1 DEF EventsInv
        <5>3. QED
          <6>1. i <= LastTaken /\ LastOf(k)' = LastTaken
            BY <1>0, <1>8, <3>2, <4>2, PieceTypes
          <6>2. issued[i] <= last_fence_value + 1
            BY <1>0, <5>2, PieceTypes, SMTT(30)
          <6>3. QED
            BY <4>1, <6>1, <6>2
      <4>3. CASE i > LastQueued /\ i <= LastTaken
        <5>1. issued[i] = last_fence_value + 1
          BY <1>0, <4>3 DEF EventsInv
        <5>2. QED
          BY <1>0, <1>8, <3>2, <4>1, <4>3, <5>1, PieceTypes
      <4>4. CASE i > LastTaken
        <5>1. issued[i] = next_flush_event
          BY <1>0, <4>4 DEF EventsInv
        <5>2. QED
          BY <1>0, <1>8, <3>2, <4>1, <4>4, <5>1, PieceTypes, SMTT(30)
      <4>5. QED
        BY <1>0, <4>2, <4>3, <4>4, PieceTypes, SMTT(30)
    <3>3. QED
      BY <1>2, <1>5, <1>n, <3>1, <3>2
  <2>2. \A i \in 1..Len(issued) :
          i > LastTaken => issued[i] = next_flush_event
    BY <1>0 DEF EventsInv
  <2>3. next_flush_event' <= LastEvent' + 1
    BY <1>0, <1>3 DEF EventsInv, LastEvent
  <2>4. \A i \in 1..Len(issued') :
          /\ i > LastQueued' /\ i <= LastTaken'
                => issued'[i] = last_fence_value' + 1
          /\ i > LastTaken' => issued'[i] = next_flush_event'
    BY <1>0, <1>3, <1>6, <2>2, PieceTypes
  <2>5. QED
    BY <1>3, <2>1, <2>3, <2>4 DEF EventsInv
<1>14. SyncInv'
  BY <1>0, <1>3 DEF SyncInv
<1>15. QED
  BY <1>9, <1>10, <1>11, <1>12, <1>13, <1>14 DEF IInv

-----------------------------------------------------------------------------
(* The GPU finishes its oldest list: the pieces shift by one. *)
LEMMA GpuKeepsIInv == ASSUME IInv, GpuStep, TypeOK' PROVE IInv'
<1>0. TypeOK /\ FencesInv /\ BatchesInv /\ RecordedInv /\ OrderInv
      /\ EventsInv /\ SyncInv
  BY DEF IInv
<1>1. UNCHANGED <<batches, write_batch_index, next_flush_event, status, pc,
                  exec_batch, recorded, sync, issued, last_fence_value>>
  BY DEF GpuStep, GpuCompletes, batchVars, threadVars
<1>2. Taken' = Taken /\ Held' = Held /\ WriteBatch' = WriteBatch
  BY <1>1 DEF Taken, Held, WriteBatch
<1>3. LastTaken' = LastTaken /\ LastQueued' = LastQueued
  BY <1>1, <1>2 DEF LastTaken, LastQueued
<1>4. PICK n \in Nat : n + 1 = Len(in_flight)
  <2>1. in_flight # << >> /\ Len(in_flight) \in Nat
    BY <1>0, PieceTypes DEF GpuStep, GpuCompletes
  <2>2. Len(in_flight) # 0
    BY <1>0, <2>1 DEF TypeOK
  <2>3. Len(in_flight) - 1 \in Nat /\ (Len(in_flight) - 1) + 1 = Len(in_flight)
    BY <2>1, <2>2
  <2>4. QED
    BY <2>3, Zenon
<1>5. /\ in_flight' = Tail(in_flight)
      /\ Len(in_flight') = n
      /\ \A k \in 1..n : in_flight'[k] = in_flight[k + 1]
      /\ Head(in_flight) = in_flight[1]
  <2>1. in_flight # << >> /\ in_flight' = Tail(in_flight)
    BY DEF GpuStep, GpuCompletes
  <2>2. in_flight \in Seq([commands : Seq(Nat), signal : Nat])
    BY <1>0 DEF TypeOK
  <2>3. QED
    BY <1>4, <2>1, <2>2
<1>6. /\ in_flight[1].commands \in Seq(Nat)
      /\ in_flight[1].commands # << >>
      /\ Len(in_flight[1].commands) \in Nat \ {0}
      /\ \A i \in 1..Len(in_flight[1].commands) :
            in_flight[1].commands[i] = Len(executed) + i
  <2>1. 1 \in 1..Len(in_flight)
    BY <1>4
  <2>2. in_flight[1].commands \in Seq(Nat)
    <3>1. in_flight \in Seq([commands : Seq(Nat), signal : Nat])
      BY <1>0 DEF TypeOK
    <3>2. in_flight[1] \in [commands : Seq(Nat), signal : Nat]
      BY <2>1, <3>1, ElementOfSeq
    <3>3. QED
      BY <3>2
  <2>3. LastOf(1 - 1) = Len(executed)
    BY DEF LastOf
  <2>4. in_flight[1].commands # << >>
    BY <1>0, <2>1 DEF OrderInv
  <2>5. \A i \in 1..Len(in_flight[1].commands) :
            in_flight[1].commands[i] = Len(executed) + i
    BY <1>0, <2>1, <2>3 DEF OrderInv
  <2>6. QED
    BY <2>2, <2>4, <2>5, EmptySeq
<1>7. completed' = completed + 1
  <2>1. in_flight[1].signal = completed + 1
    BY <1>0, <1>4 DEF FencesInv
  <2>2. QED
    BY <1>5, <2>1 DEF GpuStep, GpuCompletes
<1>8. /\ Len(executed') = Len(executed) + Len(in_flight[1].commands)
      /\ \A i \in 1..Len(executed') : executed'[i] = i
  <2>1. executed \in Seq(Nat) /\ Len(executed) \in Nat
    BY <1>0 DEF TypeOK
  <2>2. executed' = executed \o in_flight[1].commands
    BY <1>5 DEF GpuStep, GpuCompletes
  <2>3. /\ Len(executed') = Len(executed) + Len(in_flight[1].commands)
        /\ \A i \in 1..Len(executed) + Len(in_flight[1].commands) :
              executed'[i] = IF i <= Len(executed) THEN executed[i]
                             ELSE in_flight[1].commands[i - Len(executed)]
    BY <1>6, <2>1, <2>2, ConcatProperties
  <2>4. ASSUME NEW i \in 1..Len(executed') PROVE executed'[i] = i
    <3>1. CASE i <= Len(executed)
      BY <1>0, <2>1, <2>3, <3>1 DEF OrderInv
    <3>2. CASE i > Len(executed)
      <4>1. i - Len(executed) \in 1..Len(in_flight[1].commands)
        BY <1>6, <2>1, <2>3, <3>2
      <4>2. QED
        BY <1>6, <2>1, <2>3, <3>2, <4>1
    <3>3. QED
      BY <2>1, <3>1, <3>2
  <2>5. QED
    BY <2>3, <2>4
<1>9. \A k \in 0..n : LastOf(k)' = LastOf(k + 1)
  <2> SUFFICES ASSUME NEW k \in 0..n PROVE LastOf(k)' = LastOf(k + 1)
    OBVIOUS
  <2>1. CASE k = 0
    <3>1. LastOf(k)' = Len(executed')
      BY <2>1 DEF LastOf
    <3>2. LastOf(k + 1) = in_flight[1].commands[Len(in_flight[1].commands)]
      BY <2>1 DEF LastOf
    <3>3. in_flight[1].commands[Len(in_flight[1].commands)]
             = Len(executed) + Len(in_flight[1].commands)
      <4>1. Len(in_flight[1].commands) \in 1..Len(in_flight[1].commands)
        BY <1>6
      <4>2. QED
        BY <1>6, <4>1, Zenon
    <3>4. QED
      BY <1>8, <3>1, <3>2, <3>3
  <2>2. CASE k \in 1..n
    <3>1. in_flight'[k] = in_flight[k + 1]
      BY <1>5, <2>2
    <3>2. QED
      BY <2>2, <3>1 DEF LastOf
  <2>3. QED
    BY <2>1, <2>2
<1>10. FencesInv'
  <2>1. completed \in Nat /\ last_fence_value \in Nat
    BY <1>0, PieceTypes
  <2>2. last_fence_value = completed + (n + 1)
    BY <1>0, <1>4 DEF FencesInv
  <2>3. ASSUME NEW k \in 1..n PROVE in_flight'[k].signal = completed' + k
    <3>1. in_flight[k + 1].signal = completed + (k + 1)
      BY <1>0, <1>4 DEF FencesInv
    <3>2. QED
      BY <1>5, <1>7, <2>1, <3>1
  <2>4. next_flush_event = last_fence_value + (IF Taken THEN 2 ELSE 1)
    BY <1>0 DEF FencesInv
  <2>5. last_fence_value' = completed' + Len(in_flight')
    <3>1. last_fence_value' = last_fence_value /\ Len(in_flight') = n
      BY <1>1, <1>5
    <3>2. QED
      BY <1>7, <2>1, <2>2, <3>1
  <2>6. next_flush_event'
            = last_fence_value' + (IF Taken' THEN 2 ELSE 1)
    BY <1>1, <1>2, <2>4
  <2>7. QED
    BY <1>5, <2>3, <2>5, <2>6 DEF FencesInv
<1>11. BatchesInv'
  BY <1>0, <1>1, <1>2 DEF BatchesInv
<1>12. RecordedInv'
  BY <1>0, <1>1, <1>2 DEF RecordedInv
<1>13. OrderInv'
  <2>1. LastQueued' \in Nat /\ LastOf(Len(in_flight))' = LastQueued'
    <3>1. LastOf(n)' = LastOf(n + 1)
      BY <1>9
    <3>2. QED
      BY <1>0, <1>3, <1>4, <1>5, <3>1 DEF OrderInv
  <2>2. \A k \in 0..Len(in_flight') : LastOf(k)' \in 0..LastQueued'
    <3> SUFFICES ASSUME NEW k \in 0..n PROVE LastOf(k)' \in 0..LastQueued'
      BY <1>5
    <3>1. k + 1 \in 0..Len(in_flight)
      BY <1>4
    <3>2. QED
      BY <1>0, <1>3, <1>9, <3>1 DEF OrderInv
  <2>3. ASSUME NEW k \in 1..n
        PROVE  /\ in_flight'[k].commands # << >>
               /\ \A i \in 1..Len(in_flight'[k].commands) :
                     in_flight'[k].commands[i] = LastOf(k - 1)' + i
    <3>1. in_flight'[k] = in_flight[k + 1] /\ k + 1 \in 1..Len(in_flight)
      BY <1>4, <1>5
    <3>2. LastOf(k - 1)' = LastOf((k + 1) - 1)
      BY <1>9
    <3>3. QED
      BY <1>0, <3>1, <3>2 DEF OrderInv
  <2>4. /\ \A i \in 1..Len(Held') : Held'[i] = LastQueued' + i
        /\ \A i \in 1..Len(WriteBatch') : WriteBatch'[i] = LastTaken' + i
    BY <1>0, <1>2, <1>3 DEF OrderInv
  <2>5. QED
    BY <1>5, <1>8, <2>1, <2>2, <2>3, <2>4 DEF OrderInv
<1>14. EventsInv'
  <2>1. ASSUME NEW k \in 0..n, NEW i \in 1..Len(issued)
        PROVE  issued[i] <= completed' + k <=> i <= LastOf(k)'
    <3>1. k + 1 \in 0..Len(in_flight)
      BY <1>4
    <3>2. issued[i] <= completed + (k + 1) <=> i <= LastOf(k + 1)
      BY <1>0, <3>1 DEF EventsInv
    <3>3. completed \in Nat /\ k \in Nat
      BY <1>0, <1>4, PieceTypes
    <3>4. completed' + k = completed + (k + 1)
      BY <1>7, <3>3
    <3>5. QED
      BY <1>9, <3>2, <3>4
  <2>2. \A i \in 1..Len(issued') :
          /\ i > LastQueued' /\ i <= LastTaken'
                => issued'[i] = last_fence_value' + 1
          /\ i > LastTaken' => issued'[i] = next_flush_event'
    BY <1>0, <1>1, <1>3 DEF EventsInv
  <2>3. next_flush_event' <= LastEvent' + 1
    BY <1>0, <1>1 DEF EventsInv, LastEvent
  <2>4. QED
    BY <1>1, <1>5, <2>1, <2>2, <2>3 DEF EventsInv
<1>15. SyncInv'
  BY <1>0, <1>1 DEF SyncInv
<1>16. QED
  BY <1>10, <1>11, <1>12, <1>13, <1>14, <1>15 DEF IInv

-----------------------------------------------------------------------------
(* IInv is inductive. *)
LEMMA NextIInv == IInv /\ [Next]_vars => IInv'
<1> SUFFICES ASSUME IInv, [Next]_vars PROVE IInv'
  OBVIOUS
<1>1. TypeOK'
  BY TypeStep DEF IInv
<1>2. CASE Submit
  BY <1>1, <1>2, SubmitStep
<1>3. ASSUME NEW c \in Callers, Flush(c) \/ SyncReturns(c) PROVE IInv'
  BY <1>1, <1>3, SyncStep
<1>4. CASE QuietStep
  BY <1>1, <1>4, QuietStepKeepsIInv
<1>5. CASE ThreadSwaps
  BY <1>1, <1>5, SwapStep
<1>6. CASE ThreadExecutes
  BY <1>1, <1>6, ExecuteStep
<1>7. CASE ThreadClears
  BY <1>1, <1>7, ClearStep
<1>8. CASE GpuStep
  BY <1>1, <1>8, GpuKeepsIInv
<1>9. CASE UNCHANGED vars
  <2>1. Taken' = Taken /\ Held' = Held
    BY <1>9 DEF vars, batchVars, threadVars, Taken, Held
  <2>2. FencesInv' /\ OrderInv' /\ EventsInv'
    BY <1>9, <2>1, PiecesUnchanged DEF vars, batchVars
  <2>3. BatchesInv' /\ RecordedInv' /\ SyncInv'
    BY <1>9, <2>1
       DEF vars, batchVars, threadVars, IInv, BatchesInv, RecordedInv, SyncInv
  <2>4. QED
    BY <1>1, <2>2, <2>3 DEF IInv
<1>10. QED
  BY <1>2, <1>3, <1>4, <1>5, <1>6, <1>7, <1>8, <1>9
     DEF Next, ThreadStep, QuietStep

(* Every reachable state of the context satisfies the inductive invariant,   *)
(* its types included.                                                       *)
THEOREM Invariance == Spec => []IInv
<1>1. Init => IInv
  BY InitIInv
<1>2. IInv /\ [Next]_vars => IInv'
  BY NextIInv
<1>3. QED
  BY <1>1, <1>2, PTL DEF Spec

(* The GPU executes every command once and in the order of the calls. *)
THEOREM InOrder == Spec => []ExecutedInOrder
<1>1. IInv => ExecutedInOrder
  BY DEF IInv, OrderInv, ExecutedInOrder
<1>2. QED
  BY <1>1, Invariance, PTL

(* The event returned for a command is signaled exactly when the GPU has     *)
(* executed it.                                                              *)
THEOREM EventsAreExact == Spec => []SignaledIffExecuted
<1>1. IInv => SignaledIffExecuted
  <2> SUFFICES ASSUME IInv, NEW i \in 1..Len(issued)
               PROVE  IsSignaled(issued[i]) <=> i <= Len(executed)
    BY DEF SignaledIffExecuted
  <2>1. /\ completed \in Nat /\ issued[i] \in Nat /\ 0 \in 0..Len(in_flight)
    BY PieceTypes DEF IInv
  <2>2. issued[i] <= completed + 0 <=> i <= LastOf(0)
    BY <2>1 DEF IInv, EventsInv
  <2>3. QED
    BY <2>1, <2>2 DEF LastOf, IsSignaled
<1>2. QED
  BY <1>1, Invariance, PTL

LEMMA SignaledSyncIsPassed == IInv => SyncIsBarrier
<1> SUFFICES ASSUME IInv, NEW c \in Callers, IsSignaled(sync[c].event)
             PROVE  sync[c].point <= Len(executed)
  BY DEF SyncIsBarrier
<1>1. /\ completed \in Nat /\ sync[c].point \in Nat /\ sync[c].event \in Nat
      /\ Len(executed) \in Nat /\ Len(issued) \in Nat
      /\ \A j \in 1..Len(issued) : issued[j] \in Nat
  BY DEF IInv, TypeOK
<1>2. CASE sync[c].point = 0
  BY <1>1, <1>2
<1>3. CASE sync[c].point > 0
  <2>1. sync[c].point \in 1..Len(issued)
    BY <1>1, <1>3 DEF IInv, SyncInv
  <2>2. issued[sync[c].point] <= sync[c].event
    BY <1>1, <1>3 DEF IInv, SyncInv
  <2>3. issued[sync[c].point] <= completed + 0
    BY <1>1, <2>1, <2>2 DEF IsSignaled
  <2>4. 0 \in 0..Len(in_flight)
    BY PieceTypes DEF IInv
  <2>5. sync[c].point <= LastOf(0)
    BY <2>1, <2>3, <2>4 DEF IInv, EventsInv
  <2>6. QED
    BY <2>5 DEF LastOf
<1>4. QED
  BY <1>1, <1>2, <1>3

(* The event Flush returns covers every command submitted before it. *)
THEOREM SyncCoversEarlierCommands == Spec => []SyncIsBarrier
  BY SignaledSyncIsPassed, Invariance, PTL

-----------------------------------------------------------------------------
(* The batch the thread iterates over without the mutex does not change. *)
THEOREM TakenBatchStability == Spec => TakenBatchIsStable
<1>1. IInv /\ [Next]_vars => [Taken /\ Taken' => Held' = Held]_vars
  <2> SUFFICES ASSUME IInv, Next, Taken, Taken' PROVE Held' = Held
    BY DEF vars
  <2>1. exec_batch # write_batch_index /\ exec_batch \in 0..1
        /\ write_batch_index \in 0..1 /\ batches \in [0..1 -> Seq(Nat)]
        /\ pc \in {"open", "record", "execute", "failed", "exited"}
    BY DEF IInv, BatchesInv, TypeOK, Taken
  <2>2. CASE Submit
    BY <2>1, <2>2 DEF Submit, Held
  <2>3. CASE \E c \in Callers : Flush(c) \/ SyncReturns(c)
    BY <2>3 DEF Flush, SyncReturns, Held, batchVars, threadVars
  <2>4. CASE QuietStep
    BY <2>4 DEF QuietStep, Destroy, ThreadReadsClock, ThreadExits, ThreadWaits,
         SpuriousWakeup, ThreadSkips, ThreadOpens, ThreadRecords,
         ThreadCloses, ThreadClosesOutOfMemory, ThreadReportsFailure,
         TimePasses, batchVars, Held
  <2>5. CASE ThreadSwaps \/ ThreadClears
    BY <2>1, <2>5 DEF ThreadSwaps, ThreadClears
  <2>6. CASE ThreadExecutes \/ GpuStep
    BY <2>6 DEF ThreadExecutes, GpuStep, batchVars, threadVars, Held
  <2>7. QED
    BY <2>2, <2>3, <2>4, <2>5, <2>6 DEF Next, ThreadStep, QuietStep
<1>2. QED
  BY <1>1, Invariance, PTL DEF Spec, TakenBatchIsStable

-----------------------------------------------------------------------------
(* The context implements the in-order command stream: every step is a step  *)
(* of CommandStream or leaves its variables alone.                           *)
THEOREM Refinement == Spec => StreamSpec
<1> DEFINE bar == [c \in Callers |-> [waiting |-> sync[c].waiting,
                                      point   |-> sync[c].point]]
<1>1. Init => Stream!Init
  BY DEF Init, QueueInit, Stream!Init
<1>2. IInv /\ IInv' /\ [Next]_vars => [Stream!Next]_(Stream!vars)
  <2> SUFFICES ASSUME IInv, IInv', [Next]_vars
               PROVE  Stream!Next \/ UNCHANGED <<issued, executed, completed,
                                                 sync>>
    BY DEF Stream!vars
  <2>1. CASE Submit
    <3>1. /\ next_flush_event \in Nat /\ completed \in Nat
          /\ issued \in Seq(Nat) /\ Len(issued) < MaxCommands
      BY <2>1, PieceTypes DEF IInv, Submit
    <3>2. next_flush_event <= LastEvent + 1
      BY DEF IInv, EventsInv
    <3>3. next_flush_event > completed
      <4>1. Len(in_flight) \in Nat
        BY PieceTypes DEF IInv
      <4>2. /\ last_fence_value = completed + Len(in_flight)
            /\ next_flush_event >= last_fence_value + 1
        BY DEF IInv, FencesInv
      <4>3. QED
        BY <3>1, <4>1, <4>2
    <3>4. issued' = Append(issued, next_flush_event)
      BY <2>1 DEF Submit
    <3>5. \A i \in 1..Len(issued) : issued[i] <= next_flush_event
      <4> SUFFICES ASSUME NEW i \in 1..Len(issued)
                   PROVE  issued[i] <= next_flush_event
        OBVIOUS
      <4>1. issued[i] \in Nat /\ issued[i] <= CompletionEvent
        BY <3>1, CompletionEventCovers
      <4>2. QED
        BY <3>1, <4>1 DEF CompletionEvent
    <3>6. LastEvent \in Nat /\ LastEvent <= next_flush_event
      BY <3>1, <3>5 DEF LastEvent
    <3>7. next_flush_event \in {LastEvent, LastEvent + 1}
      BY <3>1, <3>2, <3>6
    <3>8. LastEvent = Stream!LastEvent
      BY DEF LastEvent, Stream!LastEvent
    <3>9. QED
      BY <2>1, <3>3, <3>4, <3>7, <3>8
         DEF Submit, Stream!Next, Stream!Issue, queueVars
  <2>2. ASSUME NEW c \in Callers, Flush(c) PROVE Stream!StartBarrier(c)
    BY <2>2 DEF Flush, Stream!StartBarrier, queueVars, IInv, TypeOK
  <2>3. ASSUME NEW c \in Callers, SyncReturns(c) PROVE Stream!PassBarrier(c)
    <3>1. sync[c].point <= Len(executed)
      BY <2>3, SignaledSyncIsPassed DEF SyncReturns, SyncIsBarrier
    <3>2. Len(executed) \in Nat /\ sync[c].point \in Nat
      <4>1. /\ executed \in Seq(Nat)
            /\ sync \in [Callers -> [waiting : BOOLEAN, event : Nat,
                                     point : Nat]]
        BY DEF IInv, TypeOK
      <4>2. QED
        BY <4>1
    <3>3. bar' = [bar EXCEPT ![c].waiting = FALSE]
      <4>1. /\ sync' = [sync EXCEPT ![c].waiting = FALSE]
            /\ sync \in [Callers -> [waiting : BOOLEAN, event : Nat,
                                     point : Nat]]
        BY <2>3 DEF SyncReturns, IInv, TypeOK
      <4>2. ASSUME NEW d \in Callers
            PROVE  /\ sync'[d].waiting
                        = (IF d = c THEN FALSE ELSE sync[d].waiting)
                   /\ sync'[d].point = sync[d].point
        BY <4>1
      <4>3. QED
        BY <4>2
    <3>4. /\ bar[c].waiting /\ bar[c].point <= Len(executed)
          /\ UNCHANGED <<issued, executed, completed>>
      BY <2>3, <3>1 DEF SyncReturns, queueVars
    <3>5. QED
      BY <3>3, <3>4 DEF Stream!PassBarrier
  <2>4. CASE GpuStep
    <3>0. /\ issued' = issued /\ sync' = sync
          /\ in_flight # << >>
          /\ executed' = executed \o Head(in_flight).commands
          /\ completed' = Head(in_flight).signal
      BY <2>4 DEF GpuStep, GpuCompletes
    <3>1. /\ Head(in_flight) = in_flight[1] /\ 1 \in 1..Len(in_flight)
          /\ Head(in_flight).commands \in Seq(Nat)
      <4>1. in_flight \in Seq([commands : Seq(Nat), signal : Nat])
        BY DEF IInv, TypeOK
      <4>2. Head(in_flight) \in [commands : Seq(Nat), signal : Nat]
        BY <3>0, <4>1, HeadTailProperties
      <4>3. QED
        BY <3>0, <4>1, <4>2
    <3>2. completed' = completed + 1
      BY <3>0, <3>1 DEF IInv, FencesInv
    <3>3. Len(executed') > Len(executed) /\ Len(executed) \in Nat
      <4>1. Head(in_flight).commands # << >> /\ executed \in Seq(Nat)
        BY <3>1 DEF IInv, OrderInv, TypeOK
      <4>2. Len(Head(in_flight).commands) \in Nat \ {0}
        BY <3>1, <4>1, EmptySeq
      <4>3. QED
        BY <3>0, <3>1, <4>1, <4>2, ConcatProperties
    <3>4. PICK n \in Nat : n = Len(executed')
      BY DEF IInv, TypeOK
    <3>5. 0 \in 0..Len(in_flight') /\ LastOf(0)' = n
      BY <3>4 DEF IInv, TypeOK, LastOf
    <3>6. n <= Len(issued)
      <4>1. LastOf(0)' \in 0..LastQueued' /\ LastQueued' \in Nat
        BY <3>5 DEF IInv, OrderInv
      <4>2. /\ LastQueued <= LastTaken /\ LastTaken <= Len(issued)
            /\ LastQueued \in Int /\ LastTaken \in Int /\ Len(issued) \in Nat
        BY PieceTypes DEF IInv
      <4>3. LastQueued' = LastQueued
        BY <2>4 DEF GpuStep, batchVars, threadVars, LastQueued, LastTaken,
                    WriteBatch, Held, Taken
      <4>4. QED
        BY <3>5, <4>1, <4>2, <4>3
    <3>7. \A i \in 1..Len(issued) : issued[i] <= completed + 1 <=> i <= n
      <4> SUFFICES ASSUME NEW i \in 1..Len(issued)
                   PROVE  issued[i] <= completed + 1 <=> i <= n
        OBVIOUS
      <4>1. issued'[i] <= completed' + 0 <=> i <= LastOf(0)'
        BY <3>0, <3>5 DEF IInv, EventsInv
      <4>2. completed' + 0 = completed + 1
        BY <3>2 DEF IInv, TypeOK
      <4>3. QED
        BY <3>0, <3>5, <4>1, <4>2
    <3>8. executed' = [i \in 1..n |-> i]
      <4>1. executed' \in Seq(Nat) /\ \A i \in 1..n : executed'[i] = i
        BY <3>4 DEF IInv, TypeOK, OrderInv
      <4>2. QED
        BY <3>4, <4>1
    <3>9. n \in (Len(executed) + 1)..Len(issued)
      BY <3>3, <3>4, <3>6 DEF IInv, TypeOK
    <3>10. QED
      BY <3>0, <3>2, <3>7, <3>8, <3>9 DEF Stream!Next, Stream!Signal
  <2>5. CASE QuietStep \/ ThreadSwaps \/ ThreadExecutes \/ ThreadClears
             \/ UNCHANGED vars
    BY <2>5 DEF QuietStep, Destroy, ThreadReadsClock, ThreadExits,
         ThreadWaits, SpuriousWakeup, ThreadSkips, ThreadOpens,
         ThreadRecords, ThreadCloses, ThreadClosesOutOfMemory,
         ThreadReportsFailure, TimePasses, ThreadSwaps, ThreadExecutes,
         ExecuteCommandLists, ThreadClears, queueVars, vars
  <2>6. QED
    BY <2>1, <2>2, <2>3, <2>4, <2>5
       DEF Next, ThreadStep, QuietStep, Stream!Next
<1>3. QED
  BY <1>1, <1>2, Invariance, PTL DEF Spec, StreamSpec, Stream!Spec

-----------------------------------------------------------------------------
(* CommandList *)

USE AllocatorCountAssumption, HeapCapacityAssumption, BoundsAssumption

Slots == [heap : Nat, index : Nat]

HeapNames == OpHeaps \cup Nat

Commands == [wants : HeapNames, bound : HeapNames, slots : SUBSET Slots,
             allocator : Allocators]

Lists == [commands : Seq(Commands), signal : Nat]

(* No heap of the pool is ever given an event with a fence. *)
Heaps == [shader_visible : BOOLEAN, size : 0..HeapCapacity,
          event : {NoFence}]

TypeInv ==
    /\ ListTypeOK
    /\ last_fence_value \in Nat
    /\ completed \in Nat
    /\ in_flight \in Seq(Lists)
    /\ entries \in Seq(Commands)
    /\ heaps \in Seq(Heaps)

(* The lists in flight have the consecutive fence values that follow the     *)
(* completed one.                                                            *)
SignalsInv ==
    /\ completed + Len(in_flight) = last_fence_value
    /\ \A k \in 1..Len(in_flight) : in_flight[k].signal = completed + k

(* The current allocator has the newest event; it is the allocator of every  *)
(* command in the list.                                                      *)
RingEventsInv ==
    /\ \A a \in Allocators \ {current_command_allocator} :
          completion_event[a] <= last_fence_value
    /\ completion_event[current_command_allocator]
          = IF state = "closed" THEN last_fence_value ELSE last_fence_value + 1
    /\ allocator = current_command_allocator
    /\ state # "closed" =>
          \A i \in 1..Len(entries) : entries[i].allocator = allocator

(* The event of an allocator is not older than any list in flight with       *)
(* commands in it.                                                           *)
CoveredInv ==
    \A k \in 1..Len(in_flight) : \A i \in 1..Len(in_flight[k].commands) :
        completion_event[in_flight[k].commands[i].allocator]
            >= in_flight[k].signal

(* The cached pointer agrees with the D3D12 list while the list is open.     *)
BoundInv ==
    /\ state \in {"closed", "recorded"} => current_descriptor_heap = Null
    /\ state = "open" => bound_heap = current_descriptor_heap
    /\ HeapIsBound

(* Descriptors that were given out count in the size of their heap. *)
Occupied(hs, slots) ==
    \A slot \in slots : /\ slot.heap \in 1..Len(hs)
                        /\ slot.index <= hs[slot.heap].size

SlotsInv ==
    /\ \A k \in 1..Len(in_flight) : \A i \in 1..Len(in_flight[k].commands) :
          Occupied(heaps, in_flight[k].commands[i].slots)
    /\ \A i \in 1..Len(entries) : Occupied(heaps, entries[i].slots)

ListInv ==
    /\ TypeInv /\ SignalsInv /\ RingEventsInv
    /\ CoveredInv /\ BoundInv /\ SlotsInv

-----------------------------------------------------------------------------
(* The search for the first heap with space has a result. *)
LEMMA LeastElement ==
    ASSUME NEW S \in SUBSET Nat, S # {}
    PROVE  \E m \in S : \A n \in S : m <= n
<1>1. PICK m \in S : \A n \in S : ~(<<n, m>> \in OpToRel(<, Nat))
  BY NatLessThanWellFounded, WFMin, Zenon
<1>2. \A n \in S : ~(n < m)
  BY <1>1 DEF OpToRel
<1>3. QED
  BY <1>2

LEMMA InitListInv == ListInit => ListInv
<1> SUFFICES ASSUME ListInit PROVE ListInv
  OBVIOUS
<1>1. heaps = <<[shader_visible |-> TRUE, size |-> 0, event |-> NoFence]>>
  BY DEF ListInit, CreateHeap
<1>2. heaps \in Seq(Heaps) /\ Len(heaps) = 1 /\ DOMAIN heaps = {1}
  BY <1>1 DEF Heaps
<1>t. /\ in_flight \in Seq(Lists) /\ entries \in Seq(Commands)
      /\ last_fence_value = 0 /\ completed = 0 /\ current_command_allocator = 0
  BY DEF ListInit, QueueInit
<1>a. completion_event \in [Allocators -> Nat] /\ 0 \in Allocators
  BY <1>t DEF ListInit, Allocators, GetCurrentCompletionEvent
<1>h. \A h \in DOMAIN heaps : heaps[h].size \in 0..HeapCapacity
  BY <1>1, <1>2
<1>3. TypeInv
  BY <1>2, <1>t, <1>a, <1>h DEF ListInit, TypeInv, ListTypeOK
<1>4. SignalsInv /\ CoveredInv /\ BoundInv /\ SlotsInv
  BY DEF ListInit, QueueInit, SignalsInv, CoveredInv, BoundInv, SlotsInv,
         HeapIsBound
<1>5. RingEventsInv
  BY DEF ListInit, QueueInit, RingEventsInv, Allocators,
         GetCurrentCompletionEvent
<1>6. QED
  BY <1>3, <1>4, <1>5 DEF ListInv

(* AllocDescriptors gives out a descriptor past the end of a heap and lets   *)
(* no heap shrink.                                                           *)
LEMMA AllocDescriptorsResult ==
    ASSUME NEW hs \in Seq(Heaps), NEW v \in BOOLEAN
    PROVE  LET r == AllocDescriptors(hs, v)
           IN  /\ r.heaps \in Seq(Heaps)
               /\ Len(r.heaps) >= Len(hs)
               /\ \A h \in 1..Len(hs) : r.heaps[h].size >= hs[h].size
               /\ r.slot \in Slots
               /\ r.slot.heap \in 1..Len(r.heaps)
               /\ r.slot.index = r.heaps[r.slot.heap].size
               /\ r.slot.heap \in 1..Len(hs) =>
                     r.slot.index > hs[r.slot.heap].size
<1> DEFINE new == [shader_visible |-> v, size |-> 0, event |-> NoFence]
           ps == Prepared(hs, v)
           S == HeapsWithSpace(ps, v)
           h == CHOOSE m \in S : \A g \in S : m <= g
<1>1. \A g \in Heaps : SizeNow(g) = g.size
  BY DEF SizeNow, Heaps
<1>1a. \A gs \in Seq(Heaps) : \A g \in DOMAIN gs : gs[g] \in Heaps
  BY ElementOfSeq, LenProperties
<1>2. new \in Heaps
  BY DEF Heaps
<1>3. /\ Append(hs, new) \in Seq(Heaps)
      /\ Len(Append(hs, new)) = Len(hs) + 1
      /\ \A i \in 1..Len(hs) : Append(hs, new)[i] = hs[i]
      /\ Append(hs, new)[Len(hs) + 1] = new
  BY <1>2, AppendProperties
<1>4. Len(hs) \in Nat /\ DOMAIN hs = 1..Len(hs)
  BY LenProperties
<1>5. /\ ps \in Seq(Heaps) /\ S # {}
      /\ Len(ps) >= Len(hs) /\ Len(ps) \in Nat
      /\ \A i \in 1..Len(hs) : ps[i] = hs[i]
  <2>1. CASE HeapsWithSpace(hs, v) = {}
    <3>1. ps = Append(hs, new)
      BY <2>1 DEF Prepared, CreateHeap
    <3>2. DOMAIN ps = 1..(Len(hs) + 1)
      BY <1>3, <3>1, LenProperties
    <3>3. TryAllocDescriptors(ps, Len(hs) + 1, v)
      BY <1>1, <1>2, <1>3, <3>1 DEF TryAllocDescriptors
    <3>4. S # {}
      BY <1>4, <3>2, <3>3 DEF HeapsWithSpace
    <3>5. QED
      BY <1>3, <1>4, <3>1, <3>4
  <2>2. CASE HeapsWithSpace(hs, v) # {}
    BY <2>2, <1>4 DEF Prepared
  <2>3. QED
    BY <2>1, <2>2
<1>6. DOMAIN ps = 1..Len(ps) /\ S \in SUBSET Nat
  BY <1>5, LenProperties DEF HeapsWithSpace
<1>7. h \in S
  BY <1>5, <1>6, LeastElement
<1> HIDE DEF new, ps, S, h
<1>8. h \in 1..Len(ps) /\ TryAllocDescriptors(ps, h, v) /\ ps[h] \in Heaps
  BY <1>1a, <1>5, <1>6, <1>7 DEF HeapsWithSpace, S
<1>9. ps[h].size < HeapCapacity
  BY <1>1, <1>8 DEF TryAllocDescriptors
<1> DEFINE e == [ps[h] EXCEPT !.size = ps[h].size + 1, !.event = NoFence]
           qs == [ps EXCEPT ![h] = e]
<1>10. e \in Heaps /\ e.size = ps[h].size + 1
  <2>1. ps[h].size + 1 \in 0..HeapCapacity
    BY <1>8, <1>9 DEF Heaps
  <2> DEFINE n == ps[h].size + 1
             f == [ps[h] EXCEPT !.size = n]
  <2> HIDE DEF n
  <2>2. f \in Heaps /\ f.size = n
    BY <1>8, <2>1, Zenon DEF Heaps, n
  <2>3. [f EXCEPT !.event = NoFence] \in Heaps
        /\ [f EXCEPT !.event = NoFence].size = f.size
    BY <2>2, Zenon DEF Heaps
  <2>4. e = [f EXCEPT !.event = NoFence]
    BY DEF n
  <2>5. QED
    BY <2>2, <2>3, <2>4 DEF n
<1>11. [ps EXCEPT ![h].size = ps[h].size + 1, ![h].event = NoFence] = qs
  BY <1>6, <1>8, Zenon
<1>12. AllocDescriptors(hs, v)
         = [heaps |-> qs, slot  |-> [heap |-> h, index |-> ps[h].size + 1]]
  BY <1>1, <1>8, <1>11 DEF AllocDescriptors, DescriptorEvent, ps, S, h
<1>13. ps[h].size \in Nat
  BY <1>8 DEF Heaps
<1> HIDE DEF e
<1>14. /\ qs \in Seq(Heaps) /\ Len(qs) = Len(ps)
       /\ \A j \in 1..Len(ps) : qs[j] = IF j = h THEN e ELSE ps[j]
  BY <1>5, <1>8, <1>10, ExceptSeq
<1> HIDE DEF qs
<1>15. \A j \in 1..Len(hs) : hs[j].size \in Nat
  <2> TAKE j \in 1..Len(hs)
  <2>1. hs[j] \in Heaps
    BY <1>1a, <1>4
  <2>2. QED
    BY <2>1 DEF Heaps
<1>16. \A j \in 1..Len(hs) : qs[j].size >= hs[j].size
  <2> TAKE j \in 1..Len(hs)
  <2>1. ps[j] = hs[j] /\ j \in 1..Len(ps)
    BY <1>4, <1>5
  <2>2. QED
    BY <2>1, <1>10, <1>14, <1>15
<1>17. [heap |-> h, index |-> ps[h].size + 1] \in Slots
  BY <1>5, <1>8 DEF Slots, Heaps
<1>18. h \in 1..Len(hs) => ps[h].size + 1 > hs[h].size
  BY <1>5, <1>15
<1>19. /\ AllocDescriptors(hs, v).heaps = qs
       /\ AllocDescriptors(hs, v).slot \in Slots
       /\ AllocDescriptors(hs, v).slot.heap = h
       /\ AllocDescriptors(hs, v).slot.index = ps[h].size + 1
  BY <1>12, <1>17
<1>20. h \in 1..Len(qs) /\ qs[h].size = ps[h].size + 1
  BY <1>8, <1>10, <1>14
<1>21. qs \in Seq(Heaps) /\ Len(qs) >= Len(hs)
  BY <1>5, <1>14
<1>22. QED
  BY <1>16, <1>18, <1>19, <1>20, <1>21
-----------------------------------------------------------------------------
(* What a step that moves no descriptor keeps of Taken. *)
LEMMA TakenKept ==
    ASSUME heaps \in Seq(Heaps), heaps' \in Seq(Heaps),
           Len(heaps') >= Len(heaps),
           \A h \in 1..Len(heaps) : heaps'[h].size >= heaps[h].size,
           NEW slots \in SUBSET Slots, Occupied(heaps, slots)
    PROVE  Occupied(heaps', slots)
<1>1. Len(heaps) \in Nat /\ Len(heaps') \in Nat
  BY LenProperties
<1>2. SUFFICES ASSUME NEW slot \in slots
               PROVE  /\ slot.heap \in 1..Len(heaps')
                      /\ slot.index <= heaps'[slot.heap].size
  BY DEF Occupied
<1>3. slot.heap \in 1..Len(heaps) /\ slot.index <= heaps[slot.heap].size
  BY DEF Occupied
<1>4. slot.heap \in 1..Len(heaps')
  BY <1>1, <1>3
<1>5. heaps[slot.heap] \in Heaps /\ heaps'[slot.heap] \in Heaps
  BY <1>3, <1>4, ElementOfSeq
<1>6. heaps[slot.heap].size \in Int /\ heaps'[slot.heap].size \in Int
      /\ slot.index \in Int
  BY <1>5 DEF Heaps, Slots
<1>7. QED
  BY <1>3, <1>4, <1>6

(* Opening a list takes an allocator that the GPU is done with, or goes on   *)
(* with the current one.                                                     *)
LEMMA OpenStep == ASSUME ListInv, Open PROVE ListInv'
<1>s. /\ TypeInv /\ SignalsInv /\ RingEventsInv
      /\ CoveredInv /\ BoundInv /\ SlotsInv
  BY DEF ListInv
<1> DEFINE n == NextAllocator
<1>1. n \in Allocators
  BY <1>s DEF TypeInv, ListTypeOK, NextAllocator, Allocators
<1>2. /\ current_command_allocator' = n
      /\ completion_event' = [completion_event EXCEPT ![n] =
                                 last_fence_value + 1]
      /\ allocator' = n
      /\ state = "closed" /\ state' = "open"
      /\ entries' = << >>
      /\ bound_heap' = Null
      /\ opened' = opened + 1 /\ opened < MaxLists
      /\ UNCHANGED <<queueVars, heaps, current_descriptor_heap>>
  BY DEF Open, GetNextAllocator, NextCompletion, GetNextCompletionEvent
<1> HIDE DEF n
<1>3. completion_event \in [Allocators -> Nat] /\ last_fence_value \in Nat
      /\ current_command_allocator \in Allocators
  BY <1>s DEF TypeInv, ListTypeOK
<1>4. /\ completion_event' \in [Allocators -> Nat]
      /\ completion_event'[n] = last_fence_value + 1
      /\ \A a \in Allocators : completion_event'[a] >= completion_event[a]
      /\ \A a \in Allocators \ {n} : completion_event'[a] <= last_fence_value
  BY <1>1, <1>2, <1>3, <1>s DEF RingEventsInv
<1>5. TypeInv'
  BY <1>1, <1>2, <1>4, <1>s DEF TypeInv, ListTypeOK, queueVars
<1>6. SignalsInv'
  BY <1>2, <1>s DEF SignalsInv, queueVars
<1>7. RingEventsInv'
  BY <1>2, <1>4 DEF RingEventsInv, queueVars
<1>8. CoveredInv'
  <2> SUFFICES ASSUME NEW k \in 1..Len(in_flight),
                      NEW i \in 1..Len(in_flight[k].commands)
               PROVE  completion_event'[in_flight[k].commands[i].allocator]
                         >= in_flight[k].signal
    BY <1>2 DEF CoveredInv, queueVars
  <2>1. in_flight[k] \in Lists
    BY <1>s, ElementOfSeq DEF TypeInv
  <2>2. in_flight[k].commands \in Seq(Commands) /\ in_flight[k].signal \in Nat
    BY <2>1 DEF Lists
  <2>3. in_flight[k].commands[i] \in Commands
    BY <2>2, ElementOfSeq
  <2>4. in_flight[k].commands[i].allocator \in Allocators
    BY <2>3 DEF Commands
  <2>5. completion_event[in_flight[k].commands[i].allocator]
           >= in_flight[k].signal
    BY <1>s DEF CoveredInv
  <2>6. QED
    BY <1>3, <1>4, <2>2, <2>4, <2>5
<1>9. BoundInv'
  BY <1>2, <1>s DEF BoundInv, HeapIsBound
<1>10. SlotsInv'
  BY <1>2, <1>s DEF SlotsInv, Occupied, queueVars
<1>11. QED
  BY <1>5, <1>6, <1>7, <1>8, <1>9, <1>10 DEF ListInv

(* Recording a command of any kind, with descriptors that count as taken.    *)
LEMMA RecordStep ==
    ASSUME ListInv, NEW heap \in HeapNames, NEW slots \in SUBSET Slots,
           Record(heap, slots),
           heaps' \in Seq(Heaps), Len(heaps') >= Len(heaps),
           \A h \in 1..Len(heaps) : heaps'[h].size >= heaps[h].size,
           Occupied(heaps', slots),
           heap \in OpHeaps \cup {Null} \cup 1..Len(heaps')
    PROVE  ListInv'
<1>s. /\ TypeInv /\ SignalsInv /\ RingEventsInv
      /\ CoveredInv /\ BoundInv /\ SlotsInv
  BY DEF ListInv
<1> DEFINE c == [wants |-> heap, bound |-> bound_heap', slots |-> slots,
                 allocator |-> allocator]
<1>1. /\ state = "open"
      /\ entries' = Append(entries, c)
      /\ UNCHANGED <<queueVars, ringVars, state, allocator, opened>>
  BY DEF Record
<1>2. current_descriptor_heap = bound_heap
  BY <1>1, <1>s DEF BoundInv
<1>3. current_descriptor_heap' = bound_heap'
      /\ bound_heap' = IF heap # Null THEN heap ELSE bound_heap
  BY <1>2 DEF Record, SetDescriptorHeap
<1>4. /\ Len(heaps) \in Nat /\ DOMAIN heaps = 1..Len(heaps)
      /\ Len(heaps') \in Nat /\ DOMAIN heaps' = 1..Len(heaps')
  BY <1>s, LenProperties DEF TypeInv
<1>5. bound_heap' \in OpHeaps \cup {Null} \cup DOMAIN heaps'
  BY <1>3, <1>4, <1>s DEF TypeInv, ListTypeOK
<1>6. c \in Commands
  BY <1>5, <1>4, <1>s DEF Commands, HeapNames, TypeInv, ListTypeOK, Null
<1> HIDE DEF c
<1>7. /\ entries' \in Seq(Commands)
      /\ Len(entries') = Len(entries) + 1 /\ Len(entries) \in Nat
      /\ \A i \in 1..Len(entries) : entries'[i] = entries[i]
      /\ entries'[Len(entries) + 1] = c
  BY <1>1, <1>6, <1>s, AppendProperties, LenProperties DEF TypeInv
<1>8. TypeInv'
  <2>1. \A h \in DOMAIN heaps' : heaps'[h].size \in 0..HeapCapacity
    <3> TAKE h \in DOMAIN heaps'
    <3>1. heaps'[h] \in Heaps
      BY <1>4, ElementOfSeq
    <3>2. QED
      BY <3>1 DEF Heaps
  <2>2. ListTypeOK'
    BY <1>1, <1>3, <1>5, <2>1, <1>s DEF TypeInv, ListTypeOK, ringVars
  <2>3. QED
    BY <2>2, <1>1, <1>7, <1>s DEF TypeInv, queueVars
<1>9. SignalsInv' /\ CoveredInv'
  BY <1>1, <1>s DEF SignalsInv, CoveredInv, queueVars, ringVars
<1>10. RingEventsInv'
  BY <1>1, <1>7, <1>s DEF RingEventsInv, queueVars, ringVars, c
<1>11. BoundInv'
  <2>1. c.wants # Null => c.bound = c.wants
    BY <1>3 DEF c
  <2>2. DOMAIN entries = 1..Len(entries)
        /\ DOMAIN entries' = 1..Len(entries')
    BY <1>7, <1>s, LenProperties DEF TypeInv
  <2>3. HeapIsBound'
    BY <2>1, <2>2, <1>7, <1>s DEF BoundInv, HeapIsBound
  <2>4. QED
    BY <2>3, <1>1, <1>3 DEF BoundInv
<1>12. SlotsInv'
  <2>1. \A k \in 1..Len(in_flight) : \A i \in 1..Len(in_flight[k].commands) :
           Occupied(heaps', in_flight[k].commands[i].slots)
    <3> SUFFICES ASSUME NEW k \in 1..Len(in_flight),
                        NEW i \in 1..Len(in_flight[k].commands)
                 PROVE  Occupied(heaps', in_flight[k].commands[i].slots)
      OBVIOUS
    <3>1. in_flight[k] \in Lists
      BY <1>s, ElementOfSeq DEF TypeInv
    <3>2. in_flight[k].commands \in Seq(Commands)
      BY <3>1 DEF Lists
    <3>3. in_flight[k].commands[i] \in Commands
      BY <3>2, ElementOfSeq
    <3>4. in_flight[k].commands[i].slots \in SUBSET Slots
      BY <3>3 DEF Commands
    <3>5. Occupied(heaps, in_flight[k].commands[i].slots)
      BY <1>s DEF SlotsInv
    <3>6. QED
      BY <1>s, <3>4, <3>5, TakenKept DEF TypeInv
  <2>2. \A i \in 1..Len(entries) : Occupied(heaps', entries[i].slots)
    <3> TAKE i \in 1..Len(entries)
    <3>1. entries[i] \in Commands
      BY <1>s, ElementOfSeq DEF TypeInv
    <3>2. /\ entries[i].slots \in SUBSET Slots
          /\ Occupied(heaps, entries[i].slots)
      BY <1>s, <3>1 DEF SlotsInv, Commands
    <3>3. QED
      BY <1>s, <3>2, TakenKept DEF TypeInv
  <2>3. Occupied(heaps', c.slots)
    BY DEF c
  <2>4. \A i \in 1..Len(entries') : Occupied(heaps', entries'[i].slots)
    <3> TAKE i \in 1..Len(entries')
    <3>1. CASE i = Len(entries) + 1
      BY <3>1, <2>3, <1>7
    <3>2. CASE i \in 1..Len(entries)
      BY <3>2, <2>2, <1>7
    <3>3. QED
      BY <3>1, <3>2, <1>7
  <2>5. in_flight' = in_flight
    BY <1>1 DEF queueVars
  <2>6. QED
    BY <2>1, <2>4, <2>5 DEF SlotsInv
<1>13. QED
  BY <1>8, <1>9, <1>10, <1>11, <1>12 DEF ListInv

LEMMA DispatchStep ==
    ASSUME ListInv, NEW heap \in OpHeaps \cup {Null}, Dispatch(heap)
    PROVE  ListInv'
<1>1. heaps \in Seq(Heaps)
  BY DEF ListInv, TypeInv
<1>2. \A h \in 1..Len(heaps) : heaps[h].size >= heaps[h].size
  <2> TAKE h \in 1..Len(heaps)
  <2>1. heaps[h] \in Heaps
    BY <1>1, ElementOfSeq
  <2>2. QED
    BY <2>1 DEF Heaps
<1>3. Record(heap, {}) /\ heaps' = heaps /\ Occupied(heaps', {})
  BY DEF Dispatch, Occupied
<1>4. heap \in HeapNames
  BY DEF HeapNames, Null
<1>5. Len(heaps') >= Len(heaps)
  BY <1>1, <1>3, LenProperties
<1>6. QED
  BY <1>1, <1>2, <1>3, <1>4, <1>5, RecordStep

(* The two descriptors of a fill are taken, and were not before.             *)
LEMMA FillDescriptors ==
    ASSUME ListInv, FillBufferWithPattern
    PROVE  \E cpu, gpu \in Slots :
              /\ Record(gpu.heap, {cpu, gpu})
              /\ heaps' \in Seq(Heaps) /\ Len(heaps') >= Len(heaps)
              /\ \A h \in 1..Len(heaps) : heaps'[h].size >= heaps[h].size
              /\ gpu.heap \in 1..Len(heaps')
              /\ Occupied(heaps', {cpu, gpu})
              /\ \A slot \in {cpu, gpu} :
                    slot.heap \in 1..Len(heaps) =>
                       slot.index > heaps[slot.heap].size
<1> DEFINE cpu == AllocDescriptors(heaps, FALSE)
           gpu == AllocDescriptors(cpu.heaps, TRUE)
           a == cpu.slot
           b == gpu.slot
           mid == cpu.heaps
<1>1. Record(b.heap, {a, b}) /\ heaps' = gpu.heaps
  BY DEF FillBufferWithPattern
<1>2. heaps \in Seq(Heaps)
  BY DEF ListInv, TypeInv
<1>3. /\ mid \in Seq(Heaps) /\ Len(mid) >= Len(heaps)
      /\ \A h \in 1..Len(heaps) : mid[h].size >= heaps[h].size
      /\ a \in Slots /\ a.heap \in 1..Len(mid)
      /\ a.index = mid[a.heap].size
      /\ a.heap \in 1..Len(heaps) => a.index > heaps[a.heap].size
  BY <1>2, AllocDescriptorsResult
<1> HIDE DEF cpu
<1>4. /\ heaps' \in Seq(Heaps) /\ Len(heaps') >= Len(mid)
      /\ \A h \in 1..Len(mid) : heaps'[h].size >= mid[h].size
      /\ b \in Slots /\ b.heap \in 1..Len(heaps')
      /\ b.index = heaps'[b.heap].size
      /\ b.heap \in 1..Len(mid) => b.index > mid[b.heap].size
  BY <1>1, <1>3, AllocDescriptorsResult
<1> HIDE DEF gpu, a, b, mid
<1>5. Len(heaps) \in Nat /\ Len(mid) \in Nat /\ Len(heaps') \in Nat
  BY <1>2, <1>3, <1>4, LenProperties
<1>6. \A h \in 1..Len(heaps) : heaps[h].size \in Nat
  <2> TAKE h \in 1..Len(heaps)
  <2>1. heaps[h] \in Heaps
    BY <1>2, ElementOfSeq
  <2>2. QED
    BY <2>1 DEF Heaps
<1>7. \A h \in 1..Len(mid) : mid[h].size \in Nat
  <2> TAKE h \in 1..Len(mid)
  <2>1. mid[h] \in Heaps
    BY <1>3, ElementOfSeq
  <2>2. QED
    BY <2>1 DEF Heaps
<1>8. \A h \in 1..Len(heaps') : heaps'[h].size \in Nat
  <2> TAKE h \in 1..Len(heaps')
  <2>1. heaps'[h] \in Heaps
    BY <1>4, ElementOfSeq
  <2>2. QED
    BY <2>1 DEF Heaps
<1>9. \A h \in 1..Len(heaps) : heaps'[h].size >= heaps[h].size
  <2> TAKE h \in 1..Len(heaps)
  <2>1. h \in 1..Len(mid) /\ h \in 1..Len(heaps')
    BY <1>3, <1>4, <1>5
  <2>2. mid[h].size >= heaps[h].size /\ heaps'[h].size >= mid[h].size
    BY <2>1, <1>3, <1>4
  <2>3. heaps[h].size \in Nat /\ mid[h].size \in Nat /\ heaps'[h].size \in Nat
    BY <2>1, <1>6, <1>7, <1>8
  <2>4. QED
    BY <2>2, <2>3
<1>10. /\ a.heap \in 1..Len(heaps') /\ a.index <= heaps'[a.heap].size
       /\ b.index <= heaps'[b.heap].size
  BY <1>3, <1>4, <1>5, <1>7, <1>8
<1>11. b.heap \in 1..Len(heaps) => b.index > heaps[b.heap].size
  BY <1>3, <1>4, <1>5, <1>6, <1>7, <1>8
<1>12. Occupied(heaps', {a, b})
  BY <1>4, <1>10 DEF Occupied
<1>13. Len(heaps') >= Len(heaps)
  BY <1>3, <1>4, <1>5
<1>14. \A slot \in {a, b} :
          slot.heap \in 1..Len(heaps) => slot.index > heaps[slot.heap].size
  BY <1>3, <1>11
<1>15. QED
  BY <1>1, <1>3, <1>4, <1>9, <1>12, <1>13, <1>14

LEMMA FillStep == ASSUME ListInv, FillBufferWithPattern PROVE ListInv'
<1>1. PICK cpu \in Slots, gpu \in Slots :
         /\ Record(gpu.heap, {cpu, gpu})
         /\ heaps' \in Seq(Heaps) /\ Len(heaps') >= Len(heaps)
         /\ \A h \in 1..Len(heaps) : heaps'[h].size >= heaps[h].size
         /\ gpu.heap \in 1..Len(heaps')
         /\ Occupied(heaps', {cpu, gpu})
  BY FillDescriptors
<1>2. gpu.heap \in HeapNames /\ {cpu, gpu} \in SUBSET Slots
  BY DEF HeapNames, Slots
<1>3. QED
  BY <1>1, <1>2, RecordStep

(* Closing the list, or failing to, moves no command. *)
LEMMA CloseStep == ASSUME ListInv, Close \/ CloseOutOfMemory PROVE ListInv'
<1>s. /\ TypeInv /\ SignalsInv /\ RingEventsInv
      /\ CoveredInv /\ BoundInv /\ SlotsInv
  BY DEF ListInv
<1>1. /\ state = "open" /\ state' \in {"recorded", "failed"}
      /\ state' = "recorded" => current_descriptor_heap' = Null
      /\ current_descriptor_heap' \in {Null, current_descriptor_heap}
      /\ UNCHANGED <<queueVars, ringVars, heaps, entries, bound_heap,
                     allocator, opened>>
  BY DEF Close, CloseOutOfMemory, ForgetDescriptorHeap
<1>2. TypeInv'
  BY <1>1, <1>s DEF TypeInv, ListTypeOK, queueVars, ringVars
<1>3. SignalsInv' /\ RingEventsInv' /\ CoveredInv'
  BY <1>1, <1>s DEF SignalsInv, RingEventsInv, CoveredInv, queueVars, ringVars
<1>4. BoundInv'
  BY <1>1, <1>s DEF BoundInv, HeapIsBound
<1>5. SlotsInv'
  BY <1>1, <1>s DEF SlotsInv, queueVars
<1>6. QED
  BY <1>2, <1>3, <1>4, <1>5 DEF ListInv

(* The list that is executed becomes the newest one in flight. *)
LEMMA ListExecuteStep == ASSUME ListInv, Execute PROVE ListInv'
<1>s. /\ TypeInv /\ SignalsInv /\ RingEventsInv
      /\ CoveredInv /\ BoundInv /\ SlotsInv
  BY DEF ListInv
<1> DEFINE list == [commands |-> entries, signal |-> last_fence_value + 1]
<1>1. /\ state = "recorded" /\ state' = "closed"
      /\ last_fence_value' = last_fence_value + 1
      /\ in_flight' = Append(in_flight, list)
      /\ UNCHANGED <<completed, ringVars, heaps, current_descriptor_heap,
                     entries, bound_heap, allocator, opened>>
  BY DEF Execute, ExecuteCommandLists
<1>2. list \in Lists
  BY <1>s DEF TypeInv, Lists
<1> HIDE DEF list
<1>3. /\ in_flight' \in Seq(Lists)
      /\ Len(in_flight') = Len(in_flight) + 1 /\ Len(in_flight) \in Nat
      /\ \A k \in 1..Len(in_flight) : in_flight'[k] = in_flight[k]
      /\ in_flight'[Len(in_flight) + 1] = list
  BY <1>1, <1>2, <1>s, AppendProperties, LenProperties DEF TypeInv
<1>4. list.commands = entries /\ list.signal = last_fence_value + 1
  BY DEF list
<1>5. last_fence_value \in Nat /\ completed \in Nat
  BY <1>s DEF TypeInv
<1>6. TypeInv'
  BY <1>1, <1>3, <1>5, <1>s DEF TypeInv, ListTypeOK, ringVars
<1>7. SignalsInv'
  BY <1>1, <1>3, <1>4, <1>5, <1>s DEF SignalsInv
<1>8. RingEventsInv'
  BY <1>1, <1>5, <1>s DEF RingEventsInv, TypeInv, ListTypeOK, ringVars
<1>9. \A i \in 1..Len(list.commands) :
         completion_event'[list.commands[i].allocator] >= list.signal
  BY <1>1, <1>4, <1>5, <1>s DEF RingEventsInv, ringVars
<1>10. CoveredInv'
  <2> SUFFICES ASSUME NEW k \in 1..Len(in_flight'),
                      NEW i \in 1..Len(in_flight'[k].commands)
               PROVE  completion_event'[in_flight'[k].commands[i].allocator]
                         >= in_flight'[k].signal
    BY DEF CoveredInv
  <2>1. CASE k = Len(in_flight) + 1
    BY <2>1, <1>3, <1>9
  <2>2. CASE k \in 1..Len(in_flight)
    BY <2>2, <1>1, <1>3, <1>s DEF CoveredInv, ringVars
  <2>3. QED
    BY <2>1, <2>2, <1>3
<1>11. BoundInv'
  BY <1>1, <1>s DEF BoundInv, HeapIsBound
<1>12. SlotsInv'
  <2>1. \A i \in 1..Len(list.commands) :
            Occupied(heaps, list.commands[i].slots)
    BY <1>4, <1>s DEF SlotsInv
  <2>2. \A k \in 1..Len(in_flight') : \A i \in 1..Len(in_flight'[k].commands) :
           Occupied(heaps, in_flight'[k].commands[i].slots)
    <3> TAKE k \in 1..Len(in_flight')
    <3>1. CASE k = Len(in_flight) + 1
      BY <3>1, <1>3, <2>1
    <3>2. CASE k \in 1..Len(in_flight)
      BY <3>2, <1>3, <1>s DEF SlotsInv
    <3>3. QED
      BY <3>1, <3>2, <1>3
  <2>3. QED
    BY <2>2, <1>1, <1>s DEF SlotsInv
<1>13. QED
  BY <1>6, <1>7, <1>8, <1>10, <1>11, <1>12 DEF ListInv

(* The GPU finishes the oldest list in flight. *)
LEMMA ListGpuStep == ASSUME ListInv, Gpu PROVE ListInv'
<1>s. /\ TypeInv /\ SignalsInv /\ RingEventsInv
      /\ CoveredInv /\ BoundInv /\ SlotsInv
  BY DEF ListInv
<1>1. /\ in_flight # << >>
      /\ completed' = Head(in_flight).signal
      /\ in_flight' = Tail(in_flight)
      /\ last_fence_value' = last_fence_value
      /\ UNCHANGED <<ringVars, heaps, listVars>>
  BY DEF Gpu, GpuCompletes
<1>2. in_flight \in Seq(Lists) /\ last_fence_value \in Nat /\ completed \in Nat
  BY <1>s DEF TypeInv
<1>3. /\ in_flight' \in Seq(Lists) /\ Len(in_flight) \in Nat \ {0}
      /\ Len(in_flight') = Len(in_flight) - 1
      /\ \A k \in 1..Len(in_flight') : in_flight'[k] = in_flight[k + 1]
  BY <1>1, <1>2, HeadTailProperties, EmptySeq
<1>4. completed' = completed + 1
  <2>1. Head(in_flight) = in_flight[1]
    OBVIOUS
  <2>2. QED
    BY <2>1, <1>1, <1>3, <1>s DEF SignalsInv
<1>5. \A k \in 1..Len(in_flight') : k + 1 \in 1..Len(in_flight)
  BY <1>3
<1>6. TypeInv'
  BY <1>1, <1>2, <1>3, <1>4, <1>s DEF TypeInv, ListTypeOK, ringVars, listVars
<1>7. SignalsInv'
  <2>1. completed' + Len(in_flight') = last_fence_value'
    BY <1>1, <1>2, <1>3, <1>4, <1>s DEF SignalsInv
  <2>2. \A k \in 1..Len(in_flight') : in_flight'[k].signal = completed' + k
    <3> TAKE k \in 1..Len(in_flight')
    <3>1. in_flight'[k].signal = in_flight[k + 1].signal
      BY <1>3
    <3>2. in_flight[k + 1].signal = completed + (k + 1)
      BY <1>5, <1>s DEF SignalsInv
    <3>3. k \in Nat
      BY <1>3
    <3>4. QED
      BY <3>1, <3>2, <3>3, <1>2, <1>4
  <2>3. QED
    BY <2>1, <2>2 DEF SignalsInv
<1>8. RingEventsInv' /\ BoundInv'
  BY <1>1, <1>s DEF RingEventsInv, BoundInv, HeapIsBound, ringVars, listVars
<1>9. CoveredInv'
  BY <1>1, <1>3, <1>5, <1>s DEF CoveredInv, ringVars
<1>10. SlotsInv'
  BY <1>1, <1>3, <1>5, <1>s DEF SlotsInv, listVars
<1>11. QED
  BY <1>6, <1>7, <1>8, <1>9, <1>10 DEF ListInv

-----------------------------------------------------------------------------
LEMMA StepKeepsIInv == ListInv /\ [ListNext]_allVars => ListInv'
<1> SUFFICES ASSUME ListInv, [ListNext]_allVars PROVE ListInv'
  OBVIOUS
<1>1. CASE UNCHANGED allVars
  <2>1. UNCHANGED <<queueVars, ringVars, heaps, listVars>>
    BY <1>1 DEF allVars
  <2>2. TypeInv' /\ SignalsInv' /\ RingEventsInv' /\ CoveredInv'
    BY <2>1 DEF ListInv, TypeInv, ListTypeOK, SignalsInv,
                RingEventsInv, CoveredInv,
                queueVars, ringVars, listVars
  <2>3. BoundInv' /\ SlotsInv'
    BY <2>1 DEF ListInv, BoundInv, HeapIsBound, SlotsInv, queueVars, listVars
  <2>4. QED
    BY <2>2, <2>3 DEF ListInv
<1>2. CASE ListNext
  BY <1>2, OpenStep, DispatchStep, FillStep, CloseStep, ListExecuteStep,
     ListGpuStep
     DEF ListNext
<1>3. QED
  BY <1>1, <1>2

(* The inductive invariant holds in every state, however far the GPU lags    *)
(* behind the thread that records.                                           *)
THEOREM ListInvariance == ListSpec => []ListInv
<1>1. QED
  BY InitListInv, StepKeepsIInv, PTL DEF ListSpec

-----------------------------------------------------------------------------
(* Whatever lists are in flight, an allocator's event covers all that was    *)
(* recorded into it, and the assertion of GetNextAllocator holds: when the   *)
(* current allocator is done, so is the other one.                           *)
THEOREM RingSafety == ListSpec => []RingInv
<1>1. ListInv => RingInv
  <2> SUFFICES ASSUME ListInv PROVE RingInv
    OBVIOUS
  <2>1. ListTypeOK /\ completed \in Nat /\ last_fence_value \in Nat
    BY DEF ListInv, TypeInv
  <2>2. ASSUME NEW k \in DOMAIN in_flight,
               NEW i \in DOMAIN in_flight[k].commands
        PROVE  completion_event[in_flight[k].commands[i].allocator]
                  >= in_flight[k].signal
    <3>1. in_flight \in Seq(Lists) /\ k \in 1..Len(in_flight)
      BY LenProperties DEF ListInv, TypeInv
    <3>2. in_flight[k] \in Lists
      BY <3>1, ElementOfSeq
    <3>3. in_flight[k].commands \in Seq(Commands)
      BY <3>2 DEF Lists
    <3>4. i \in 1..Len(in_flight[k].commands)
      BY <3>3, LenProperties
    <3>5. QED
      BY <3>1, <3>4 DEF ListInv, CoveredInv
  <2>3. ASSUME state = "closed"
        PROVE  LET other == (current_command_allocator + 1) % AllocatorCount
               IN  \/ ~IsSignaled(completion_event[current_command_allocator])
                   \/ IsSignaled(completion_event[other])
    <3> DEFINE other == (current_command_allocator + 1) % AllocatorCount
    <3>1. other \in Allocators /\ current_command_allocator \in Allocators
      BY <2>1 DEF ListTypeOK, Allocators
    <3>2. /\ completion_event[other] \in Nat
          /\ completion_event[current_command_allocator] \in Nat
      BY <3>1, <2>1 DEF ListTypeOK
    <3> HIDE DEF other
    <3>3. completion_event[current_command_allocator] = last_fence_value
      BY <2>3 DEF ListInv, RingEventsInv
    <3>4. completion_event[other] <= last_fence_value
      BY <3>1, <3>2, <3>3, <2>1 DEF ListInv, RingEventsInv
    <3>5. \/ ~IsSignaled(completion_event[current_command_allocator])
          \/ IsSignaled(completion_event[other])
      BY <3>2, <3>3, <3>4, <2>1 DEF IsSignaled
    <3>6. QED
      BY <3>5 DEF other
  <2>4. QED
    BY <2>1, <2>2, <2>3 DEF RingInv
<1>2. QED
  BY <1>1, ListInvariance, PTL

(* The cached pointer never saves a call of SetDescriptorHeaps that the      *)
(* D3D12 list needed.                                                        *)
THEOREM HeapBound == ListSpec => []HeapIsBound
<1>1. ListInv => HeapIsBound
  BY DEF ListInv, BoundInv
<1>2. QED
  BY <1>1, ListInvariance, PTL

(* The allocator that Open resets holds no commands of a list in flight.     *)
THEOREM NoReset == ListSpec => NoResetInUse
<1>1. ASSUME ListInv, Open,
             current_command_allocator' # current_command_allocator,
             NEW commands \in InFlight, NEW i \in DOMAIN commands
      PROVE  commands[i].allocator # current_command_allocator'
  <2> DEFINE other == (current_command_allocator + 1) % AllocatorCount
  <2>1. current_command_allocator' = other
        /\ IsSignaled(completion_event[other])
    BY <1>1 DEF Open, GetNextAllocator, NextAllocator
  <2>2. ListTypeOK /\ completed \in Nat /\ in_flight \in Seq(Lists)
    BY <1>1 DEF ListInv, TypeInv
  <2>3. completion_event[other] <= completed
    BY <2>1 DEF IsSignaled
  <2>4. completion_event[other] \in Nat
    BY <2>2 DEF ListTypeOK, Allocators
  <2> HIDE DEF other
  <2>5. PICK k \in DOMAIN in_flight : commands = in_flight[k].commands
    BY <1>1 DEF InFlight
  <2>6. k \in 1..Len(in_flight)
    BY <2>2, <2>5, LenProperties
  <2>7. in_flight[k] \in Lists
    BY <2>2, <2>6, ElementOfSeq
  <2>8. commands \in Seq(Commands)
    BY <2>5, <2>7 DEF Lists
  <2>9. i \in 1..Len(commands)
    BY <1>1, <2>8, LenProperties
  <2>10. completion_event[commands[i].allocator] >= in_flight[k].signal
    BY <1>1, <2>5, <2>6, <2>9 DEF ListInv, CoveredInv
  <2>11. in_flight[k].signal = completed + k /\ k \in Nat \ {0}
    BY <1>1, <2>2, <2>6, LenProperties DEF ListInv, SignalsInv
  <2>12. QED
    BY <2>1, <2>2, <2>3, <2>4, <2>10, <2>11
<1>2. ListInv /\ [ListNext]_allVars =>
        [Open /\ current_command_allocator' # current_command_allocator
            => \A commands \in InFlight : \A i \in DOMAIN commands :
                  commands[i].allocator # current_command_allocator']_allVars
  BY <1>1
<1>3. QED
  BY <1>2, ListInvariance, PTL DEF ListSpec, NoResetInUse

(* A fill writes descriptors that no recorded or in-flight command reads,    *)
(* whichever heap of the pool they come from.                                *)
THEOREM DescriptorsFresh == ListSpec => DescriptorsNotReused
<1>1. ASSUME ListInv, FillBufferWithPattern
      PROVE  entries'[Len(entries')].slots
                \cap (UsedByGpu \cup UsedByList) = {}
  <2>1. PICK cpu \in Slots, gpu \in Slots :
           /\ Record(gpu.heap, {cpu, gpu})
           /\ \A slot \in {cpu, gpu} :
                 slot.heap \in 1..Len(heaps) =>
                    slot.index > heaps[slot.heap].size
    BY <1>1, FillDescriptors
  <2>2. /\ heaps \in Seq(Heaps) /\ entries \in Seq(Commands)
        /\ in_flight \in Seq(Lists)
    BY <1>1 DEF ListInv, TypeInv
  <2>3. entries'[Len(entries')].slots = {cpu, gpu}
    <3> DEFINE c == [wants |-> gpu.heap, bound |-> bound_heap',
                     slots |-> {cpu, gpu}, allocator |-> allocator]
    <3>1. entries' = Append(entries, c) /\ c.slots = {cpu, gpu}
      BY <2>1 DEF Record
    <3> HIDE DEF c
    <3>2. /\ Len(Append(entries, c)) = Len(entries) + 1
          /\ Append(entries, c)[Len(entries) + 1] = c
      BY <2>2
    <3>3. QED
      BY <3>1, <3>2
  <2>4. ASSUME NEW slot \in UsedByGpu PROVE Occupied(heaps, {slot})
    <3>1. PICK k \in DOMAIN in_flight : slot \in Used(in_flight[k].commands)
      BY DEF UsedByGpu, InFlight
    <3>2. k \in 1..Len(in_flight)
      BY <2>2, <3>1, LenProperties
    <3>3. in_flight[k] \in Lists
      BY <2>2, <3>2, ElementOfSeq
    <3>4. in_flight[k].commands \in Seq(Commands)
      BY <3>3 DEF Lists
    <3>5. PICK i \in DOMAIN in_flight[k].commands :
             slot \in in_flight[k].commands[i].slots
      BY <3>1 DEF Used
    <3>6. i \in 1..Len(in_flight[k].commands)
      BY <3>4, <3>5, LenProperties
    <3>7. Occupied(heaps, in_flight[k].commands[i].slots)
      BY <1>1, <3>2, <3>6 DEF ListInv, SlotsInv
    <3>8. QED
      BY <3>5, <3>7 DEF Occupied
  <2>5. ASSUME NEW slot \in UsedByList PROVE Occupied(heaps, {slot})
    <3>1. PICK i \in DOMAIN entries : slot \in entries[i].slots
      BY DEF UsedByList, Used
    <3>2. i \in 1..Len(entries)
      BY <2>2, <3>1, LenProperties
    <3>3. Occupied(heaps, entries[i].slots)
      BY <1>1, <3>2 DEF ListInv, SlotsInv
    <3>4. QED
      BY <3>1, <3>3 DEF Occupied
  <2>6. ASSUME NEW slot \in {cpu, gpu} PROVE ~Occupied(heaps, {slot})
    <3> SUFFICES ASSUME Occupied(heaps, {slot}) PROVE FALSE
      OBVIOUS
    <3>1. slot.heap \in 1..Len(heaps) /\ slot.index <= heaps[slot.heap].size
      BY DEF Occupied
    <3>2. heaps[slot.heap] \in Heaps
      BY <2>2, <3>1, ElementOfSeq
    <3>3. heaps[slot.heap].size \in Nat /\ slot.index \in Nat
      BY <3>2, <2>1 DEF Heaps, Slots
    <3>4. QED
      BY <2>1, <3>1, <3>3
  <2>7. QED
    BY <2>3, <2>4, <2>5, <2>6
<1>2. ListInv /\ [ListNext]_allVars =>
        [FillBufferWithPattern =>
            entries'[Len(entries')].slots
               \cap (UsedByGpu \cup UsedByList) = {}]_allVars
  BY <1>1
<1>3. QED
  BY <1>2, ListInvariance, PTL DEF ListSpec, DescriptorsNotReused
=============================================================================

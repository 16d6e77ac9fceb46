---------------------------- MODULE CommandStream ----------------------------
(***************************************************************************)
(* What DmlExecutionContext promises its callers, without batches, threads *)
(* or command lists: commands are executed exactly once, in the order of   *)
(* the calls; the event a call returns is signaled exactly when the GPU    *)
(* has executed that command and all the commands with the same event; and *)
(* a caller that synchronizes resumes only after every command submitted   *)
(* before its call has been executed.                                      *)
(***************************************************************************)
EXTENDS Naturals, Sequences

CONSTANT Callers

VARIABLES
    issued,     \* the event returned for each command
    executed,   \* the commands executed so far
    signaled,   \* the newest event signaled
    barrier     \* per caller, [waiting, point]: the commands it waits for

vars == <<issued, executed, signaled, barrier>>

Init ==
    /\ issued = << >>
    /\ executed = << >>
    /\ signaled = 0
    /\ barrier = [c \in Callers |-> [waiting |-> FALSE, point |-> 0]]

LastEvent == IF issued = << >> THEN 0 ELSE issued[Len(issued)]

(* A command shares the event of the command before it or has the next one,  *)
(* which is not signaled yet.                                                *)
Issue ==
    /\ \E e \in {LastEvent, LastEvent + 1} :
          /\ e > signaled
          /\ issued' = Append(issued, e)
    /\ UNCHANGED <<executed, signaled, barrier>>

(* The next event: all and only its commands are executed, in order. *)
Signal ==
    /\ signaled' = signaled + 1
    /\ \E n \in (Len(executed) + 1)..Len(issued) :
          /\ \A i \in 1..Len(issued) : issued[i] <= signaled + 1 <=> i <= n
          /\ executed' = [i \in 1..n |-> i]
    /\ UNCHANGED <<issued, barrier>>

StartBarrier(c) ==
    /\ ~barrier[c].waiting
    /\ barrier' = [barrier EXCEPT ![c] = [waiting |-> TRUE,
                                          point |-> Len(issued)]]
    /\ UNCHANGED <<issued, executed, signaled>>

PassBarrier(c) ==
    /\ barrier[c].waiting
    /\ Len(executed) >= barrier[c].point
    /\ barrier' = [barrier EXCEPT ![c].waiting = FALSE]
    /\ UNCHANGED <<issued, executed, signaled>>

Next ==
    \/ Issue
    \/ Signal
    \/ \E c \in Callers : StartBarrier(c) \/ PassBarrier(c)

Spec == Init /\ [][Next]_vars
=============================================================================

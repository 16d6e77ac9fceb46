---------------------------- MODULE CallbackQueue ----------------------------
(***************************************************************************)
(* What DmlEventQueue promises, without its thread and its multimap: a     *)
(* callback is invoked at most once, only after the fence has reached its  *)
(* value, and never before one that was enqueued earlier for the same or a *)
(* smaller value.                                                          *)
(***************************************************************************)
EXTENDS Naturals, Sequences

CONSTANT Fences

VARIABLES
    value,      \* the fence value of each callback, in the order of the calls
    fired,      \* the callbacks invoked, in order
    completed   \* the value of the fence

vars == <<value, fired, completed>>

Init == value = << >> /\ fired = << >> /\ completed = 0

Unfired == {e \in 1..Len(value) : \A i \in 1..Len(fired) : fired[i] # e}

Enqueue(v) ==
    /\ value' = Append(value, v)
    /\ UNCHANGED <<fired, completed>>

(* The value has been reached: the call itself invokes the callback. *)
EnqueueAndFire(v) ==
    /\ v <= completed
    /\ \A d \in Unfired : value[d] > v
    /\ value' = Append(value, v)
    /\ fired' = Append(fired, Len(value) + 1)
    /\ UNCHANGED completed

Fire(e) ==
    /\ e \in Unfired
    /\ value[e] <= completed
    /\ \A d \in Unfired : d < e => value[d] > value[e]
    /\ fired' = Append(fired, e)
    /\ UNCHANGED <<value, completed>>

Advance ==
    /\ completed' \in Fences
    /\ completed' > completed
    /\ UNCHANGED <<value, fired>>

Next ==
    \/ \E v \in Fences : Enqueue(v) \/ EnqueueAndFire(v)
    \/ \E e \in Unfired : Fire(e)
    \/ Advance

Spec == Init /\ [][Next]_vars
=============================================================================

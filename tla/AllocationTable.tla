--------------------------- MODULE AllocationTable ---------------------------
(***************************************************************************)
(* What an allocator promises, without its IDs, chunks and bins: a granted *)
(* block is a range of addresses that excludes the null address and that   *)
(* overlaps no block still granted, over memory that no such block uses.   *)
(***************************************************************************)
EXTENDS Naturals

VARIABLE live   \* the blocks granted and not yet released

Addresses(b) == b.ptr .. (b.ptr + b.size - 1)

Grant(b) ==
    /\ b.size > 0
    /\ 0 \notin Addresses(b)
    /\ \A c \in live : /\ Addresses(b) \cap Addresses(c) = {}
                       /\ b.memory # c.memory
    /\ live' = live \cup {b}

Release(b) == live' = live \ {b}

Init == live = {}

Next ==
    \/ \E b \in live' \ live : Grant(b)
    \/ \E b \in live : Release(b)

Spec == Init /\ [][Next]_live
=============================================================================

----------------------------- MODULE Allocators -----------------------------
(* The allocator of page frames and the user heap.  malloc reaches the     *)
(* other only through brk (module Vmm), so the two share no state, and a   *)
(* behaviour uses one of them while the other rests.                       *)
EXTENDS Pmm, Malloc

VARIABLE allocator

AllocatorsInit == Init /\ PmmInit /\ allocator \in {"pmm", "malloc"}

AllocatorsNext ==
    /\ \/ allocator = "pmm" /\ PmmNext /\ UNCHANGED vars
       \/ allocator = "malloc" /\ Next /\ UNCHANGED pmmVars
    /\ UNCHANGED allocator

AllocatorsSpec ==
    AllocatorsInit /\ [][AllocatorsNext]_<<allocator, vars, pmmVars>> /\ Fairness
=============================================================================

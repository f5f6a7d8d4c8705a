-------------------------------- MODULE Heap --------------------------------
(* What an allocator promises: the blocks it has handed out and not got    *)
(* back never overlap, and each is as large as was asked for.              *)
EXTENDS Integers

VARIABLE live   \* the blocks in use, each [addr, size]

Apart(a, b) == a.addr + a.size <= b.addr \/ b.addr + b.size <= a.addr

Init == live = {}

Alloc ==
    \E b \in live' \ live : live' = live \cup {b} /\ \A a \in live : Apart(a, b)

Free == \E b \in live : live' = live \ {b}

Next == Alloc \/ Free

Spec == Init /\ [][Next]_live
=============================================================================

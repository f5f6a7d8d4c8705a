------------------------------- MODULE Malloc -------------------------------
(***************************************************************************)
(* The user-space heap, malloc.c: a circular list of free blocks in        *)
(* address order, which malloc cuts blocks from and free puts them back    *)
(* into, merged with their neighbours.  Addresses and sizes are in units   *)
(* of header_t, and a block's size counts its header.                      *)
(*                                                                         *)
(* One step is one turn of a search loop.  A program has one thread, so    *)
(* nothing happens between them; taking them apart lets the searches be    *)
(* shown to end.                                                           *)
(***************************************************************************)
EXTENDS Integers, FiniteSets

CONSTANTS
    NULL,
    HEADER,            \* sizeof(header_t), in bytes
    SIZE_LIMIT,        \* size_t wraps to 0 here
    MIN_ALLOC_UNITS,
    HeapStart,         \* the break a program starts with
    HeapEnd,           \* bound: the kernel grants no break beyond
    Sizes              \* the bytes programs ask for

base == 0              \* the sentinel, in static memory below the heap

Addr == {base} \cup HeapStart .. HeapEnd

ASSUME MallocAssumption ==
    /\ HEADER \in Nat \ {0} /\ SIZE_LIMIT \in Nat \ {0}
    /\ MIN_ALLOC_UNITS \in Nat \ {0}
    /\ HeapStart \in Nat \ {0} /\ HeapEnd \in Nat /\ HeapStart <= HeapEnd
    /\ NULL \notin Int
    /\ Sizes \subseteq 0 .. SIZE_LIMIT - 1

VARIABLES
    next,              \* of each free block
    size,              \* of each block, free or not
    free_list,
    brk,
    pc,                \* user, malloc (its search), free (its search)
    prev, cur,         \* of the search under way
    asked,             \* bytes malloc was called with
    block,             \* what free puts back
    growing,           \* that free was called by grow_heap
    held               \* blocks in use: [addr, size], the bytes as asked for

vars == <<next, size, free_list, brk, pc, prev, cur, asked, block, growing, held>>

Update(f, a, x) == [b \in DOMAIN f \cup {a} |-> IF b = a THEN x ELSE f[b]]
Without(f, a)   == [b \in DOMAIN f \ {a} |-> f[b]]

(* Mutant: no unit for the header. *)
Units_bare(bytes) == ((bytes + HEADER - 1) % SIZE_LIMIT) \div HEADER

Units(bytes) == ((bytes + HEADER - 1) % SIZE_LIMIT) \div HEADER + 1

-----------------------------------------------------------------------------
Init ==
    /\ next = [a \in {} |-> NULL] /\ size = [a \in {} |-> 0]
    /\ free_list = NULL
    /\ brk = HeapStart
    /\ pc = "user" /\ prev = NULL /\ cur = NULL /\ asked = 0
    /\ block = NULL /\ growing = FALSE
    /\ held = {}

(* malloc up to its loop.  The first call makes the list of base alone. *)
malloc(bytes) ==
    LET first == free_list = NULL
    IN  /\ pc = "user" /\ bytes # 0
        /\ next' = IF first THEN Update(next, base, base) ELSE next
        /\ size' = IF first THEN Update(size, base, 0) ELSE size
        /\ free_list' = IF first THEN base ELSE free_list
        /\ prev' = free_list'
        /\ cur' = next'[free_list']
        /\ asked' = bytes
        /\ pc' = "malloc"
        /\ UNCHANGED <<brk, block, growing, held>>

(* The searches leave nothing in their locals. *)
Return == pc' = "user" /\ prev' = NULL /\ cur' = NULL /\ asked' = 0

Hand(a) == held' = held \cup {[addr |-> (a + 1) * HEADER, size |-> asked]}

malloc_exact ==
    /\ pc = "malloc" /\ size[cur] = Units(asked)
    /\ next' = Without(Update(next, prev, next[cur]), cur)
    /\ free_list' = prev
    /\ Hand(cur) /\ Return
    /\ UNCHANGED <<size, brk, block, growing>>

(* The tail of a block that is too large is cut off. *)
malloc_split ==
    LET u == Units(asked)
        a == cur + size[cur] - u
    IN  /\ pc = "malloc" /\ size[cur] > u
        /\ size' = Update(Update(size, cur, size[cur] - u), a, u)
        /\ free_list' = prev
        /\ Hand(a) /\ Return
        /\ UNCHANGED <<next, brk, block, growing>>

malloc_next ==
    /\ pc = "malloc" /\ size[cur] < Units(asked) /\ cur # free_list
    /\ prev' = cur /\ cur' = next[cur]
    /\ UNCHANGED <<next, size, free_list, brk, pc, asked, block, growing, held>>

(* Mutant: the batch is requested, but only what was needed recorded. *)
Grown_unrecorded(units) ==
    /\ brk' = brk + (IF units < MIN_ALLOC_UNITS THEN MIN_ALLOC_UNITS ELSE units)
    /\ brk' <= HeapEnd
    /\ size' = Update(size, brk, units)

(* sbrk for at least MIN_ALLOC_UNITS, and the block made of it. *)
Grown(units) ==
    LET n == IF units < MIN_ALLOC_UNITS THEN MIN_ALLOC_UNITS ELSE units
    IN  /\ brk + n <= HeapEnd
        /\ brk' = brk + n /\ size' = Update(size, brk, n)

(* The search has been round the list. *)
Exhausted == size[cur] < Units(asked) /\ cur = free_list

grow_heap ==
    /\ pc = "malloc" /\ Exhausted
    /\ Grown(Units(asked))
    /\ block' = brk /\ growing' = TRUE
    /\ cur' = free_list /\ pc' = "free"
    /\ UNCHANGED <<next, free_list, prev, asked, held>>

(* sbrk may fail whenever it is called, as the kernel may be out of pages. *)
grow_heap_fails ==
    /\ pc = "malloc" /\ Exhausted
    /\ Return
    /\ UNCHANGED <<next, size, free_list, brk, block, growing, held>>

(* free of a block in use; NULL is left alone. *)
free(b) ==
    /\ pc = "user" /\ b \in held
    /\ held' = held \ {b}
    /\ block' = b.addr \div HEADER - 1
    /\ cur' = free_list /\ pc' = "free"
    /\ UNCHANGED <<next, size, free_list, brk, prev, asked, growing>>

(* Mutant: the list never wraps. *)
Between_only(a, b, c) == b > a /\ b < c

(* Mutant: the first block below will do. *)
Between_above(a, b, c) == b > a

(* b belongs between a and its successor c in the circular list. *)
Between(a, b, c) ==
    \/ b > a /\ b < c
    \/ a >= c /\ (b > a \/ b < c)

free_next ==
    /\ pc = "free" /\ ~ Between(cur, block, next[cur])
    /\ cur' = next[cur]
    /\ UNCHANGED <<next, size, free_list, brk, pc, prev, asked, block, growing, held>>

(* Merge with the block right after, then with the one right before. *)
MergedAfter(c, b, n, s) ==
    IF b + s[b] = n[c]
    THEN [next |-> Without(Update(n, b, n[n[c]]), n[c]),
          size |-> Without(Update(s, b, s[b] + s[n[c]]), n[c])]
    ELSE [next |-> Update(n, b, n[c]), size |-> s]

(* Mutant: no merge with the block right before. *)
MergedBefore_not(c, b, n, s) == [next |-> Update(n, c, b), size |-> s]

MergedBefore(c, b, n, s) ==
    IF c + s[c] = b
    THEN [next |-> Without(Update(n, c, n[b]), b),
          size |-> Without(Update(s, c, s[c] + s[b]), b)]
    ELSE [next |-> Update(n, c, b), size |-> s]

(* The end of free, and of the turn of malloc's loop that grew the heap:   *)
(* the search goes on from the block after the one grow_heap returned.     *)
free_insert ==
    LET m == MergedAfter(cur, block, next, size)
        j == MergedBefore(cur, block, m.next, m.size)
    IN  /\ pc = "free" /\ Between(cur, block, next[cur])
        /\ next' = j.next /\ size' = j.size
        /\ free_list' = cur
        /\ block' = NULL /\ growing' = FALSE
        /\ IF growing
           THEN pc' = "malloc" /\ prev' = cur /\ cur' = j.next[cur] /\ UNCHANGED asked
           ELSE Return
        /\ UNCHANGED <<brk, held>>

Search ==
    malloc_exact \/ malloc_split \/ malloc_next \/ grow_heap \/ grow_heap_fails
    \/ free_next \/ free_insert

Next == Search \/ (\E n \in Sizes : malloc(n)) \/ (\E b \in held : free(b))

Spec == Init /\ [][Next]_vars

(* A call that was made runs; programs need not call. *)
Fairness == WF_vars(Search)
-----------------------------------------------------------------------------
FreeBlocks == DOMAIN next \ {base}

(* Every variable has its type: the free list is closed under next, and    *)
(* blocks lie within the break the kernel granted.                         *)
TypeOK ==
    /\ DOMAIN next \subseteq DOMAIN size /\ DOMAIN size \subseteq Addr
    /\ \A a \in DOMAIN next : next[a] \in DOMAIN next
    /\ \A a \in DOMAIN size : size[a] \in Nat
    /\ free_list \in DOMAIN next \cup {NULL}
    /\ brk \in HeapStart .. HeapEnd
    /\ pc \in {"user", "malloc", "free"}
    /\ {prev, cur, block} \subseteq Addr \cup {NULL}
    /\ asked \in Sizes \cup {0} /\ growing \in BOOLEAN

(* The blocks tile the heap from end to end, free or in use: no unit is    *)
(* lost or in two of them, however they were cut and merged.               *)
Tiled ==
    /\ TypeOK
    /\ \A u \in HeapStart .. brk - 1 :
          Cardinality({a \in DOMAIN size \ {base} : a <= u /\ u < a + size[a]}) = 1

(* malloc.c:11: `next` "links free blocks together in address order", in   *)
(* one circle through base: what free's search relies on.                  *)
ListOrdered ==
    \A a \in DOMAIN next :
        /\ next[a] = base \/ next[a] > a
        /\ \A c \in DOMAIN next : a < c => c >= next[a] /\ next[a] # base

(* stdlib.h:26: free coalesces a block "with adjacent free blocks where    *)
(* possible": no two free blocks ever touch.                               *)
Coalesced == \A a \in FreeBlocks : a + size[a] \notin FreeBlocks

(* Every call returns: neither search goes round the circle for ever, also *)
(* when the heap grew half way.                                            *)
Returns == pc # "user" ~> pc = "user"

Blocks == {[addr |-> b.addr - HEADER, size |-> b.size + HEADER] : b \in held}

UserHeap == INSTANCE Heap WITH live <- Blocks

(* Blocks handed out, each with the header that free will read, never      *)
(* overlap, whatever the order of calls.                                   *)
HeapSpec == UserHeap!Spec
=============================================================================

-------------------------------- MODULE Slab --------------------------------
(***************************************************************************)
(* The kernel heap, slab.rs: a cache per size class, whose slabs are pages *)
(* cut into chunks of that size.  A slab lies on a doubly linked list of   *)
(* its cache, partial or full; one that becomes empty goes back to the     *)
(* page allocator.  kmalloc and kfree are one step each, as they are for   *)
(* callers with interrupts masked; pipe.c:141 frees with interrupts on,    *)
(* which is left out.                                                      *)
(*                                                                         *)
(* The allocator's memory is one record, which every function maps to the  *)
(* record it leaves:                                                       *)
(*   slab   the header of each page: magic, cache, free_list (the chunks'  *)
(*          offsets in list order), free_chunks, total_chunks              *)
(*   next, prev   the header's links                                       *)
(*   head   of each list of each cache                                     *)
(*   free_pages   what pmm_alloc_page may still hand out                   *)
(* A page given back keeps its contents until it is allocated again.       *)
(***************************************************************************)
EXTENDS Integers, Sequences, FiniteSets, Functions

CONSTANTS
    Pages,         \* bound: page frames 1 .. Pages are to be had
    NULL,
    PAGE_SIZE,
    DATA_START,    \* where chunks begin: size_of::<Slab>() rounded up to 16
    CACHE_SIZES,   \* object size of each cache, increasing
    Sizes          \* what callers ask for

Page  == 1 .. Pages
Cache == 1 .. Len(CACHE_SIZES)
List  == {"partial", "free", "full"}

MaxSize == CACHE_SIZES[Len(CACHE_SIZES)]

ASSUME SlabAssumption ==
    /\ Pages \in Nat /\ NULL \notin Int /\ NULL \notin [page : Nat, off : Nat]
    /\ PAGE_SIZE \in Nat /\ DATA_START \in 0 .. PAGE_SIZE
    /\ CACHE_SIZES \in Seq(Nat \ {0}) /\ CACHE_SIZES # <<>>
    /\ \A i, j \in Cache : i < j => CACHE_SIZES[i] < CACHE_SIZES[j]
    /\ DATA_START + MaxSize <= PAGE_SIZE
    /\ Sizes \subseteq Nat

VARIABLES
    heap,
    held           \* blocks in use: [page, off, size], size as it was asked for

vars == <<heap, held>>
-----------------------------------------------------------------------------
list_remove(h, c, l, s) ==
    [h EXCEPT !.next = [q \in Page |-> IF q = h.prev[s] THEN h.next[s] ELSE h.next[q]],
              !.prev = [q \in Page |-> IF q = h.next[s] THEN h.prev[s] ELSE h.prev[q]],
              !.head[c][l] = IF @ = s THEN h.next[s] ELSE @]

(* Mutant: the old head does not learn of its new predecessor. *)
list_add_one_way(h, c, l, s) ==
    [h EXCEPT !.next[s] = h.head[c][l], !.prev[s] = NULL, !.head[c][l] = s]

list_add(h, c, l, s) ==
    [h EXCEPT !.next[s] = h.head[c][l],
              !.prev = [q \in Page |-> IF q = s THEN NULL
                                       ELSE IF q = h.head[c][l] THEN s ELSE h.prev[q]],
              !.head[c][l] = s]

total_chunks(c) == (PAGE_SIZE - DATA_START) \div CACHE_SIZES[c]

(* The chunks of a new slab, the last one first. *)
Chunks(c) ==
    [i \in 1 .. total_chunks(c) |-> DATA_START + (total_chunks(c) - i) * CACHE_SIZES[c]]

(* pmm_alloc_page returns the lowest free page (AllocLowest in Pmm). *)
NewPage(h) == CHOOSE p \in h.free_pages : \A q \in h.free_pages : p <= q

(* Called with a page to be had; the new slab is NewPage(h). *)
allocate_new_slab(h, c) ==
    LET s == NewPage(h)
    IN  [h EXCEPT !.free_pages = @ \ {s},
                  !.next[s] = NULL, !.prev[s] = NULL,
                  !.slab[s] = [magic |-> TRUE, cache |-> c, free_list |-> Chunks(c),
                               free_chunks |-> total_chunks(c),
                               total_chunks |-> total_chunks(c)]]

(* Mutant: the class is chosen by its neighbour's size. *)
CacheFor_below(size) ==
    CHOOSE c \in Cache : /\ c = Len(CACHE_SIZES) \/ size <= CACHE_SIZES[c + 1]
                         /\ \A d \in Cache : d < c => size > CACHE_SIZES[d + 1]

CacheFor(size) ==
    CHOOSE c \in Cache : /\ size <= CACHE_SIZES[c]
                         /\ \A d \in Cache : d < c => size > CACHE_SIZES[d]

(* Mutant: a cache with full slabs is not given another page. *)
WithPartial_once(h, c) ==
    IF h.head[c]["partial"] # NULL \/ h.free_pages = {} \/ h.head[c]["full"] # NULL THEN h
    ELSE list_add(allocate_new_slab(h, c), c, "partial", NewPage(h))

(* kmalloc's search for a slab with a free chunk: h with that slab at the  *)
(* head of the partial list, or h itself if there is none.                 *)
WithPartial(h, c) ==
    LET f == h.head[c]["free"]
    IN  CASE h.head[c]["partial"] # NULL -> h
          [] h.head[c]["partial"] = NULL /\ f # NULL ->
                list_add(list_remove(h, c, "free", f), c, "partial", f)
          [] h.head[c]["partial"] = NULL /\ f = NULL /\ h.free_pages # {} ->
                list_add(allocate_new_slab(h, c), c, "partial", NewPage(h))
          [] OTHER -> h

TakeChunk(h, c, s) ==
    LET g == [h EXCEPT !.slab[s].free_list = Tail(@), !.slab[s].free_chunks = @ - 1]
    IN  IF g.slab[s].free_chunks # 0 THEN g
        ELSE list_add(list_remove(g, c, "partial", s), c, "full", s)

(* What kmalloc leaves behind, and the chunk it returns. *)
kmalloc(h, size) ==
    LET c == CacheFor(size)
        g == WithPartial(h, c)
        s == g.head[c]["partial"]
    IN  IF size = 0 \/ size > MaxSize THEN [heap |-> h, ptr |-> NULL]
        ELSE IF s = NULL THEN [heap |-> g, ptr |-> NULL]
        ELSE [heap |-> TakeChunk(g, c, s),
              ptr  |-> [page |-> s, off |-> Head(g.slab[s].free_list)]]

(* Mutant: a slab is given back one chunk too late. *)
GiveBack_late(h, c, s) ==
    IF h.slab[s].free_chunks # h.slab[s].total_chunks + 1 THEN h
    ELSE [list_remove(h, c, "partial", s) EXCEPT !.free_pages = @ \cup {s}]

(* The end of kfree: an empty slab goes back to the page allocator. *)
GiveBack(h, c, s) ==
    IF h.slab[s].free_chunks # h.slab[s].total_chunks THEN h
    ELSE [list_remove(h, c, "partial", s) EXCEPT !.free_pages = @ \cup {s}]

(* Mutant: the chunk is put back uncounted. *)
kfree_uncounted(h, ptr) ==
    LET s == ptr.page
        c == h.slab[s].cache
        g == IF h.slab[s].free_chunks = 0
             THEN list_add(list_remove(h, c, "full", s), c, "partial", s) ELSE h
    IN  GiveBack([g EXCEPT !.slab[s].free_list = <<ptr.off>> \o @], c, s)

kfree(h, ptr) ==
    LET s == ptr.page
        c == h.slab[s].cache
        g == IF h.slab[s].free_chunks = 0
             THEN list_add(list_remove(h, c, "full", s), c, "partial", s) ELSE h
    IN  IF ~ h.slab[s].magic THEN h
        ELSE GiveBack([g EXCEPT !.slab[s].free_list = <<ptr.off>> \o @,
                                !.slab[s].free_chunks = @ + 1], c, s)
-----------------------------------------------------------------------------
NoSlab == [magic |-> FALSE, cache |-> 1, free_list |-> <<>>,
           free_chunks |-> 0, total_chunks |-> 0]

(* init_slab. *)
Init ==
    /\ heap = [slab |-> [p \in Page |-> NoSlab],
               next |-> [p \in Page |-> NULL], prev |-> [p \in Page |-> NULL],
               head |-> [c \in Cache |-> [l \in List |-> NULL]],
               free_pages |-> Page]
    /\ held = {}

Allocate(size) ==
    LET r == kmalloc(heap, size)
    IN  /\ heap' = r.heap
        /\ held' = IF r.ptr = NULL THEN held
                   ELSE held \cup {[page |-> r.ptr.page, off |-> r.ptr.off, size |-> size]}

(* Callers give back what they hold, or NULL, which changes nothing. *)
Release(b) ==
    /\ heap' = kfree(heap, b)
    /\ held' = held \ {b}

(* Other users of the page allocator take and return pages of their own,   *)
(* and overwrite them.                                                     *)
OthersTake ==
    /\ heap.free_pages # {}
    /\ heap' = [heap EXCEPT !.free_pages = @ \ {NewPage(heap)}, !.slab[NewPage(heap)] = NoSlab]
    /\ UNCHANGED held

Others == {p \in Page \ heap.free_pages : ~ heap.slab[p].magic}

OthersReturn ==
    /\ \E p \in Others : heap' = [heap EXCEPT !.free_pages = @ \cup {p}]
    /\ UNCHANGED held

Next ==
    \/ \E size \in Sizes : Allocate(size)
    \/ \E b \in held : Release(b)
    \/ OthersTake
    \/ OthersReturn

Spec == Init /\ [][Next]_vars
-----------------------------------------------------------------------------
SlabPages(h) == {p \in Page \ h.free_pages : h.slab[p].magic}

InUse(p) == {b.off : b \in {x \in held : x.page = p}}

(* The list each slab belongs on, by its count of free chunks. *)
Nowhere  == <<0, "none">>
Place(h) ==
    [p \in Page |->
        IF p \in SlabPages(h)
        THEN <<h.slab[p].cache, IF h.slab[p].free_chunks = 0 THEN "full" ELSE "partial">>
        ELSE Nowhere]

SlabType ==
    [magic : BOOLEAN, cache : Cache, free_list : Seq(Nat), free_chunks : Nat, total_chunks : Nat]

(* Every field has its type, and every chunk lies within its page. *)
TypeOK ==
    /\ heap.slab \in [Page -> SlabType]
    /\ heap.next \in [Page -> Page \cup {NULL}]
    /\ heap.prev \in [Page -> Page \cup {NULL}]
    /\ heap.head \in [Cache -> [List -> Page \cup {NULL}]]
    /\ heap.free_pages \subseteq Page
    /\ held \subseteq [page : Page, off : DATA_START .. PAGE_SIZE, size : Nat]
    /\ \A b \in held : b.off + CACHE_SIZES[heap.slab[b.page].cache] <= PAGE_SIZE

(* The chunks of a slab are shared out between its free list and the       *)
(* holders: each is in exactly one of the two, once, has one holder, and   *)
(* the header counts them.                                                 *)
ChunksAccounted ==
    /\ TypeOK
    /\ \A p \in SlabPages(heap) :
          LET s == heap.slab[p]
          IN  /\ IsInjective(s.free_list) /\ s.free_chunks = Len(s.free_list)
              /\ s.total_chunks = total_chunks(s.cache)
              /\ Range(s.free_list) \cap InUse(p) = {}
              /\ Range(s.free_list) \cup InUse(p) = Range(Chunks(s.cache))
    /\ \A b \in held : b.page \in SlabPages(heap)
    /\ \A a, b \in held : a.page = b.page /\ a.off = b.off => a = b

(* The lists of h are linked both ways and hold each page where on says. *)
Linked(h, on) ==
    /\ \A c \in Cache, l \in List :
          h.head[c][l] # NULL =>
              on[h.head[c][l]] = <<c, l>> /\ h.prev[h.head[c][l]] = NULL
    /\ \A p \in Page : on[p] # Nowhere =>
          /\ h.next[p] # NULL => on[h.next[p]] = on[p] /\ h.prev[h.next[p]] = p
          /\ h.prev[p] # NULL => on[h.prev[p]] = on[p] /\ h.next[h.prev[p]] = p
          /\ h.prev[p] = NULL => h.head[on[p][1]][on[p][2]] = p

(* Every slab is linked, both ways, on the list its free chunks call for:  *)
(* what list_remove relies on, however kmalloc and kfree move it about.    *)
LinksSound == Linked(heap, Place(heap))

(* An empty slab is not kept: a page is with the allocator exactly as long *)
(* as somebody holds a chunk of it.                                        *)
NoSlabLeak == SlabPages(heap) = {b.page : b \in held}

(* slab.h:15: kmalloc "Returns NULL if `size` is 0, exceeds 2048 bytes, or *)
(* no memory is available": never while a slab of the class has a chunk to *)
(* spare or a page is to be had.                                           *)
NullOnlyWhenExhausted ==
    \A size \in Sizes :
        kmalloc(heap, size).ptr = NULL =>
            \/ size = 0 \/ size > MaxSize
            \/ /\ heap.free_pages = {}
               /\ \A p \in SlabPages(heap) :
                     heap.slab[p].cache = CacheFor(size) => heap.slab[p].free_list = <<>>

(* The blocks in use, as their holders see them. *)
Blocks == {[addr |-> b.page * PAGE_SIZE + b.off, size |-> b.size] : b \in held}

KernelHeap == INSTANCE Heap WITH live <- Blocks

(* Blocks handed out never overlap, whatever the order of calls. *)
HeapSpec == KernelHeap!Spec
=============================================================================

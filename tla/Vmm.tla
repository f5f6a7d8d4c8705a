--------------------------------- MODULE Vmm ---------------------------------
(***************************************************************************)
(* Address spaces: the pagetables of vmm.c with copy-on-write, and the     *)
(* system calls that build, share and destroy them (fork, clone, execve,   *)
(* exit and wait, mmap, munmap, brk, fbmap).  All of it runs with          *)
(* interrupts masked, so every call is one step.                           *)
(*                                                                         *)
(* The memory is threaded through the operators as a record mem:           *)
(*   ref    the reference count of every frame; 0 means free (module Pmm)  *)
(*   data   what a frame holds, one value per page                         *)
(*   lower  for a pml4, the frame of the tables below it per Region (the   *)
(*          PDPT, PD and PT of a walk are one frame here)                  *)
(*   pte    for a pml4, the leaf entry of each page                        *)
(*   leaky  history: vmm_map_page has returned without mapping the frame   *)
(*          it was given, or has written over the entry of another one     *)
(***************************************************************************)
EXTENDS Integers, FiniteSets, Sequences, SequencesExt

CONSTANTS
    MaxPid,        \* bound: pids 1 .. MaxPid; a pid is never used twice
    NULL,
    Frames,        \* bound: page frames 1 .. Frames, some taken by others (scene)
    IMAGE,         \* pages of a program's image, its stack included
    MMAP_BASE,     \* page where the mmap region starts
    Pages,         \* bound: pages 0 .. Pages - 1
    Val,           \* page contents; 0 is a zeroed page
    Scenes,        \* the situations a run may start from (SceneType)
    MaxExecs,      \* bound: execve calls in a behaviour
    MaxRefs        \* bound: a fork that may take a count beyond it is not issued

(* What a situation fixes: the system calls programs issue, their mmap     *)
(* requests <<pages, writable, MAP_SHARED>>, the values they store, how    *)
(* many processes there may be, where the mmap region ends, and how many   *)
(* frames are to be had.                                                   *)
SceneType ==
    [calls  : SUBSET {"fork", "clone", "execve", "mmap", "munmap", "brk", "shrink", "fbmap"},
     mmaps  : SUBSET ((1 .. Pages) \X BOOLEAN \X BOOLEAN),
     stores : SUBSET Val,
     pids   : 1 .. MaxPid,
     top    : MMAP_BASE + 1 .. Pages,
     frames : IMAGE + 3 .. Frames]

ASSUME VmmAssumption ==
    /\ MaxPid \in Nat \ {0} /\ NULL \notin Int
    /\ IMAGE \in Nat \ {0} /\ Pages \in Nat /\ MMAP_BASE \in IMAGE .. Pages - 1
    /\ Frames \in Nat /\ Frames >= IMAGE + 3
    /\ 0 \in Val /\ Val \subseteq Nat
    /\ Scenes \subseteq SceneType
    /\ MaxRefs \in Nat /\ MaxExecs \in Nat

VARIABLES
    mem,
    state,         \* UNUSED, LIVE, DEAD or REAPED
    cr3,
    vm_refcount,   \* the thread group's counter each process points at, or NULL;
                   \* a counter is named after the process that allocated it
    counter,       \* the value of each counter
    kernel_stack,
    brk, mmap_next,
    fb_owner,
    execs,         \* execve calls so far, for MaxExecs
    scene          \* the situation this behaviour started from

vars ==
    <<mem, state, cr3, vm_refcount, counter, kernel_stack, brk, mmap_next, fb_owner, execs, scene>>
procVars == <<state, cr3, vm_refcount, counter, kernel_stack, fb_owner, execs>>

Proc  == 1 .. MaxPid
Frame == 1 .. Frames
FB    == 0                    \* the framebuffer, which the PMM does not own
Page  == 0 .. Pages - 1
brk_start == IMAGE

Region == {"image", "mmap"}
RegionOf(v) == IF v < MMAP_BASE THEN "image" ELSE "mmap"

NoPages  == [v \in Page |-> NULL]
NoTables == [r \in Region |-> NULL]

PageSeq == [i \in 1 .. Pages |-> i - 1]
-----------------------------------------------------------------------------
(* pmm_alloc_page, pmm_free_page, pmm_page_ref_inc.  Whoever allocates a   *)
(* frame fills it, so what a free frame holds is not kept.                 *)
HasFrame(m) == \E f \in Frame : m.ref[f] = 0
NewFrame(m) == CHOOSE f \in Frame : m.ref[f] = 0 /\ \A g \in 1 .. f - 1 : m.ref[g] # 0
Alloc(m, x) == [m EXCEPT !.ref[NewFrame(m)] = 1, !.data[NewFrame(m)] = x]
Free(m, f)  ==
    CASE m.ref[f] = 0 -> m
      [] m.ref[f] = 1 -> [m EXCEPT !.ref[f] = 0, !.data[f] = 0]
      [] OTHER        -> [m EXCEPT !.ref[f] = @ - 1]

RefInc(m, f) == [m EXCEPT !.ref[f] = @ + 1]

get_next_level(m, s, r) ==
    IF m.lower[s][r] # NULL \/ ~ HasFrame(m) THEN m
    ELSE [Alloc(m, 0) EXCEPT !.lower[s][r] = NewFrame(m)]

(* The PMM owns the frame: PTE_NOPMM is clear. *)
Owned(e) == ~ e.nopmm

(* Returns without a word when a table cannot be allocated, and does not   *)
(* look at what the entry was.                                             *)
vmm_map_page(m, s, v, entry) ==
    LET n == get_next_level(m, s, RegionOf(v))
        old == n.pte[s][v]
    IN  IF n.lower[s][RegionOf(v)] = NULL THEN [n EXCEPT !.leaky = TRUE]
        ELSE [n EXCEPT !.pte[s][v] = entry, !.leaky = @ \/ (old # NULL /\ Owned(old))]

(* Called with a frame available; the pml4 is NewFrame(m). *)
vmm_new_user_pagetable(m) ==
    [Alloc(m, 0) EXCEPT !.lower[NewFrame(m)] = NoTables, !.pte[NewFrame(m)] = NoPages]

FreeLeaf(m, s, v) ==
    LET e == m.pte[s][v]
    IN  IF e = NULL THEN m
        ELSE [(IF Owned(e) THEN Free(m, e.frame) ELSE m) EXCEPT !.pte[s][v] = NULL]

FreeTable(m, s, r) ==
    IF m.lower[s][r] = NULL THEN m
    ELSE [Free(m, m.lower[s][r]) EXCEPT !.lower[s][r] = NULL]

vmm_destroy_user_pagetable(m, s) ==
    LET leaves == FoldLeft(LAMBDA n, v : FreeLeaf(n, s, v), m, PageSeq)
        tables == FoldLeft(LAMBDA n, r : FreeTable(n, s, r), leaves, <<"image", "mmap">>)
    IN  Free(tables, s)

(* Mutant: the entry goes, the frame is not given back. *)
vmm_unmap_page_forgets(m, s, v) == [m EXCEPT !.pte[s][v] = NULL]

vmm_unmap_page(m, s, v) == FreeLeaf(m, s, v)

(* Mutant: fork leaves private pages writable. *)
Downgraded_never(e) == e

(* A private writable page becomes copy-on-write in both address spaces. *)
Downgraded(e) ==
    IF e.w /\ ~ e.sh /\ ~ e.nopmm THEN [e EXCEPT !.w = FALSE, !.cow = TRUE] ELSE e

clone_leaf(m, src, dst, v) ==
    IF m.pte[src][v] = NULL THEN m
    ELSE LET e == Downgraded(m.pte[src][v])
             n == [m EXCEPT !.pte[src][v] = e]
         IN  vmm_map_page(IF Owned(e) THEN RefInc(n, e.frame) ELSE n, dst, v, e)

(* Called with a frame available; the copy is NewFrame(m). *)
vmm_clone_user_pagetable(m, src) ==
    FoldLeft(LAMBDA n, v : clone_leaf(n, src, NewFrame(m), v),
             vmm_new_user_pagetable(m), PageSeq)

Reclaimed(e) == [e EXCEPT !.w = TRUE, !.cow = FALSE]

SoleOwner(m, f) == m.ref[f] = 1

(* The memory after a copy-on-write fault, when it can be resolved. *)
vmm_handle_cow_fault(m, s, v) ==
    LET e == m.pte[s][v]
    IN  IF SoleOwner(m, e.frame)
        THEN [m EXCEPT !.pte[s][v] = Reclaimed(e)]
        ELSE Free([Alloc(m, m.data[e.frame]) EXCEPT
                      !.pte[s][v] = [Reclaimed(e) EXCEPT !.frame = NewFrame(m)]],
                  e.frame)
-----------------------------------------------------------------------------
PrivatePage(f) == [frame |-> f, w |-> TRUE, cow |-> FALSE, sh |-> FALSE, nopmm |-> FALSE]

(* Mutant: a new page is not zeroed. *)
AllocAndMap_dirty(m, s, v, w, sh) ==
    IF ~ HasFrame(m) THEN m
    ELSE vmm_map_page(Alloc(m, 1), s, v, [PrivatePage(NewFrame(m)) EXCEPT !.w = w, !.sh = sh])

AllocAndMap(m, s, v, w, sh) ==
    IF ~ HasFrame(m) THEN m
    ELSE vmm_map_page(Alloc(m, 0), s, v, [PrivatePage(NewFrame(m)) EXCEPT !.w = w, !.sh = sh])

(* n pages from base, as the loops of elf_load, mmap and brk map them; a   *)
(* loop that runs out of frames stops there.                               *)
MapPages(m, s, base, n, w, sh) ==
    FoldLeft(LAMBDA k, i : AllocAndMap(k, s, base + i - 1, w, sh), m, [i \in 1 .. n |-> i])

MapsAll(m, s, base, n, w, sh) ==
    \A i \in 0 .. n - 1 : HasFrame(MapPages(m, s, base, i, w, sh))

(* A fresh pagetable, NewFrame(m), with the image and the stack. *)
load_elf_into_new_pagetable(m) ==
    MapPages(vmm_new_user_pagetable(m), NewFrame(m), 0, IMAGE, TRUE, FALSE)

LoadsImage(m) == MapsAll(vmm_new_user_pagetable(m), NewFrame(m), 0, IMAGE, TRUE, FALSE)

BareMemory ==
    [ref   |-> [f \in Frame \cup {FB} |-> IF f > scene.frames THEN 1 ELSE 0],
     data  |-> [f \in Frame \cup {FB} |-> 0],
     lower |-> [f \in Frame |-> NoTables],
     pte   |-> [f \in Frame |-> NoPages],
     leaky |-> FALSE]

(* create_user_process has loaded the first program. *)
Init ==
    /\ scene \in Scenes
    /\ mem = Alloc(load_elf_into_new_pagetable(BareMemory), 0)
    /\ state = [p \in Proc |-> IF p = 1 THEN "LIVE" ELSE "UNUSED"]
    /\ cr3 = [p \in Proc |-> IF p = 1 THEN NewFrame(BareMemory) ELSE NULL]
    /\ vm_refcount = [p \in Proc |-> NULL]
    /\ counter = [k \in Proc |-> 0]
    /\ kernel_stack = [p \in Proc |-> IF p = 1
                                    THEN NewFrame(load_elf_into_new_pagetable(BareMemory))
                                    ELSE NULL]
    /\ brk = [p \in Proc |-> brk_start]
    /\ mmap_next = [p \in Proc |-> MMAP_BASE]
    /\ fb_owner = NULL
    /\ execs = 0

next_pid == Cardinality({p \in Proc : state[p] # "UNUSED"}) + 1

Issues(p, s) == state[p] = "LIVE" /\ s \in scene.calls

(* A store by p, or by the kernel on its behalf (CR0.WP is set).  A store  *)
(* the page-fault handler cannot resolve kills p; see exit.                *)
Store(p, v, x) ==
    LET e == mem.pte[cr3[p]][v] IN
    /\ state[p] = "LIVE" /\ e # NULL
    /\ \/ /\ e.w
          /\ mem' = [mem EXCEPT !.data[e.frame] = x]
       \/ /\ ~ e.w /\ e.cow /\ (SoleOwner(mem, e.frame) \/ HasFrame(mem))
          /\ LET m == vmm_handle_cow_fault(mem, cr3[p], v)
             IN  mem' = [m EXCEPT !.data[m.pte[cr3[p]][v].frame] = x]
    /\ UNCHANGED <<procVars, brk, mmap_next>>

(* The process_t that clone_process fills in for the child. *)
Spawn(p, c, s, stack) ==
    /\ state' = [state EXCEPT ![c] = "LIVE"]
    /\ cr3' = [cr3 EXCEPT ![c] = s]
    /\ kernel_stack' = [kernel_stack EXCEPT ![c] = stack]
    /\ brk' = [brk EXCEPT ![c] = brk[p]]
    /\ mmap_next' = [mmap_next EXCEPT ![c] = mmap_next[p]]
    /\ UNCHANGED <<fb_owner, execs>>

(* Mutant: the missing kernel stack goes unnoticed. *)
SYS_fork_unchecked(p, c) ==
    LET s == NewFrame(mem)
        m == vmm_clone_user_pagetable(mem, cr3[p]) IN
    /\ Issues(p, "fork") /\ c = next_pid /\ c <= scene.pids /\ HasFrame(mem)
    /\ \A f \in Frame : mem.ref[f] < MaxRefs
    /\ mem' = m
    /\ Spawn(p, c, s, NULL)
    /\ vm_refcount' = [vm_refcount EXCEPT ![c] = NULL]
    /\ UNCHANGED counter

(* fork(): the pagetable, then the kernel stack, undone if there is none. *)
SYS_fork(p, c) ==
    LET s == NewFrame(mem)
        m == vmm_clone_user_pagetable(mem, cr3[p]) IN
    /\ Issues(p, "fork") /\ c = next_pid /\ c <= scene.pids /\ HasFrame(mem)
    /\ \A f \in Frame : mem.ref[f] < MaxRefs
    /\ \/ /\ HasFrame(m)
          /\ mem' = Alloc(m, 0)
          /\ Spawn(p, c, s, NewFrame(m))
          /\ vm_refcount' = [vm_refcount EXCEPT ![c] = NULL]
          /\ UNCHANGED counter
       \/ /\ ~ HasFrame(m)
          /\ mem' = vmm_destroy_user_pagetable(m, s)
          /\ UNCHANGED <<procVars, brk, mmap_next>>

GroupSize(k) == (IF counter[k] = 0 THEN 1 ELSE counter[k]) + 1

(* clone(CLONE_VM): the first thread of a group allocates its counter. *)
SYS_clone(p, c) ==
    LET k == IF vm_refcount[p] # NULL THEN vm_refcount[p] ELSE p IN
    /\ Issues(p, "clone") /\ c = next_pid /\ c <= scene.pids
    /\ \/ /\ HasFrame(mem)
          /\ mem' = Alloc(mem, 0)
          /\ Spawn(p, c, cr3[p], NewFrame(mem))
          /\ counter' = [counter EXCEPT ![k] = GroupSize(k)]
          /\ vm_refcount' = [vm_refcount EXCEPT ![p] = k, ![c] = k]
       \/ /\ ~ HasFrame(mem)
          /\ counter' = [counter EXCEPT ![k] = IF @ = 0 THEN 1 ELSE @]
          /\ vm_refcount' = [vm_refcount EXCEPT ![p] = k]
          /\ UNCHANGED <<mem, state, cr3, kernel_stack, brk, mmap_next, fb_owner, execs>>

(* execve: a new image, then the old pagetable goes, whoever shares it. *)
SYS_execve(p) ==
    LET s == NewFrame(mem)
        m == load_elf_into_new_pagetable(mem) IN
    /\ Issues(p, "execve") /\ HasFrame(mem) /\ execs < MaxExecs
    /\ execs' = execs + 1
    /\ \/ /\ LoadsImage(mem)
          /\ mem' = vmm_destroy_user_pagetable(m, cr3[p])
          /\ cr3' = [cr3 EXCEPT ![p] = s]
          /\ brk' = [brk EXCEPT ![p] = brk_start]
          /\ mmap_next' = [mmap_next EXCEPT ![p] = MMAP_BASE]
       \/ /\ ~ LoadsImage(mem)
          /\ mem' = vmm_destroy_user_pagetable(m, s)
          /\ UNCHANGED <<cr3, brk, mmap_next>>
    /\ UNCHANGED <<state, vm_refcount, counter, kernel_stack, fb_owner>>

(* SYS_exit, or the kill of a process that faults. *)
exit(p) ==
    /\ state[p] = "LIVE"
    /\ state' = [state EXCEPT ![p] = "DEAD"]
    /\ fb_owner' = IF fb_owner = p THEN NULL ELSE fb_owner
    /\ UNCHANGED <<mem, cr3, vm_refcount, counter, kernel_stack, brk, mmap_next, execs>>

(* A sibling still shares the address space of p. *)
Shared(p) == vm_refcount[p] # NULL /\ counter[vm_refcount[p]] > 1

(* wait_reap_child: the kernel stack, then destroy_process_vm. *)
reap(p) ==
    LET m == Free(mem, kernel_stack[p]) IN
    /\ state[p] = "DEAD"
    /\ state' = [state EXCEPT ![p] = "REAPED"]
    /\ counter' = IF vm_refcount[p] = NULL THEN counter
                  ELSE [counter EXCEPT ![vm_refcount[p]] = @ - 1]
    /\ mem' = IF Shared(p) THEN m ELSE vmm_destroy_user_pagetable(m, cr3[p])
    /\ cr3' = [cr3 EXCEPT ![p] = NULL]
    /\ vm_refcount' = [vm_refcount EXCEPT ![p] = NULL]
    /\ kernel_stack' = [kernel_stack EXCEPT ![p] = NULL]
    /\ brk' = [brk EXCEPT ![p] = brk_start]
    /\ mmap_next' = [mmap_next EXCEPT ![p] = MMAP_BASE]
    /\ UNCHANGED <<fb_owner, execs>>

(* mmap of n anonymous pages; on ENOMEM the pages mapped so far stay, and  *)
(* mmap_next does not move.                                                *)
SYS_mmap(p, n, w, sh) ==
    /\ Issues(p, "mmap") /\ mmap_next[p] + n <= scene.top
    /\ mem' = MapPages(mem, cr3[p], mmap_next[p], n, w, sh)
    /\ mmap_next' = IF MapsAll(mem, cr3[p], mmap_next[p], n, w, sh)
                    THEN [mmap_next EXCEPT ![p] = @ + n] ELSE mmap_next
    /\ UNCHANGED <<procVars, brk>>

SYS_munmap(p, v) ==
    /\ Issues(p, "munmap") /\ v >= MMAP_BASE
    /\ mem' = vmm_unmap_page(mem, cr3[p], v)
    /\ UNCHANGED <<procVars, brk, mmap_next>>

(* brk, in pages: growth maps fresh pages and gives up at the first one it *)
(* cannot have; shrinking only moves the break.                            *)
SYS_brk(p, top) ==
    /\ Issues(p, "brk") /\ top \in brk_start .. MMAP_BASE
    /\ top < brk[p] => "shrink" \in scene.calls
    /\ mem' = MapPages(mem, cr3[p], brk[p], top - brk[p], TRUE, FALSE)
    /\ brk' = IF MapsAll(mem, cr3[p], brk[p], top - brk[p], TRUE, FALSE)
              THEN [brk EXCEPT ![p] = top] ELSE brk
    /\ UNCHANGED <<procVars, mmap_next>>

SYS_fbmap(p) ==
    /\ Issues(p, "fbmap") /\ fb_owner \in {NULL, p} /\ mmap_next[p] < scene.top
    /\ fb_owner' = p
    /\ mem' = vmm_map_page(mem, cr3[p], mmap_next[p], [PrivatePage(FB) EXCEPT !.nopmm = TRUE])
    /\ mmap_next' = [mmap_next EXCEPT ![p] = @ + 1]
    /\ UNCHANGED <<state, cr3, vm_refcount, counter, kernel_stack, brk, execs>>
-----------------------------------------------------------------------------
Next ==
    /\ \E p \in Proc :
          \/ \E v \in Page, x \in scene.stores : Store(p, v, x)
          \/ \E c \in Proc : SYS_fork(p, c) \/ SYS_clone(p, c)
          \/ SYS_execve(p) \/ exit(p) \/ reap(p)
          \/ \E k \in scene.mmaps : SYS_mmap(p, k[1], k[2], k[3])
          \/ \E v \in Page : SYS_munmap(p, v)
          \/ \E top \in Page : SYS_brk(p, top)
          \/ SYS_fbmap(p)
    /\ UNCHANGED scene

Spec == Init /\ [][Next]_vars
-----------------------------------------------------------------------------
EntryType == [frame : Frame \cup {FB}, w : BOOLEAN, cow : BOOLEAN, sh : BOOLEAN, nopmm : BOOLEAN]

(* Types; a copy-on-write entry is never writable, shared or the           *)
(* framebuffer's (the flag arithmetic of fork and of the fault handler).   *)
TypeOK ==
    /\ mem.ref \in [Frame \cup {FB} -> Nat]
    /\ mem.data \in [Frame \cup {FB} -> Val]
    /\ mem.lower \in [Frame -> [Region -> Frame \cup {NULL}]]
    /\ mem.leaky \in BOOLEAN
    /\ \A s \in Frame, v \in Page : mem.pte[s][v] # NULL =>
          /\ mem.pte[s][v] \in EntryType
          /\ mem.pte[s][v].cow => ~ mem.pte[s][v].w /\ ~ mem.pte[s][v].sh /\ Owned(mem.pte[s][v])
    /\ state \in [Proc -> {"UNUSED", "LIVE", "DEAD", "REAPED"}]
    /\ cr3 \in [Proc -> Frame \cup {NULL}]
    /\ counter \in [Proc -> Nat]
    /\ fb_owner \in Proc \cup {NULL}

Spaces == {cr3[p] : p \in {q \in Proc : state[q] \in {"LIVE", "DEAD"}}}

(* How often frame f is used: as a page, a table, a pml4, a kernel stack. *)
Uses(f) ==
    Cardinality({<<s, v>> \in Spaces \X Page :
                    mem.pte[s][v] # NULL /\ mem.pte[s][v].frame = f /\ ~ mem.pte[s][v].nopmm})
    + Cardinality({<<s, r>> \in Spaces \X Region : mem.lower[s][r] = f})
    + Cardinality(Spaces \cap {f})
    + Cardinality({p \in Proc : kernel_stack[p] = f})

(* fork, clone, execve, exit, reap, mmap, munmap, brk, fbmap and           *)
(* copy-on-write faults, also those that fail half way for want of frames, *)
(* keep every frame's count equal to its uses: none leaks, none is freed   *)
(* early, and the framebuffer is never counted.  It holds until            *)
(* vmm_map_page drops a frame it was given (in a fork that runs out of     *)
(* frames, against vmm.c:243, or for the last page of an mmap or brk) or   *)
(* writes over an entry (brk back up after a shrink, threads with an       *)
(* mmap_next each, an mmap repeated after one that failed half way).  From *)
(* then on a count may exceed the uses and is never below them.            *)
RefsSound ==
    /\ TypeOK
    /\ \A f \in Frame : f <= scene.frames => mem.ref[f] >= Uses(f)
    /\ mem.leaky \/ \A f \in 0 .. scene.frames : mem.ref[f] = Uses(f)

(* A private page that one address space may write is mapped by no other,  *)
(* also after a fork that ran out of memory (the downgrade in              *)
(* vmm_clone_user_pagetable, the sole-owner test of the fault handler).    *)
WritableIsPrivate ==
    \A s, t \in Spaces, v, u \in Page :
        LET e == mem.pte[s][v]
            d == mem.pte[t][u]
        IN  (e # NULL /\ d # NULL /\ <<s, v>> # <<t, u>> /\ e.w /\ ~ e.sh /\ Owned(e))
            => e.frame # d.frame

(* The entry of a page of memory; the framebuffer is a device. *)
Entry(p, v) ==
    LET e == mem.pte[cr3[p]][v]
    IN  IF state[p] # "LIVE" \/ e = NULL \/ ~ Owned(e) THEN NULL ELSE e

View == [p \in Proc |-> [v \in Page |->
            IF Entry(p, v) = NULL THEN NULL ELSE mem.data[Entry(p, v).frame]]]

Sharers(p, v) ==
    {q \in Proc : /\ Entry(q, v) # NULL
                  /\ \/ cr3[q] = cr3[p]
                     \/ Entry(q, v).sh /\ Entry(q, v).frame = Entry(p, v).frame}

Kin == [p \in Proc |-> [v \in Page |-> IF Entry(p, v) = NULL THEN {} ELSE Sharers(p, v)]]

Memory == INSTANCE PrivateMemory WITH view <- View, kin <- Kin, Zero <- 0

(* Copy-on-write is invisible: what processes read is what they would read *)
(* if fork copied every private page at once (PrivateMemory).              *)
MemorySpec == Memory!Spec

(* A child that runs has all of its parent's pages, though vmm_map_page    *)
(* says nothing when it fails: whatever starves it also starves the        *)
(* allocation of the kernel stack, and the fork fails as a whole.          *)
ForkIsComplete ==
    [][\A p, c \in Proc : SYS_fork(p, c) /\ state'[c] = "LIVE" =>
          \A v \in Page : (mem.pte[cr3[p]][v] = NULL) = (mem'.pte[cr3'[c]][v] = NULL)]_vars

(* process.h:150: a pagetable is only torn down with the last process that *)
(* shares it, so a live process has one.                                   *)
SiblingsKeepSpace == \A p \in Proc : state[p] = "LIVE" => mem.ref[cr3[p]] > 0
=============================================================================

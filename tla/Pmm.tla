--------------------------------- MODULE Pmm ---------------------------------
(***************************************************************************)
(* The physical memory manager, pmm.c: a bitmap of page frames, a          *)
(* reference count per frame, and the index the search starts from.        *)
(*                                                                         *)
(* holders is what the rest of the kernel holds: the number of references *)
(* to a frame that were returned by pmm_alloc_page or added by             *)
(* pmm_page_ref_inc and not yet dropped.  Callers drop and share only what *)
(* they hold.                                                              *)
(***************************************************************************)
EXTENDS PmmLayout

CONSTANTS
    MemMap,       \* Limine's memory map, as PmmLayout describes it
    PAGE_SIZE,
    RefLimit,     \* a uint16_t reference count wraps to 0 here
    MaxRefs,      \* bound: references held to one frame
    NO_FRAME      \* the NULL that pmm_alloc_page returns

Frames == highest_address(MemMap)
Frame  == 0 .. Frames - 1

(* The memory map has room for the tables, they cover every frame (see     *)
(* NeverOverlap for the sizes where they do not), and what is not a frame  *)
(* is not mistaken for one.                                                *)
ASSUME MemMapAssumption ==
    /\ Frames \in Nat \ {0}
    /\ Fitting(MemMap, PAGE_SIZE) # {}
    /\ Frames <= 8 * bitmap_size(Frames)
    /\ TableFrames(MemMap, PAGE_SIZE) \subseteq Frame
    /\ NO_FRAME \notin Frame

ASSUME RefAssumption == RefLimit \in Nat \ {0, 1} /\ MaxRefs \in Nat \ {0}

VARIABLES
    bitmap,         \* the frames whose bit is set
    refcounts,
    bitmap_index,
    result,         \* what the last pmm_alloc_page returned
    holders

pmmVars == <<bitmap, refcounts, bitmap_index, result, holders>>

Reserved == (Frame \ UsableFrames(MemMap)) \cup TableFrames(MemMap, PAGE_SIZE) \cup {0}

(* init_pmm: the frames of no usable region, the tables' own and frame 0   *)
(* keep their bit.                                                         *)
PmmInit ==
    /\ bitmap = Reserved
    /\ refcounts = [f \in Frame |-> IF f = 0 THEN 1 ELSE 0]
    /\ bitmap_index = 0
    /\ result = NO_FRAME
    /\ holders = [f \in Frame |-> 0]

FreeFrom(lo, hi) == {f \in lo .. hi - 1 : f \notin bitmap}

Lowest(S) == CHOOSE f \in S : \A g \in S : f <= g

(* Mutant: the search stops one frame early. *)
Candidates_short == FreeFrom(bitmap_index, Frames - 1)

(* The search goes up from the index, then over the frames below it. *)
Candidates ==
    IF FreeFrom(bitmap_index, Frames) # {} THEN FreeFrom(bitmap_index, Frames)
    ELSE FreeFrom(0, bitmap_index)

(* Mutant: the reference count of a reused frame is not reset. *)
pmm_alloc_page_keeps_count ==
    IF Candidates = {}
    THEN result' = NO_FRAME /\ UNCHANGED <<bitmap, refcounts, bitmap_index, holders>>
    ELSE LET f == Lowest(Candidates) IN
         /\ bitmap' = bitmap \cup {f}
         /\ bitmap_index' = f
         /\ refcounts' = [refcounts EXCEPT ![f] = (@ + 2) % RefLimit]
         /\ result' = f
         /\ holders' = [holders EXCEPT ![f] = 1]

pmm_alloc_page ==
    IF Candidates = {}
    THEN result' = NO_FRAME /\ UNCHANGED <<bitmap, refcounts, bitmap_index, holders>>
    ELSE LET f == Lowest(Candidates) IN
         /\ bitmap' = bitmap \cup {f}
         /\ bitmap_index' = f
         /\ refcounts' = [refcounts EXCEPT ![f] = 1]
         /\ result' = f
         /\ holders' = [holders EXCEPT ![f] = 1]

IndexAfterFree(f) == IF f < bitmap_index THEN f ELSE bitmap_index

(* Mutant: the count is tested before it is decremented. *)
DropsLast_late(f) == refcounts[f] = 0

(* The reference dropped is the last one counted. *)
DropsLast(f) == refcounts[f] <= 1

pmm_free_page(f) ==
    /\ holders[f] > 0
    /\ holders' = [holders EXCEPT ![f] = @ - 1]
    /\ UNCHANGED result
    /\ IF f \notin bitmap
       THEN UNCHANGED <<bitmap, refcounts, bitmap_index>>
       ELSE /\ refcounts' = [refcounts EXCEPT ![f] = IF @ > 0 THEN @ - 1 ELSE 0]
            /\ bitmap' = IF DropsLast(f) THEN bitmap \ {f} ELSE bitmap
            /\ bitmap_index' = IF DropsLast(f) THEN IndexAfterFree(f) ELSE bitmap_index

pmm_page_ref_inc(f) ==
    /\ holders[f] > 0 /\ holders[f] < MaxRefs
    /\ holders' = [holders EXCEPT ![f] = @ + 1]
    /\ refcounts' = [refcounts EXCEPT ![f] = (@ + 1) % RefLimit]
    /\ UNCHANGED <<bitmap, bitmap_index, result>>

PmmNext ==
    \/ pmm_alloc_page
    \/ \E f \in Frame : pmm_free_page(f) \/ pmm_page_ref_inc(f)

PmmSpec == PmmInit /\ [][PmmNext]_pmmVars
-----------------------------------------------------------------------------
PmmTypeOK ==
    /\ bitmap \in SUBSET Frame
    /\ refcounts \in [Frame -> 0 .. RefLimit - 1]
    /\ bitmap_index \in Frame
    /\ result \in Frame \cup {NO_FRAME}
    /\ holders \in [Frame -> 0 .. MaxRefs]

(* pmm.c:198: "pages shared via copy-on-write survive until every owner    *)
(* has released" them: a frame somebody holds is marked allocated.         *)
HeldSurvives == \A f \in Frame : holders[f] > 0 => f \in bitmap

(* pmm_page_refcount, by which vmm_handle_cow_fault decides whether a      *)
(* frame is still shared, counts the holders exactly.                      *)
CountsHolders == \A f \in Frame : holders[f] > 0 => refcounts[f] = holders[f]

(* Nothing leaks: a frame whose bit is set is held, or was reserved at     *)
(* boot, and the boot's own frames are never handed out or returned.       *)
NoLeak ==
    /\ Reserved \subseteq bitmap
    /\ \A f \in bitmap : holders[f] > 0 \/ f \in Reserved
    /\ \A f \in Reserved : holders[f] = 0

(* bitmap_index is where the search may start without missing a frame.     *)
IndexSound == \A f \in 0 .. bitmap_index - 1 : f \in bitmap

(* pmm_alloc_page returns the lowest free frame, which nobody holds, and   *)
(* NULL only when every frame is taken: its second loop finds nothing.     *)
AllocLowest ==
    [][/\ \A f \in bitmap' \ bitmap :
             holders[f] = 0 /\ result' = f /\ \A g \in Frame \ bitmap : f <= g
       /\ result' = NO_FRAME /\ result # NO_FRAME => bitmap = Frame]_pmmVars
=============================================================================
